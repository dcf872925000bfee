----------------------------- MODULE Variables -----------------------------
(***************************************************************************)
(* The table of variables and what each kind of assignment does to it:     *)
(* MakeState::set_variable, and the define, undefine and export lines that *)
(* write the table without it.  A value is a sequence of words, and a word *)
(* that is the name of a variable stands for a reference to it.            *)
(***************************************************************************)
EXTENDS Naturals, FiniteSets, SequencesExt

CONSTANTS Names,                  \* of variables
          environment_overrides   \* make -e

ASSUME NamesAssumption == Names \subseteq STRING /\ IsFiniteSet(Names)
ASSUME OptionAssumption == environment_overrides \in BOOLEAN

Word == STRING
VarOrigin == {"default", "environment", "file", "command_line", "override"}
Marks == {"unset", "exported", "unexported"}
Variable == [value : Seq(Word), flavor : {"simple", "recursive"},
             origin : VarOrigin, export : Marks]

VarFlavor == {"=", ":=", ":::=", "+=", "?=", "!="}
Assignment == [name : Names, value : Seq(Word), flavor : VarFlavor,
               override : BOOLEAN, export : BOOLEAN]

(* A table binds some of the names. *)
IsTable(vars) == DOMAIN vars \subseteq Names /\ \A n \in DOMAIN vars : vars[n] \in Variable

Bind(vars, n, variable) ==
  [m \in DOMAIN vars \cup {n} |-> IF m = n THEN variable ELSE vars[m]]

(* The text of every name, references followed as deep as there are names: *)
(* a deeper reference is one of a variable to itself.                      *)
Texts(vars) ==
  LET text[depth \in 0..Cardinality(Names)] ==
        [n \in Names |->
           IF n \notin DOMAIN vars \/ depth = 0 THEN <<>>
           ELSE FlattenSeq([i \in DOMAIN vars[n].value |->
                  LET w == vars[n].value[i]
                  IN  IF w \in Names /\ vars[n].flavor = "recursive"
                      THEN text[depth - 1][w] ELSE <<w>>])]
  IN  text[Cardinality(Names)]

Expand(vars, value) ==
  LET texts == Texts(vars)
  IN  FlattenSeq([i \in DOMAIN value |->
        IF value[i] \in Names THEN texts[value[i]] ELSE <<value[i]>>])
-----------------------------------------------------------------------------
(* The origins that a line of a makefile without override cannot change. *)
is_protected(origin) ==
  \/ origin \in {"command_line", "override"}
  \/ environment_overrides /\ origin = "environment"

Blocked(vars, a) ==
  ~a.override /\ a.name \in DOMAIN vars /\ is_protected(vars[a.name].origin)

(* A new variable has no mark, whatever the one it replaces had. *)
make_var(value, flavor, override) ==
  [value |-> value, flavor |-> flavor, export |-> "unset",
   origin |-> IF override THEN "override" ELSE "file"]

(* += keeps the flavor, and what is added to a simple variable is expanded *)
(* at once.                                                                *)
Append_to(vars, a) ==
  LET old == vars[a.name]
      more == IF old.flavor = "simple" THEN Expand(vars, a.value) ELSE a.value
  IN  [old EXCEPT !.value = @ \o more,
                  !.origin = IF a.override THEN "override" ELSE @]

(* The value of := and :::= is expanded before anything else is done.      *)
Immediate(vars, a) ==
  IF a.flavor \in {":=", ":::="} THEN [a EXCEPT !.value = Expand(vars, a.value)] ELSE a

(* What an assignment puts in place of a variable.  That of :::= is stored *)
(* with its dollars quoted and recursive; for != the value is what the     *)
(* shell printed.                                                          *)
Created(a) == make_var(a.value, IF a.flavor = ":=" THEN "simple" ELSE "recursive", a.override)

Stored(vars, a) ==
  CASE a.flavor = "+=" /\ a.name \in DOMAIN vars -> Append_to(vars, a)
    [] a.flavor = "?=" /\ a.name \in DOMAIN vars -> vars[a.name]
    [] OTHER -> Created(a)

(* The export of a ?= line takes effect even if its value does not, and    *)
(* even on a protected variable.                                           *)
set_variable(vars, a) ==
  IF Blocked(vars, a) /\ a.flavor # "?=" THEN vars
  ELSE LET set == Bind(vars, a.name, Stored(vars, a))
       IN  IF a.export THEN [set EXCEPT ![a.name].export = "exported"] ELSE set

(* endef: a block with override always replaces, += included; one without  *)
(* respects the command line only.                                         *)
Define(vars, name, flavor, override, body) ==
  LET block == [value |-> body, flavor |-> flavor, override |-> override]
      new == Created(Immediate(vars, block))
  IN  IF override \/ name \notin DOMAIN vars THEN Bind(vars, name, new)
      ELSE IF vars[name].origin = "command_line" \/ flavor = "?=" THEN vars
      ELSE IF flavor = "+=" THEN [vars EXCEPT ![name].value = @ \o body]
      ELSE Bind(vars, name, new)

Undefine(vars, name, override) ==
  IF ~override /\ name \in DOMAIN vars /\ vars[name].origin = "command_line" THEN vars
  ELSE [n \in DOMAIN vars \ {name} |-> vars[n]]

(* export and unexport mark variables that may not exist yet. *)
Mark(vars, names, mark) ==
  [n \in DOMAIN vars \cup names |->
     IF n \notin names THEN vars[n]
     ELSE IF n \in DOMAIN vars THEN [vars[n] EXCEPT !.export = mark]
     ELSE [value |-> <<>>, flavor |-> "recursive", origin |-> "file", export |-> mark]]

IsDefined(vars, name) == name \in DOMAIN vars /\ vars[name].value # <<>>
=============================================================================
