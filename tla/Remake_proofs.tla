--------------------------- MODULE Remake_proofs ---------------------------
(***************************************************************************)
(* Theorems about the remaking of makefiles, for every set of files and    *)
(* whatever the makefiles say.                                             *)
(***************************************************************************)
EXTENDS Remake, SequenceFacts

Outcomes == {"AlreadyExists", "Error", "Imagined", "SiblingAlreadyRan", "SiblingOf",
             "PrereqsOnlyNoRecipe", "RunRecipe"}
Frame == [target : Files, left : Seq(Files), before : Nat]
WorkItem == [file : Files, ignore : BOOLEAN, outcome : Outcomes, primary : Nat, pre : Nat]

MkOK ==
  /\ mk.includes \in [Files -> Seq(Line)] /\ mk.rules \in [Files -> Rules]
  /\ mk.by \in [Files -> Files] /\ mk.named \in BOOLEAN

ListsOK ==
  /\ agenda \in Seq(Line) /\ pending_includes \in Seq(Line)
  /\ makefile_list \in Seq([file : Files, time : Nat])
  /\ phase = "listed" => todo \in Seq(Files)
  /\ phase = "pending" => todo \in Seq(Line)
  /\ phase = "results" => todo \in Seq(DOMAIN work_items)

FramesOK ==
  /\ stack \in Seq(Frame)
  /\ \A i \in DOMAIN stack : stack[i].before <= clock

WorkOK ==
  /\ work_items \in Seq(WorkItem) /\ recipe_results \in Seq({"none", "ok", "error"})
  /\ phase \in {"reading", "listed"} => work_items = <<>>

(* A makefile that was read is there, and only a new image can come of its *)
(* having been remade, but if it was read after that.                      *)
Kept(read) ==
  /\ Readable(read.file)
  /\ phase \in {"reading", "listed", "pending", "recipes"} /\ read.file \in remade
       => any_really_rebuilt
  /\ phase \in {"results", "building"} /\ read.file \in remade
       => files[read.file] = read.time \/ any_really_rebuilt

ReadInv == \A k \in DOMAIN makefile_list : Kept(makefile_list[k])

(* What an outcome says of its file, while the rules are those by which it *)
(* was found.                                                              *)
Sound(w) ==
  /\ w.outcome = "AlreadyExists" => Readable(w.file)
  /\ w.outcome \in {"RunRecipe", "SiblingOf"} => w.file \in include_recipe_ran
  /\ w.outcome = "SiblingAlreadyRan" /\ ~w.ignore => w.file \in include_recipe_ran
  /\ phase = "pending" =>
       /\ w.outcome = "Imagined" /\ ~w.ignore => RuleOf(w.file).kind = "imagined"
       /\ w.outcome = "PrereqsOnlyNoRecipe" => ~RuleOf(w.file).recipe
  /\ phase \in {"pending", "recipes"} /\ w.outcome = "RunRecipe" => ~IsRead(w.file)

ItemInv == \A i \in DOMAIN work_items : Sound(work_items[i])

(* No line before the i-th requires f, but where that is an error.         *)
NotRequired(f, i) ==
  \A j \in DOMAIN work_items :
    j < i /\ work_items[j].file = f /\ ~work_items[j].ignore => work_items[j].outcome = "Error"

EarlierInv == \A i \in recipe_indices : NotRequired(work_items[i].file, i)

(* The file whose prerequisites are being made, so that its recipe can be  *)
(* queued.                                                                 *)
WalkInv ==
  phase = "pending" /\ stack # <<>> =>
    LET f == Head(todo).file
    IN  /\ f \notin include_recipe_ran /\ ~IsRead(f)
        /\ RuleOf(f).kind # "imagined"
        /\ RuleOf(f).recipe => NotRequired(f, Len(work_items) + 1)

FailedInv ==
  phase # "failed" =>
    \A f \in failed :
      \E i \in recipe_indices : work_items[i].file = f /\ recipe_results[i] = "error"

ResultOf(i) ==
  recipe_results[IF work_items[i].outcome = "SiblingOf" THEN work_items[i].primary ELSE i]

(* What phase C has gone past.                                             *)
Passed(i) ==
  LET w == work_items[i]
  IN  ~w.ignore =>
        /\ w.outcome # "Error"
        /\ w.outcome \in {"RunRecipe", "SiblingOf"} => ResultOf(i) = "ok"
        /\ w.outcome = "Imagined" => w.file \in include_imagined
        /\ w.outcome = "PrereqsOnlyNoRecipe" => Exists(w.file) \/ w.file \in include_imagined

JudgedInv ==
  /\ phase = "results" => \A i \in DOMAIN work_items : i \in Range(todo) \/ Passed(i)
  /\ phase = "building" => \A i \in DOMAIN work_items : Passed(i)

IInv ==
  /\ TypeOK /\ MkOK /\ ListsOK /\ FramesOK /\ WorkOK
  /\ phase = "reading" => remade = {}
  /\ phase = "building" => ~any_really_rebuilt
  /\ stack # <<>> => phase \in {"listed", "pending"} /\ todo # <<>>
  /\ ReadInv /\ ItemInv /\ EarlierInv /\ WalkInv /\ FailedInv /\ JudgedInv

(* Where several lines name a file, only the first may require it.         *)
RequiredFirst ==
  \A i, j \in DOMAIN work_items :
    i < j /\ work_items[i].file = work_items[j].file => work_items[j].ignore
-----------------------------------------------------------------------------
(* What a step leaves alone.                                               *)

(* Only recipes write.                                                     *)
LEMMA WritesOnly ==
  ASSUME Next
  PROVE  \/ UNCHANGED <<files, clock, mk>>
         \/ \E f, end : RunsRecipe(f, end)
BY DEF Next, ReadMakefile, AllRead, PassOver, GoDown, ComeBack, SkipListed, EnterListed,
       KeepListed, RemakeListed, EndListed, SettlePending, EnterPending, QueuePending, EndPending,
       FinishRecipe, EndRecipes, JudgeOld, JudgeMade, JudgeImagined, JudgeFailed, JudgeNothing,
       EndResults, Reinvoke, CannotReinvoke, Judged, outside

(* Only reading lists makefiles.                                           *)
LEMMA ListedOnly ==
  ASSUME Next
  PROVE  \/ UNCHANGED makefile_list
         \/ ReadMakefile \/ Reinvoke
BY DEF Next, AllRead, PassOver, GoDown, ComeBack, SkipListed, EnterListed,
       KeepListed, RemakeListed, EndListed, SettlePending, EnterPending, QueuePending, EndPending,
       FinishRecipe, EndRecipes, JudgeOld, JudgeMade, JudgeImagined, JudgeFailed, JudgeNothing,
       EndResults, CannotReinvoke, Judged, lists

(* Outcomes are added in phase A, and recipes end in phase B.              *)
LEMMA WorkOnly ==
  ASSUME Next
  PROVE  \/ UNCHANGED <<work_items, recipe_results>>
         \/ SettlePending \/ QueuePending
         \/ \E i \in recipe_indices : FinishRecipe(i)
         \/ Reinvoke
BY DEF Next, ReadMakefile, AllRead, PassOver, GoDown, ComeBack, SkipListed, EnterListed,
       KeepListed, RemakeListed, EndListed, EnterPending, EndPending,
       EndRecipes, JudgeOld, JudgeMade, JudgeImagined, JudgeFailed, JudgeNothing,
       EndResults, CannotReinvoke, Judged, work

(* A file's own recipe is run for a file that was read, or in phase B.     *)
LEMMA HistoryOnly ==
  ASSUME Next
  PROVE  \/ UNCHANGED <<remade, failed>>
         \/ RemakeListed
         \/ \E i \in recipe_indices : FinishRecipe(i)
         \/ Reinvoke
BY DEF Next, ReadMakefile, AllRead, PassOver, GoDown, ComeBack, SkipListed, EnterListed,
       KeepListed, EndListed, SettlePending, EnterPending, QueuePending, EndPending,
       EndRecipes, JudgeOld, JudgeMade, JudgeImagined, JudgeFailed, JudgeNothing,
       EndResults, CannotReinvoke, Judged, history

(* Where include_recipe_ran changes.                                       *)
LEMMA RanOnly ==
  ASSUME Next
  PROVE  \/ UNCHANGED <<include_recipe_ran, include_already_ran>>
         \/ RemakeListed \/ QueuePending \/ Reinvoke
BY DEF Next, ReadMakefile, AllRead, PassOver, GoDown, ComeBack, SkipListed, EnterListed,
       KeepListed, EndListed, SettlePending, EnterPending, EndPending,
       FinishRecipe, EndRecipes, JudgeOld, JudgeMade, JudgeImagined, JudgeFailed, JudgeNothing,
       EndResults, CannotReinvoke, Judged, notes

(* Where the calls of build_include_prerequisites change.                  *)
LEMMA StackOnly ==
  ASSUME Next
  PROVE  \/ UNCHANGED <<stack, visited>>
         \/ PassOver \/ GoDown \/ ComeBack \/ EnterListed \/ EnterPending
         \/ stack' = <<>>
BY DEF Next, ReadMakefile, AllRead, SkipListed,
       KeepListed, RemakeListed, EndListed, SettlePending, QueuePending, EndPending,
       FinishRecipe, EndRecipes, JudgeOld, JudgeMade, JudgeImagined, JudgeFailed, JudgeNothing,
       EndResults, Reinvoke, CannotReinvoke, Judged, walk

(* Time goes on, and files never vanish.                                   *)
LEMMA TimesGrow ==
  ASSUME files \in [Files -> 0 .. clock], clock \in Nat, Next
  PROVE  /\ files' \in [Files -> 0 .. clock'] /\ clock' \in Nat /\ clock <= clock'
         /\ mk' = mk
         /\ \A f \in Files : Exists(f) => Exists(f)'
         /\ \A f \in Files : Readable(f) => Readable(f)'
<1>1. CASE UNCHANGED <<files, clock, mk>>
  BY <1>1 DEF Exists, Readable
<1>2. ASSUME NEW f, NEW end, RunsRecipe(f, end)
      PROVE  /\ files' \in [Files -> 0 .. clock'] /\ clock' \in Nat /\ clock <= clock'
             /\ mk' = mk /\ \A g \in Files : Exists(g) => Exists(g)'
  <2>1. /\ files' = [g \in Files |-> IF g \in end.wrote THEN clock + 1 ELSE files[g]]
        /\ clock' = IF end.wrote = {} THEN clock ELSE clock + 1
        /\ mk' = mk
    BY <1>2 DEF RunsRecipe
  <2> QED BY <2>1 DEF Exists
<1> QED BY <1>1, <1>2, WritesOnly DEF Readable
-----------------------------------------------------------------------------
(* Rules, frames and lists.                                                *)

(* A file has one of the makefiles' rules or none, and makes itself.       *)
LEMMA RulesType ==
  ASSUME MkOK, NEW f \in Files
  PROVE  RuleOf(f) \in Rules /\ f \in Outputs(f)
<1>1. NoRule \in Rules
  <2>1. <<>> \in Seq(Files)
    OBVIOUS
  <2> QED BY <2>1 DEF NoRule, Rules
<1> QED BY <1>1 DEF RuleOf, MkOK, Outputs

(* The rules change only as makefiles are read.                            *)
LEMMA SameRules ==
  ASSUME mk' = mk, makefile_list' = makefile_list
  PROVE  /\ \A f : RuleOf(f)' = RuleOf(f)
         /\ \A f : IsRead(f)' = IsRead(f)
BY DEF RuleOf, IsRead

(* The innermost call, and the others.                                     *)
LEMMA StackTop ==
  ASSUME FramesOK, stack # <<>>
  PROVE  /\ Len(stack) \in Nat \ {0} /\ DOMAIN stack = 1 .. Len(stack)
         /\ Top = stack[Len(stack)] /\ Top \in Frame /\ Top.before <= clock
         /\ Front(stack) \in Seq(Frame) /\ DOMAIN Front(stack) = 1 .. Len(stack) - 1
         /\ Len(Front(stack)) = Len(stack) - 1
         /\ \A i \in 1 .. Len(stack) - 1 : Front(stack)[i] = stack[i]
<1>1. stack \in Seq(Frame) /\ Len(stack) \in Nat \ {0} /\ DOMAIN stack = 1 .. Len(stack)
  BY DEF FramesOK
<1>2. Front(stack) = SubSeq(stack, 1, Len(stack) - 1)
  BY DEF Front
<1>3. /\ Front(stack) \in Seq(Frame) /\ Len(Front(stack)) = Len(stack) - 1
      /\ \A i \in 1 .. Len(stack) - 1 : Front(stack)[i] = stack[i]
  BY <1>1, <1>2
<1> QED BY <1>1, <1>3 DEF Top, Last, FramesOK

(* Going on to the next prerequisite, and going down with another frame.   *)
LEMMA StackGoing ==
  ASSUME FramesOK, Walking
  PROVE  /\ Head(Top.left) \in Files
         /\ Going \in Seq(Frame) /\ DOMAIN Going = DOMAIN stack /\ Len(Going) = Len(stack)
         /\ \A i \in DOMAIN stack : /\ Going[i].target = stack[i].target
                                    /\ Going[i].before = stack[i].before
<1>1. stack # <<>> /\ Top.left # <<>>
  BY DEF Walking
<1> DEFINE n == Len(stack)
           moved == [Top EXCEPT !.left = Tail(@)]
<1>2. /\ n \in Nat \ {0} /\ DOMAIN stack = 1 .. n /\ Top = stack[n] /\ Top \in Frame
      /\ Front(stack) \in Seq(Frame) /\ Len(Front(stack)) = n - 1
      /\ \A i \in 1 .. n - 1 : Front(stack)[i] = stack[i]
  BY <1>1, StackTop
<1>3. Top.left \in Seq(Files)
  BY <1>2 DEF Frame
<1>4. Head(Top.left) \in Files /\ Tail(Top.left) \in Seq(Files)
  BY <1>1, <1>3
<1>5. moved \in Frame /\ moved.target = Top.target /\ moved.before = Top.before
  BY <1>2, <1>4 DEF Frame
<1> HIDE DEF moved, n
<1>6. /\ Going \in Seq(Frame) /\ Len(Going) = n /\ DOMAIN Going = 1 .. n
      /\ Going[n] = moved /\ \A i \in 1 .. n - 1 : Going[i] = Front(stack)[i]
  <2>1. Going = Append(Front(stack), moved)
    BY DEF Going, moved
  <2>2. ASSUME NEW a \in Seq(Frame), NEW e \in Frame
        PROVE  /\ Append(a, e) \in Seq(Frame) /\ Len(Append(a, e)) = Len(a) + 1
               /\ DOMAIN Append(a, e) = 1 .. Len(a) + 1
               /\ Append(a, e)[Len(a) + 1] = e
               /\ \A i \in 1 .. Len(a) : Append(a, e)[i] = a[i]
    OBVIOUS
  <2>3. Front(stack) \in Seq(Frame) /\ moved \in Frame /\ Len(Front(stack)) + 1 = n
    BY <1>2, <1>5
  <2> QED BY <1>2, <2>1, <2>2, <2>3
<1>7. \A i \in 1 .. n : i = n \/ i \in 1 .. n - 1
  BY <1>2
<1>8. /\ Going[n].target = stack[n].target /\ Going[n].before = stack[n].before
      /\ DOMAIN Going = DOMAIN stack /\ Len(Going) = Len(stack)
  BY <1>2, <1>5, <1>6 DEF n
<1> QED BY <1>2, <1>4, <1>6, <1>7, <1>8

(* No call is under way for a target that another is under way for.        *)
StackOK ==
  /\ FramesOK
  /\ \A i \in DOMAIN stack : stack[i].target \in visited
  /\ \A i, j \in DOMAIN stack : stack[i].target = stack[j].target => i = j

(* The same, as TypeOK has it.                                             *)
LEMMA StackSame ==
  StackOK <=>
    /\ FramesOK
    /\ \A i \in DOMAIN stack : stack[i].target \in visited
    /\ IsInjective([i \in DOMAIN stack |-> stack[i].target])
BY DEF StackOK, IsInjective

(* The first call.                                                         *)
LEMMA CallOK ==
  ASSUME NEW f \in Files, MkOK, files \in [Files -> 0 .. clock], clock \in Nat,
         files' = files, clock' = clock, stack = <<>>, stack' = Call(f), visited' = {f}
  PROVE  StackOK'
<1> DEFINE frame == [target |-> f, left |-> RuleOf(f).prereqs, before |-> files[f]]
<1>1. frame \in Frame /\ frame.before <= clock /\ frame.target = f
  BY RulesType DEF Frame, Rules
<1> HIDE DEF frame
<1>2. stack' = <<frame>>
  <2>1. stack' = Append(stack, frame)
    BY DEF Call, frame
  <2> QED BY <2>1
<1>3. stack' \in Seq(Frame) /\ DOMAIN stack' = {1} /\ stack'[1] = frame
  BY <1>1, <1>2
<1> QED BY <1>1, <1>3 DEF StackOK, FramesOK

(* No step makes two calls for one target.                                 *)
LEMMA StackStep ==
  ASSUME StackOK, MkOK, ListsOK, files \in [Files -> 0 .. clock], clock \in Nat, Next
  PROVE  StackOK'
<1>0. clock' \in Nat /\ clock <= clock' /\ stack \in Seq(Frame)
  BY TimesGrow DEF StackOK, FramesOK
<1>00. \A i \in DOMAIN stack : stack[i].before \in Nat
  <2>1. \A i \in DOMAIN stack : stack[i] \in Frame
    BY <1>0
  <2> QED BY <2>1 DEF Frame
<1>1. CASE UNCHANGED <<stack, visited>>
  BY <1>0, <1>00, <1>1 DEF StackOK, FramesOK
<1>2. CASE stack' = <<>>
  BY <1>2 DEF StackOK, FramesOK
<1>3. CASE PassOver
  <2>1. /\ Walking /\ stack' = Going /\ visited \subseteq visited'
        /\ clock' = clock
    BY <1>3 DEF PassOver, outside
  <2>2. \A i \in DOMAIN stack : stack[i].before <= clock
    BY DEF StackOK, FramesOK
  <2> QED BY <2>1, <2>2, StackGoing DEF StackOK, FramesOK
<1>4. CASE GoDown
  <2> DEFINE p == Head(Top.left)
             frame == [target |-> p, left |-> RuleOf(p).prereqs, before |-> files[p]]
             n == Len(stack)
  <2>1. /\ Walking /\ p \notin visited /\ stack' = Append(Going, frame)
        /\ visited' = visited \cup {p} /\ clock' = clock
    BY <1>4 DEF GoDown, outside
  <2>2. /\ p \in Files /\ Going \in Seq(Frame) /\ DOMAIN Going = DOMAIN stack /\ Len(Going) = n
        /\ \A i \in DOMAIN stack : /\ Going[i].target = stack[i].target
                                   /\ Going[i].before = stack[i].before
    BY <2>1, StackGoing DEF StackOK
  <2>3. n \in Nat /\ DOMAIN stack = 1 .. n
    BY <1>0
  <2>4. frame \in Frame /\ frame.target = p /\ frame.before <= clock
    BY <2>2, RulesType DEF Frame, Rules
  <2> HIDE DEF frame, p
  <2>5. /\ stack' \in Seq(Frame) /\ DOMAIN stack' = 1 .. n + 1 /\ stack'[n + 1] = frame
        /\ \A i \in 1 .. n : stack'[i] = Going[i]
    BY <2>1, <2>2, <2>3, <2>4
  <2>6. \A i \in 1 .. n + 1 : i = n + 1 \/ i \in 1 .. n
    BY <2>3
  <2>7. \A i \in 1 .. n : stack[i].target # p /\ stack[i].before <= clock
    BY <2>1, <2>3 DEF StackOK, FramesOK
  <2>8. \A i, j \in 1 .. n : stack[i].target = stack[j].target => i = j
    BY <2>3 DEF StackOK
  <2>9. \A i \in 1 .. n : stack[i].target \in visited
    BY <2>3 DEF StackOK
  <2>10. \A i \in 1 .. n : /\ stack'[i].target = stack[i].target
                           /\ stack'[i].before = stack[i].before
    BY <2>2, <2>3, <2>5
  <2>11. FramesOK'
    BY <2>1, <2>4, <2>5, <2>6, <2>7, <2>10 DEF FramesOK
  <2>12. \A i, j \in 1 .. n + 1 : stack'[i].target = stack'[j].target => i = j
    BY <2>4, <2>5, <2>6, <2>7, <2>8, <2>10
  <2>13. \A i \in 1 .. n + 1 : stack'[i].target \in visited'
    BY <2>1, <2>4, <2>5, <2>6, <2>9, <2>10
  <2> QED BY <2>5, <2>11, <2>12, <2>13 DEF StackOK
<1>5. CASE ComeBack
  <2>1. stack' = Front(stack) /\ visited' = visited /\ stack # <<>>
    BY <1>5 DEF ComeBack
  <2>2. /\ Len(stack) \in Nat \ {0} /\ DOMAIN stack = 1 .. Len(stack)
        /\ stack' \in Seq(Frame) /\ DOMAIN stack' = 1 .. Len(stack) - 1
        /\ \A i \in 1 .. Len(stack) - 1 : stack'[i] = stack[i]
    BY <2>1, StackTop DEF StackOK
  <2>4. FramesOK'
    BY <1>0, <1>00, <2>2 DEF StackOK, FramesOK
  <2> QED BY <2>1, <2>2, <2>4 DEF StackOK
<1>6. CASE EnterListed
  <2>1. /\ todo # <<>> /\ phase = "listed" /\ stack = <<>> /\ stack' = Call(Head(todo))
        /\ visited' = {Head(todo)} /\ UNCHANGED <<files, clock>>
    BY <1>6 DEF EnterListed, Listed, NotWalking, outside
  <2>2. Head(todo) \in Files
    BY <2>1 DEF ListsOK
  <2> QED BY <2>1, <2>2, CallOK
<1>7. CASE EnterPending
  <2>1. /\ todo # <<>> /\ phase = "pending" /\ stack = <<>> /\ stack' = Call(Head(todo).file)
        /\ visited' = {Head(todo).file} /\ UNCHANGED <<files, clock>>
    BY <1>7 DEF EnterPending, Pending, NotWalking, outside
  <2>2. Head(todo).file \in Files
    <3>1. Head(todo) \in Line
      BY <2>1 DEF ListsOK
    <3> QED BY <3>1 DEF Line
  <2> QED BY <2>1, <2>2, CallOK
<1> QED BY <1>1, <1>2, <1>3, <1>4, <1>5, <1>6, <1>7, StackOnly
-----------------------------------------------------------------------------
(* The lists that are worked through, and the outcomes.                    *)

(* What reading begins with.                                               *)
LEMMA Included ==
  /\ ToRead \in Seq(Line) /\ (mk.named \in BOOLEAN => PendingAtFirst \in Seq(Line))
  /\ \A f \in Files, ignore \in BOOLEAN : <<Include(f, ignore)>> \in Seq(Line)
<1>1. \A f \in Files, ignore \in BOOLEAN : Include(f, ignore) \in Line
  BY DEF Include, Line
<1>2. \A l \in Line : <<l>> \in Seq(Line)
  OBVIOUS
<1>3. "Makefile" \in Files /\ <<>> \in Seq(Line)
  BY RemakeAssumption
<1> QED BY <1>1, <1>2, <1>3 DEF ToRead, PendingAtFirst

(* What is on the lists stays what they are for.                           *)
LEMMA ListsStep ==
  ASSUME ListsOK, MkOK, WorkOK, files \in [Files -> 0 .. clock], clock \in Nat, Next
  PROVE  ListsOK'
<1>0. \A S : \A s \in Seq(S) : s # <<>> => Head(s) \in S /\ Tail(s) \in Seq(S)
  OBVIOUS
<1>00. \A S : <<>> \in Seq(S) /\ \A s \in Seq(S), e \in S : Append(s, e) \in Seq(S)
  OBVIOUS
<1> DEFINE Read == [file : Files, time : Nat]
<1>1. CASE ReadMakefile
  <2> DEFINE line == Head(agenda)
  <2>1. /\ agenda \in Seq(Line) /\ agenda # <<>> /\ phase' = phase
        /\ phase \in {"reading", "results"}
        /\ todo' = todo /\ work_items' = work_items
        /\ \/ /\ makefile_list' =
                   Append(makefile_list, [file |-> line.file, time |-> files[line.file]])
              /\ agenda' = mk.includes[line.file] \o Tail(agenda)
              /\ UNCHANGED pending_includes
           \/ /\ agenda' = Tail(agenda)
              /\ pending_includes' = Append(pending_includes, line)
              /\ UNCHANGED makefile_list
    BY <1>1 DEF ReadMakefile, ListsOK, work
  <2>2. line \in Line /\ Tail(agenda) \in Seq(Line)
    BY <2>1
  <2>3. line.file \in Files
    BY <2>2 DEF Line
  <2>4. [file |-> line.file, time |-> files[line.file]] \in Read
    BY <2>3
  <2>5. mk.includes[line.file] \in Seq(Line)
    BY <2>3 DEF MkOK
  <2> HIDE DEF line, Read
  <2>6. \A a, b \in Seq(Line) : a \o b \in Seq(Line)
    OBVIOUS
  <2>7. agenda' \in Seq(Line)
    BY <2>1, <2>2, <2>5, <2>6
  <2>8. pending_includes' \in Seq(Line)
    <3>1. pending_includes \in Seq(Line)
      BY DEF ListsOK
    <3>2. Append(pending_includes, line) \in Seq(Line)
      BY <1>00, <2>2, <3>1
    <3> QED BY <2>1, <3>1, <3>2
  <2>9. makefile_list' \in Seq(Read)
    <3>1. makefile_list \in Seq(Read)
      BY DEF ListsOK, Read
    <3> QED BY <1>00, <2>1, <2>4, <3>1
  <2> QED BY <2>1, <2>7, <2>8, <2>9 DEF ListsOK, Read
<1>2. CASE AllRead
  <2>1. /\ phase' = "listed" /\ todo' = [i \in DOMAIN makefile_list |-> makefile_list[i].file]
        /\ UNCHANGED <<agenda, pending_includes, makefile_list>>
    BY <1>2 DEF AllRead, lists
  <2>2. makefile_list \in Seq(Read) /\ DOMAIN makefile_list = 1 .. Len(makefile_list)
        /\ Len(makefile_list) \in Nat /\ \A i \in DOMAIN makefile_list : makefile_list[i] \in Read
    <3>1. makefile_list \in Seq(Read)
      BY DEF ListsOK
    <3> HIDE DEF Read
    <3> QED BY <3>1
  <2>3. \A i \in DOMAIN makefile_list : makefile_list[i].file \in Files
    BY <2>2
  <2>4. todo' \in Seq(Files)
    BY <2>1, <2>2, <2>3
  <2> QED BY <2>1, <2>4 DEF ListsOK
<1>3. CASE EndListed
  <2>1. /\ UNCHANGED <<agenda, makefile_list>>
        /\ \/ phase' = "restarting" /\ pending_includes' = pending_includes
           \/ phase' = "pending" /\ todo' = pending_includes /\ pending_includes' = <<>>
    BY <1>3 DEF EndListed
  <2>2. <<>> \in Seq(Line)
    OBVIOUS
  <2> QED BY <2>1, <2>2 DEF ListsOK
<1>4. CASE EndRecipes
  <2>1. /\ phase' = "results" /\ todo' = [i \in DOMAIN work_items |-> i]
        /\ UNCHANGED <<agenda, pending_includes, makefile_list, work_items>>
    BY <1>4 DEF EndRecipes, lists, work
  <2>2. DOMAIN work_items = 1 .. Len(work_items) /\ Len(work_items) \in Nat
    BY DEF WorkOK
  <2>3. todo' \in Seq(DOMAIN work_items)
    BY <2>1, <2>2
  <2> QED BY <2>1, <2>3 DEF ListsOK
<1>5. CASE Reinvoke
  <2>1. <<>> \in Seq(Read)
    OBVIOUS
  <2> QED BY <1>5, <2>1, Included DEF Reinvoke, ListsOK, MkOK
<1>6. CASE phase = "listed" /\ todo # <<>> /\ todo' = Tail(todo) /\ phase' \in {"listed", "failed"}
           /\ UNCHANGED lists
  <2>1. Tail(todo) \in Seq(Files)
    BY <1>6 DEF ListsOK
  <2> QED BY <1>6, <2>1 DEF ListsOK, lists
<1>7. CASE phase = "pending" /\ todo # <<>> /\ todo' = Tail(todo) /\ phase' = "pending"
           /\ UNCHANGED lists
  <2>1. Tail(todo) \in Seq(Line)
    BY <1>7 DEF ListsOK
  <2> QED BY <1>7, <2>1 DEF ListsOK, lists
<1>8. CASE UNCHANGED <<lists, todo, phase, work_items>>
  BY <1>8 DEF ListsOK, lists
<1>9. CASE UNCHANGED <<lists, todo>> /\ phase' \in {"recipes", "restarting", "building", "failed"}
  BY <1>9 DEF ListsOK, lists
<1>10. ASSUME JudgeOld \/ JudgeMade \/ JudgeImagined \/ JudgeFailed \/ JudgeNothing PROVE ListsOK'
  <2>1. /\ phase = "results" /\ phase' \in {"results", "failed"}
        /\ todo # <<>> /\ todo' = Tail(todo)
        /\ UNCHANGED <<pending_includes, makefile_list, work_items>>
        /\ agenda' = agenda \/ (JudgeOld /\ ReadUnlessRead)
    BY <1>10 DEF JudgeOld, JudgeMade, JudgeImagined, JudgeFailed, JudgeNothing, Judging,
                Judged, work
  <2>2. todo \in Seq(DOMAIN work_items)
    BY <2>1 DEF ListsOK
  <2>3. Head(todo) \in DOMAIN work_items /\ todo' \in Seq(DOMAIN work_items)
    BY <2>1, <2>2
  <2>4. item \in WorkItem
    BY <2>3 DEF WorkOK, item
  <2>5. item.file \in Files /\ item.ignore \in BOOLEAN
    BY <2>4 DEF WorkItem
  <2>6. agenda' \in Seq(Line)
    <3>1. <<>> \in Seq(Line)
      OBVIOUS
    <3> QED BY <2>1, <2>5, <3>1, Included DEF ReadUnlessRead, ListsOK
  <2> QED BY <2>1, <2>3, <2>6 DEF ListsOK
<1>11. CASE SkipListed \/ KeepListed \/ RemakeListed
  BY <1>6, <1>11 DEF SkipListed, KeepListed, RemakeListed, Listed
<1>12. CASE SettlePending \/ QueuePending
  BY <1>7, <1>12 DEF SettlePending, QueuePending, Pending, Queue
<1>13. CASE PassOver \/ GoDown \/ ComeBack \/ EnterListed \/ EnterPending
            \/ \E i \in recipe_indices : FinishRecipe(i)
  BY <1>8, <1>13 DEF PassOver, GoDown, ComeBack, EnterListed, EnterPending, FinishRecipe, work
<1>14. CASE EndPending \/ EndResults \/ CannotReinvoke
  BY <1>9, <1>14 DEF EndPending, EndResults, CannotReinvoke
<1> QED BY <1>1, <1>2, <1>3, <1>4, <1>5, <1>10, <1>11, <1>12, <1>13, <1>14 DEF Next

(* The least of the items that stand for a file.                           *)
LEMMA PrimaryItem ==
  ASSUME WorkOK, NEW f, WorkIndices(f) # {}
  PROVE  LET primary == CHOOSE i \in WorkIndices(f) : \A j \in WorkIndices(f) : i <= j
         IN  primary \in WorkIndices(f) /\ primary \in DOMAIN work_items /\ primary \in Nat
<1>1. WorkIndices(f) \subseteq DOMAIN work_items /\ DOMAIN work_items \subseteq Nat
  BY DEF WorkIndices, WorkOK
<1>2. WorkIndices(f) \in SUBSET Nat
  BY <1>1
<1>3. \E i \in WorkIndices(f) : \A j \in WorkIndices(f) : i <= j
  BY <1>2, LeastNumber
<1> QED BY <1>1, <1>3

(* What SettlePending and QueuePending add.                                *)
LEMMA OutcomeType ==
  ASSUME WorkOK, files \in [Files -> 0 .. clock], clock \in Nat, NEW pi \in Line, pi = Head(todo)
  PROVE  /\ OutcomeNow(pi) \in WorkItem
         /\ OutcomeNow(pi).file = pi.file /\ OutcomeNow(pi).ignore = pi.ignore
         /\ OutcomeNow(pi).outcome # "RunRecipe"
         /\ OutcomeNow(pi).outcome = "SiblingOf" => OutcomeNow(pi).primary \in recipe_indices
         /\ \A outcome \in Outcomes :
              /\ Item(outcome, 0) \in WorkItem
              /\ Item(outcome, 0).file = pi.file /\ Item(outcome, 0).ignore = pi.ignore
              /\ Item(outcome, 0).outcome = outcome
<1>1. pi.file \in Files /\ pi.ignore \in BOOLEAN /\ files[pi.file] \in Nat
  <2>1. pi.file \in Files /\ pi.ignore \in BOOLEAN
    BY DEF Line
  <2> QED BY <2>1
<1>2. \A outcome \in Outcomes, primary \in Nat :
        /\ Item(outcome, primary) \in WorkItem
        /\ Item(outcome, primary).file = pi.file /\ Item(outcome, primary).ignore = pi.ignore
        /\ Item(outcome, primary).outcome = outcome /\ Item(outcome, primary).primary = primary
  BY <1>1 DEF Item, WorkItem
<1> DEFINE primary == CHOOSE i \in WorkIndices(pi.file) : \A j \in WorkIndices(pi.file) : i <= j
<1>3. WorkIndices(pi.file) # {} => primary \in DOMAIN work_items /\ primary \in Nat
  BY PrimaryItem
<1>4. \/ \E outcome \in Outcomes \ {"RunRecipe", "SiblingOf"} : OutcomeNow(pi) = Item(outcome, 0)
      \/ /\ WorkIndices(pi.file) # {} /\ work_items[primary].outcome = "RunRecipe"
         /\ OutcomeNow(pi) = Item("SiblingOf", primary)
  <2> DEFINE others == {"AlreadyExists", "Error", "Imagined", "SiblingAlreadyRan"}
             simple == \E outcome \in others : OutcomeNow(pi) = Item(outcome, 0)
             missing == IF pi.ignore THEN "SiblingAlreadyRan" ELSE "Error"
             unruled == pi.file \in mk.phony \/ find_include_rule(pi.file).kind \in {"none", "skip"}
             imagined == pi.file \notin mk.phony /\ find_include_rule(pi.file).kind = "imagined"
  <2>1. OutcomeNow(pi) =
          CASE Readable(pi.file) -> Item("AlreadyExists", 0)
            [] ~Readable(pi.file) /\ unruled -> Item(missing, 0)
            [] ~Readable(pi.file) /\ imagined -> Item("Imagined", 0)
            [] OTHER -> IF WorkIndices(pi.file) # {} /\ work_items[primary].outcome = "RunRecipe"
                        THEN Item("SiblingOf", primary) ELSE Item("SiblingAlreadyRan", 0)
    BY DEF OutcomeNow
  <2> HIDE DEF primary, unruled, imagined
  <2>2. missing \in others
    OBVIOUS
  <2>3. imagined => ~unruled
    BY DEF imagined, unruled
  <2> HIDE DEF missing
  <2>4. CASE Readable(pi.file) \/ unruled \/ imagined
    <3>1. \/ OutcomeNow(pi) = Item("AlreadyExists", 0) \/ OutcomeNow(pi) = Item(missing, 0)
          \/ OutcomeNow(pi) = Item("Imagined", 0)
      BY <2>1, <2>3, <2>4
    <3>2. simple
      BY <2>2, <3>1
    <3> QED BY <3>2 DEF Outcomes
  <2>5. CASE ~Readable(pi.file) /\ ~unruled /\ ~imagined
    <3>1. OutcomeNow(pi) =
            IF WorkIndices(pi.file) # {} /\ work_items[primary].outcome = "RunRecipe"
            THEN Item("SiblingOf", primary) ELSE Item("SiblingAlreadyRan", 0)
      BY <2>1, <2>5
    <3> QED BY <3>1 DEF Outcomes
  <2> QED BY <2>4, <2>5
<1> HIDE DEF primary
<1>5. "SiblingOf" \in Outcomes /\ 0 \in Nat
  BY DEF Outcomes
<1>6. ASSUME NEW o \in Outcomes \ {"RunRecipe", "SiblingOf"}, OutcomeNow(pi) = Item(o, 0)
      PROVE  /\ OutcomeNow(pi) \in WorkItem
             /\ OutcomeNow(pi).file = pi.file /\ OutcomeNow(pi).ignore = pi.ignore
             /\ OutcomeNow(pi).outcome \notin {"RunRecipe", "SiblingOf"}
  BY <1>2, <1>5, <1>6
<1>7. ASSUME WorkIndices(pi.file) # {}, work_items[primary].outcome = "RunRecipe",
             OutcomeNow(pi) = Item("SiblingOf", primary)
      PROVE  /\ OutcomeNow(pi) \in WorkItem
             /\ OutcomeNow(pi).file = pi.file /\ OutcomeNow(pi).ignore = pi.ignore
             /\ OutcomeNow(pi).outcome = "SiblingOf" /\ OutcomeNow(pi).primary \in recipe_indices
  BY <1>2, <1>3, <1>5, <1>7 DEF recipe_indices
<1> QED BY <1>2, <1>4, <1>5, <1>6, <1>7
-----------------------------------------------------------------------------
(* One more outcome.                                                       *)
Queued(new) ==
  LET n == Len(work_items)
  IN  /\ phase = "pending" /\ phase' = "pending" /\ todo # <<>> /\ Head(todo) \in Line
      /\ new \in WorkItem /\ new.file = Head(todo).file /\ new.ignore = Head(todo).ignore
      /\ n \in Nat /\ DOMAIN work_items = 1 .. n /\ DOMAIN recipe_results = 1 .. n
      /\ work_items' \in Seq(WorkItem) /\ DOMAIN work_items' = 1 .. n + 1
      /\ work_items'[n + 1] = new /\ \A i \in 1 .. n : work_items'[i] = work_items[i]
      /\ Len(work_items') = n + 1
      /\ recipe_results' \in Seq({"none", "ok", "error"}) /\ DOMAIN recipe_results' = 1 .. n + 1
      /\ recipe_results'[n + 1] = "none"
      /\ \A i \in 1 .. n : recipe_results'[i] = recipe_results[i]

(* Queue is Queued.                                                        *)
LEMMA QueueGrows ==
  ASSUME ListsOK, WorkOK, DOMAIN recipe_results = DOMAIN work_items,
         phase = "pending", phase' = "pending", todo # <<>>,
         NEW new \in WorkItem, new.file = Head(todo).file, new.ignore = Head(todo).ignore,
         Queue(new)
  PROVE  Queued(new)
<1>1. \A S : \A s \in Seq(S), e \in S :
        /\ Len(s) \in Nat /\ DOMAIN s = 1 .. Len(s)
        /\ Append(s, e) \in Seq(S) /\ Len(Append(s, e)) = Len(s) + 1
        /\ DOMAIN Append(s, e) = 1 .. Len(s) + 1
        /\ Append(s, e)[Len(s) + 1] = e /\ \A i \in 1 .. Len(s) : Append(s, e)[i] = s[i]
  OBVIOUS
<1>2. /\ work_items \in Seq(WorkItem) /\ recipe_results \in Seq({"none", "ok", "error"})
      /\ work_items' = Append(work_items, new) /\ recipe_results' = Append(recipe_results, "none")
  BY DEF WorkOK, Queue
<1>3. Head(todo) \in Line
  <2>1. todo \in Seq(Line)
    BY DEF ListsOK
  <2> QED BY <2>1
<1>4. /\ Len(work_items) \in Nat /\ DOMAIN work_items = 1 .. Len(work_items)
      /\ work_items' \in Seq(WorkItem) /\ Len(work_items') = Len(work_items) + 1
      /\ DOMAIN work_items' = 1 .. Len(work_items) + 1
      /\ work_items'[Len(work_items) + 1] = new
      /\ \A i \in 1 .. Len(work_items) : work_items'[i] = work_items[i]
  BY <1>1, <1>2
<1>5. "none" \in {"none", "ok", "error"}
  OBVIOUS
<1>6. /\ Len(recipe_results) \in Nat /\ DOMAIN recipe_results = 1 .. Len(recipe_results)
      /\ recipe_results' \in Seq({"none", "ok", "error"})
      /\ DOMAIN recipe_results' = 1 .. Len(recipe_results) + 1
      /\ recipe_results'[Len(recipe_results) + 1] = "none"
      /\ \A i \in 1 .. Len(recipe_results) : recipe_results'[i] = recipe_results[i]
  BY <1>1, <1>2, <1>5
<1>7. Len(recipe_results) = Len(work_items)
  BY <1>4, <1>6
<1> QED BY <1>3, <1>4, <1>6, <1>7 DEF Queued

QueuedItem == Item(CASE prereq_error /\ Head(todo).ignore -> "Imagined"
                     [] prereq_error /\ ~Head(todo).ignore -> "Error"
                     [] ~prereq_error /\ RuleOf(Head(todo).file).recipe -> "RunRecipe"
                     [] OTHER -> "PrereqsOnlyNoRecipe", 0)

(* What SettlePending does.                                                *)
LEMMA Settling ==
  ASSUME ListsOK, WorkOK, DOMAIN recipe_results = DOMAIN work_items,
         files \in [Files -> 0 .. clock], clock \in Nat, SettlePending
  PROVE  /\ Queued(OutcomeNow(Head(todo)))
         /\ UNCHANGED <<files, mk, makefile_list, include_recipe_ran, stack, phase>>
         /\ stack = <<>>
<1>1. /\ phase = "pending" /\ todo # <<>> /\ Queue(OutcomeNow(Head(todo))) /\ phase' = phase
      /\ UNCHANGED <<files, mk, makefile_list, include_recipe_ran, stack>> /\ stack = <<>>
  BY DEF SettlePending, Pending, NotWalking, outside, lists, notes, walk
<1>2. Head(todo) \in Line
  <2>1. todo \in Seq(Line)
    BY <1>1 DEF ListsOK
  <2> QED BY <1>1, <2>1
<1>3. /\ OutcomeNow(Head(todo)) \in WorkItem
      /\ OutcomeNow(Head(todo)).file = Head(todo).file
      /\ OutcomeNow(Head(todo)).ignore = Head(todo).ignore
  BY <1>2, OutcomeType
<1> QED BY <1>1, <1>3, QueueGrows

(* What QueuePending does.                                                 *)
LEMMA Queueing ==
  ASSUME ListsOK, WorkOK, DOMAIN recipe_results = DOMAIN work_items,
         files \in [Files -> 0 .. clock], clock \in Nat, QueuePending
  PROVE  /\ Queued(QueuedItem)
         /\ UNCHANGED <<files, mk, makefile_list, phase>> /\ stack # <<>> /\ stack' = <<>>
         /\ QueuedItem.outcome \in {"Imagined", "Error", "RunRecipe", "PrereqsOnlyNoRecipe"}
         /\ QueuedItem.outcome = "Imagined" => QueuedItem.ignore
         /\ QueuedItem.outcome = "RunRecipe" <=> ~prereq_error /\ RuleOf(Head(todo).file).recipe
         /\ QueuedItem.outcome = "PrereqsOnlyNoRecipe" => ~RuleOf(Head(todo).file).recipe
         /\ include_recipe_ran' = IF QueuedItem.outcome = "RunRecipe"
                                  THEN include_recipe_ran \cup Outputs(Head(todo).file)
                                  ELSE include_recipe_ran
<1> DEFINE outcome == CASE prereq_error /\ Head(todo).ignore -> "Imagined"
                        [] prereq_error /\ ~Head(todo).ignore -> "Error"
                        [] ~prereq_error /\ RuleOf(Head(todo).file).recipe -> "RunRecipe"
                        [] OTHER -> "PrereqsOnlyNoRecipe"
<1>1. /\ phase = "pending" /\ todo # <<>> /\ Queue(Item(outcome, 0)) /\ phase' = phase
      /\ UNCHANGED <<files, mk, makefile_list>> /\ stack' = <<>> /\ Len(stack) = 1
      /\ include_recipe_ran' = IF outcome = "RunRecipe"
                               THEN include_recipe_ran \cup Outputs(Head(todo).file)
                               ELSE include_recipe_ran
  BY DEF QueuePending, Pending, Walked, outside, lists
<1>2. Head(todo) \in Line
  <2>1. todo \in Seq(Line)
    BY <1>1 DEF ListsOK
  <2> QED BY <1>1, <2>1
<1>3. /\ outcome \in {"Imagined", "Error", "RunRecipe", "PrereqsOnlyNoRecipe"}
      /\ outcome = "Imagined" => Head(todo).ignore
      /\ outcome = "RunRecipe" <=> ~prereq_error /\ RuleOf(Head(todo).file).recipe
      /\ outcome = "PrereqsOnlyNoRecipe" => ~RuleOf(Head(todo).file).recipe
  OBVIOUS
<1>4. stack # <<>>
  BY <1>1
<1> HIDE DEF outcome
<1>5. QueuedItem = Item(outcome, 0)
  BY DEF QueuedItem, outcome
<1>6. outcome \in Outcomes
  BY <1>3 DEF Outcomes
<1>7. /\ QueuedItem \in WorkItem /\ QueuedItem.outcome = outcome
      /\ QueuedItem.file = Head(todo).file /\ QueuedItem.ignore = Head(todo).ignore
  BY <1>2, <1>5, <1>6, OutcomeType
<1>8. Queued(QueuedItem)
  BY <1>1, <1>5, <1>7, QueueGrows
<1> QED BY <1>1, <1>3, <1>4, <1>7, <1>8

(* A recipe has ended.                                                     *)
LEMMA Finishing ==
  ASSUME WorkOK, DOMAIN recipe_results = DOMAIN work_items, NEW i \in recipe_indices,
         FinishRecipe(i)
  PROVE  /\ phase = "recipes" /\ phase' = "recipes" /\ work_items' = work_items
         /\ recipe_indices' = recipe_indices
         /\ recipe_results' \in Seq({"none", "ok", "error"})
         /\ DOMAIN recipe_results' = DOMAIN recipe_results
         /\ \A j \in DOMAIN recipe_results \ {i} : recipe_results'[j] = recipe_results[j]
         /\ recipe_results[i] = "none" /\ i \in DOMAIN work_items
         /\ \E end \in Endings(work_items[i].file) :
              /\ RunsRecipe(work_items[i].file, end)
              /\ recipe_results'[i] = IF end.ok THEN "ok" ELSE "error"
              /\ remade' = IF work_items[i].file \in end.wrote
                           THEN remade \cup {work_items[i].file} ELSE remade
              /\ failed' = IF end.ok THEN failed ELSE failed \cup {work_items[i].file}
<1>1. i \in DOMAIN work_items /\ recipe_results[i] = "none" /\ phase = "recipes"
      /\ phase' = "recipes" /\ work_items' = work_items
  BY DEF recipe_indices, FinishRecipe, MayFinish, Unfinished
<1>2. PICK end \in Endings(work_items[i].file) :
        /\ RunsRecipe(work_items[i].file, end)
        /\ recipe_results' = [recipe_results EXCEPT ![i] = IF end.ok THEN "ok" ELSE "error"]
        /\ remade' = IF work_items[i].file \in end.wrote
                     THEN remade \cup {work_items[i].file} ELSE remade
        /\ failed' = IF end.ok THEN failed ELSE failed \cup {work_items[i].file}
  BY DEF FinishRecipe
<1>3. recipe_results \in Seq({"none", "ok", "error"})
  BY DEF WorkOK
<1>4. (IF end.ok THEN "ok" ELSE "error") \in {"none", "ok", "error"}
  OBVIOUS
<1>5. /\ recipe_results' \in Seq({"none", "ok", "error"})
      /\ DOMAIN recipe_results' = DOMAIN recipe_results
      /\ \A j \in DOMAIN recipe_results \ {i} : recipe_results'[j] = recipe_results[j]
      /\ recipe_results'[i] = IF end.ok THEN "ok" ELSE "error"
  BY <1>1, <1>2, <1>3, <1>4
<1>6. recipe_indices' = recipe_indices
  BY <1>1 DEF recipe_indices
<1> QED BY <1>1, <1>2, <1>5, <1>6
-----------------------------------------------------------------------------
(* Types, and what a queued recipe has for its result.                     *)
ItemsOK ==
  /\ DOMAIN recipe_results = DOMAIN work_items
  /\ \A i \in DOMAIN work_items :
       /\ work_items[i].outcome = "SiblingOf" =>
            /\ work_items[i].primary \in recipe_indices
            /\ work_items[i].primary < i
       /\ recipe_results[i] # "none" => i \in recipe_indices
       /\ phase = "results" /\ i \in recipe_indices => recipe_results[i] # "none"

TimesOK == files \in [Files -> 0 .. clock] /\ clock \in Nat

PhaseOK ==
  /\ restarts \in {0, 1}
  /\ phase \in {"reading", "listed", "pending", "recipes", "results", "restarting",
                 "building", "failed"}
  /\ include_already_ran \subseteq include_recipe_ran

(* The types in parts.                                                     *)
LEMMA TypeParts ==
  TypeOK /\ FramesOK <=> TimesOK /\ PhaseOK /\ StackOK /\ ItemsOK
BY StackSame DEF TypeOK, TimesOK, PhaseOK, ItemsOK

(* The phases, the images and the notes keep their types.                  *)
LEMMA PhaseStep ==
  ASSUME PhaseOK, MkOK, ListsOK, Next
  PROVE  PhaseOK'
<1>1. restarts' \in {0, 1}
  BY DEF PhaseOK, Next, ReadMakefile, AllRead, PassOver, GoDown, ComeBack, SkipListed,
         EnterListed, KeepListed, RemakeListed, EndListed, SettlePending, EnterPending,
         QueuePending, EndPending, FinishRecipe, EndRecipes, JudgeOld, JudgeMade, JudgeImagined,
         JudgeFailed, JudgeNothing, EndResults, Reinvoke, CannotReinvoke, Judged
<1>2. phase' \in {"reading", "listed", "pending", "recipes", "results", "restarting",
                  "building", "failed"}
  BY DEF PhaseOK, Next, ReadMakefile, AllRead, PassOver, GoDown, ComeBack, SkipListed,
         EnterListed, KeepListed, RemakeListed, EndListed, SettlePending, EnterPending,
         QueuePending, EndPending, FinishRecipe, EndRecipes, JudgeOld, JudgeMade, JudgeImagined,
         JudgeFailed, JudgeNothing, EndResults, Reinvoke, CannotReinvoke
<1>3. include_already_ran' \subseteq include_recipe_ran'
  <2>1. CASE RemakeListed
    <3>1. /\ phase = "listed" /\ todo # <<>>
          /\ include_recipe_ran' = include_recipe_ran \cup Outputs(Head(todo))
          /\ include_already_ran' \subseteq include_already_ran \cup {Head(todo)}
      BY <2>1 DEF RemakeListed, Listed
    <3>2. Head(todo) \in Files
      BY <3>1 DEF ListsOK
    <3>3. Head(todo) \in Outputs(Head(todo))
      BY <3>2, RulesType
    <3> QED BY <3>1, <3>3 DEF PhaseOK
  <2>2. CASE QueuePending
    <3>1. /\ include_already_ran' = include_already_ran
          /\ include_recipe_ran \subseteq include_recipe_ran'
      BY <2>2 DEF QueuePending
    <3> QED BY <3>1 DEF PhaseOK
  <2>3. CASE Reinvoke
    BY <2>3 DEF Reinvoke
  <2> QED BY <2>1, <2>2, <2>3, RanOnly DEF PhaseOK
<1> QED BY <1>1, <1>2, <1>3 DEF PhaseOK

(* Where nothing happens to the items. *)
LEMMA ItemsStay ==
  ASSUME UNCHANGED <<work_items, recipe_results>>
  PROVE  /\ recipe_indices' = recipe_indices /\ Unfinished' = Unfinished
BY DEF recipe_indices, Unfinished

(* No step queues a recipe without a result to come, or a sibling's item   *)
(* without a primary one before it.                                        *)
LEMMA ItemsStep ==
  ASSUME ItemsOK, WorkOK, ListsOK, TimesOK, Next
  PROVE  ItemsOK' /\ WorkOK'
<1>1. CASE UNCHANGED <<work_items, recipe_results>>
  <2>1. /\ phase' = "results" => phase = "results" \/ EndRecipes
        /\ phase' \in {"reading", "listed"} => phase \in {"reading", "listed"} \/ Reinvoke
    BY DEF Next, ReadMakefile, AllRead, PassOver, GoDown, ComeBack, SkipListed, EnterListed,
         KeepListed, RemakeListed, EndListed, SettlePending, EnterPending,
         QueuePending, EndPending, FinishRecipe, EndRecipes, JudgeOld, JudgeMade, JudgeImagined,
         JudgeFailed, JudgeNothing, EndResults, Reinvoke, CannotReinvoke, Judging, Pending, Listed
  <2>2. EndRecipes => \A i \in recipe_indices : recipe_results[i] # "none"
    BY DEF EndRecipes, Unfinished
  <2>3. Reinvoke => work_items' = <<>>
    BY DEF Reinvoke
  <2> QED BY <1>1, <2>1, <2>2, <2>3, ItemsStay DEF ItemsOK, WorkOK
<1>2. ASSUME NEW new, Queued(new), new.outcome = "SiblingOf" => new.primary \in recipe_indices
      PROVE  ItemsOK' /\ WorkOK'
  <2> DEFINE n == Len(work_items)
  <2>1. /\ phase' = "pending" /\ new \in WorkItem
        /\ n \in Nat /\ DOMAIN work_items = 1 .. n
        /\ work_items' \in Seq(WorkItem) /\ DOMAIN work_items' = 1 .. n + 1
        /\ work_items'[n + 1] = new /\ \A i \in 1 .. n : work_items'[i] = work_items[i]
        /\ recipe_results' \in Seq({"none", "ok", "error"}) /\ DOMAIN recipe_results' = 1 .. n + 1
        /\ recipe_results'[n + 1] = "none"
        /\ \A i \in 1 .. n : recipe_results'[i] = recipe_results[i]
    BY <1>2 DEF Queued
  <2> HIDE DEF n
  <2>2. \A i \in 1 .. n + 1 : i = n + 1 \/ i \in 1 .. n
    BY <2>1
  <2>3. recipe_indices \subseteq recipe_indices' /\ recipe_indices \subseteq 1 .. n
    BY <2>1 DEF recipe_indices
  <2>4. \A i \in 1 .. n : /\ work_items[i].outcome = "SiblingOf" =>
                               /\ work_items[i].primary \in recipe_indices
                               /\ work_items[i].primary < i
                          /\ recipe_results[i] # "none" => i \in recipe_indices
    BY <2>1 DEF ItemsOK
  <2>5. new.outcome = "SiblingOf" => new.primary \in recipe_indices' /\ new.primary < n + 1
    <3>1. new.outcome = "SiblingOf"
            => new.primary \in recipe_indices' /\ new.primary \in 1 .. n
      BY <1>2, <2>3
    <3>2. \A p \in 1 .. n : p < n + 1
      BY <2>1
    <3> QED BY <3>1, <3>2
  <2>6. \A i \in 1 .. n + 1 : /\ work_items'[i].outcome = "SiblingOf" =>
                               /\ work_items'[i].primary \in recipe_indices'
                               /\ work_items'[i].primary < i
                              /\ recipe_results'[i] # "none" => i \in recipe_indices'
    BY <2>1, <2>2, <2>3, <2>4, <2>5
  <2> QED BY <2>1, <2>6 DEF ItemsOK, WorkOK
<1>3. CASE SettlePending
  <2>1. Queued(OutcomeNow(Head(todo)))
    BY <1>3, Settling DEF ItemsOK, TimesOK
  <2>2. Head(todo) \in Line
    BY <2>1 DEF Queued
  <2>3. OutcomeNow(Head(todo)).outcome = "SiblingOf"
          => OutcomeNow(Head(todo)).primary \in recipe_indices
    BY <2>2, OutcomeType DEF TimesOK
  <2> QED BY <1>2, <2>1, <2>3
<1>4. CASE QueuePending
  <2>1. Queued(QueuedItem) /\ QueuedItem.outcome # "SiblingOf"
    BY <1>4, Queueing DEF ItemsOK, TimesOK
  <2> QED BY <1>2, <2>1
<1>5. ASSUME NEW i \in recipe_indices, FinishRecipe(i) PROVE ItemsOK' /\ WorkOK'
  <2>1. /\ phase' = "recipes" /\ work_items' = work_items
        /\ recipe_indices' = recipe_indices
        /\ recipe_results' \in Seq({"none", "ok", "error"})
        /\ DOMAIN recipe_results' = DOMAIN recipe_results
        /\ \A j \in DOMAIN recipe_results \ {i} : recipe_results'[j] = recipe_results[j]
    BY <1>5, Finishing DEF ItemsOK
  <2> QED BY <2>1 DEF ItemsOK, WorkOK
<1>6. CASE Reinvoke
  <2>1. work_items' = <<>> /\ recipe_results' = <<>> /\ phase' = "reading"
    BY <1>6 DEF Reinvoke
  <2>2. <<>> \in Seq(WorkItem) /\ <<>> \in Seq({"none", "ok", "error"}) /\ DOMAIN <<>> = {}
    OBVIOUS
  <2> QED BY <2>1, <2>2 DEF ItemsOK, WorkOK
<1> QED BY <1>1, <1>3, <1>4, <1>5, <1>6, WorkOnly
-----------------------------------------------------------------------------
(* The makefiles that were read.                                           *)

(* A makefile stays as it was read, or makes another image due.            *)
LEMMA KeptOn ==
  ASSUME IInv, Next, NEW read \in [file : Files, time : Nat], Kept(read), IsRead(read.file),
         ~Reinvoke
  PROVE  Kept(read)'
<1> DEFINE f == read.file
           early(p) == p \in {"reading", "listed", "pending", "recipes"}
           late(p) == p \in {"results", "building"}
<1>0. /\ mk' = mk /\ clock \in Nat /\ files \in [Files -> 0 .. clock] /\ f \in Files
  BY TimesGrow DEF IInv, TypeOK
<1>1. Readable(f)'
  BY <1>0, TimesGrow DEF Kept
<1>2. /\ early(phase) /\ f \in remade => any_really_rebuilt
      /\ late(phase) /\ f \in remade => files[f] = read.time \/ any_really_rebuilt
  BY DEF Kept
<1>3. SUFFICES /\ early(phase') /\ f \in remade' => any_really_rebuilt'
               /\ late(phase') /\ f \in remade' => files'[f] = read.time \/ any_really_rebuilt'
  BY <1>1 DEF Kept
<1>4. CASE RemakeListed
  <2>1. PICK end :
          /\ RunsRecipe(Head(todo), end)
          /\ any_really_rebuilt' =
               (any_really_rebuilt \/ (end.ok /\ Changed(Head(todo), Top.before)))
          /\ phase' = IF end.ok THEN phase ELSE "failed"
          /\ remade' = IF Head(todo) \in end.wrote THEN remade \cup {Head(todo)} ELSE remade
    BY <1>4 DEF RemakeListed
  <2>2. phase = "listed" /\ todo # <<>> /\ stack # <<>>
    <3>1. phase = "listed" /\ todo # <<>> /\ Len(stack) = 1
      BY <1>4 DEF RemakeListed, Listed, Walked
    <3> QED BY <3>1
  <2>3. Head(todo) \in Files
    <3>1. todo \in Seq(Files)
      BY <2>2 DEF IInv, ListsOK
    <3> QED BY <2>2, <3>1
  <2>4. Top.before \in Nat /\ Top.before <= clock
    <3>1. Top \in Frame /\ Top.before <= clock
      BY <2>2, StackTop DEF IInv
    <3> QED BY <3>1 DEF Frame
  <2>5. Head(todo) \in end.wrote => Changed(Head(todo), Top.before)
    <3>1. files' = [g \in Files |-> IF g \in end.wrote THEN clock + 1 ELSE files[g]]
      BY <2>1 DEF RunsRecipe
    <3>2. Head(todo) \in end.wrote => files'[Head(todo)] = clock + 1
      BY <2>3, <3>1
    <3> QED BY <1>0, <2>4, <3>2 DEF Changed
  <2>6. ~late(phase') /\ early(phase) /\ (early(phase') => end.ok)
    BY <2>1, <2>2
  <2> QED BY <1>2, <2>1, <2>5, <2>6
<1>5. ASSUME NEW i \in recipe_indices, FinishRecipe(i)
      PROVE  /\ early(phase') /\ f \in remade' => any_really_rebuilt'
             /\ ~late(phase')
  <2>1. /\ any_really_rebuilt' = any_really_rebuilt
        /\ phase = "recipes" /\ phase' = phase
        /\ remade' \subseteq remade \cup {work_items[i].file}
    BY <1>5 DEF FinishRecipe
  <2>2. ~IsRead(work_items[i].file)
    BY <2>1 DEF IInv, ItemInv, Sound, recipe_indices
  <2> QED BY <1>2, <2>1, <2>2
<1>6. ASSUME UNCHANGED <<remade, failed>>, ~RemakeListed,
             ~\E i \in recipe_indices : FinishRecipe(i)
      PROVE  /\ early(phase') => early(phase)
             /\ late(phase') => early(phase) \/ (late(phase) /\ files' = files)
             /\ any_really_rebuilt => any_really_rebuilt'
  <2>1. CASE ComeBack
    <3>1. phase' = phase /\ any_really_rebuilt' = any_really_rebuilt /\ Len(stack) > 1
      BY <2>1 DEF ComeBack
    <3>2. phase \in {"listed", "pending"}
      BY <3>1 DEF IInv
    <3> QED BY <3>1, <3>2
  <2>2. CASE UNCHANGED <<files, phase, any_really_rebuilt>>
    BY <2>2
  <2>3. CASE \/ AllRead \/ EndListed \/ EndPending \/ EndRecipes
            \/ JudgeMade \/ JudgeFailed \/ EndResults \/ CannotReinvoke
    BY <2>3 DEF AllRead, EndListed, EndPending, EndRecipes, JudgeMade, JudgeFailed, EndResults,
                CannotReinvoke, Judging, Judged, outside
  <2> QED BY <1>6, <2>1, <2>2, <2>3 DEF Next, ReadMakefile, PassOver, GoDown, SkipListed,
         EnterListed, KeepListed, SettlePending, EnterPending, QueuePending, JudgeOld,
         JudgeImagined, JudgeNothing, Judged, outside
<1> QED BY <1>2, <1>4, <1>5, <1>6, HistoryOnly

(* So do all, and those that are added are as they are.                    *)
LEMMA ReadStep ==
  ASSUME IInv, Next
  PROVE  ReadInv' /\ (phase' = "reading" => remade' = {})
<1> DEFINE Read == [file : Files, time : Nat]
<1>1. phase' = "reading" => remade' = {}
  <2>1. Reinvoke => remade' = {}
    BY DEF Reinvoke
  <2>2. ~Reinvoke /\ phase' = "reading" => phase = "reading"
    BY DEF Next, ReadMakefile, AllRead, PassOver, GoDown, ComeBack, SkipListed, EnterListed,
         KeepListed, RemakeListed, EndListed, SettlePending, EnterPending,
         QueuePending, EndPending, FinishRecipe, EndRecipes, JudgeOld, JudgeMade, JudgeImagined,
         JudgeFailed, JudgeNothing, EndResults, CannotReinvoke, Judging, Judged, Pending, Listed
  <2>3. phase = "reading" => ~RemakeListed /\ ~\E i \in recipe_indices : FinishRecipe(i)
    BY DEF RemakeListed, Listed, FinishRecipe
  <2> QED BY <2>1, <2>2, <2>3, HistoryOnly DEF IInv
<1>2. CASE Reinvoke
  <2>1. makefile_list' = <<>>
    BY <1>2 DEF Reinvoke
  <2> QED BY <1>1, <2>1 DEF ReadInv
<1>3. makefile_list \in Seq(Read)
  BY DEF IInv, ListsOK
<1>4. \A k \in DOMAIN makefile_list : makefile_list[k] \in Read
  <2> HIDE DEF Read
  <2> QED BY <1>3
<1>5. ASSUME ~Reinvoke, NEW k \in DOMAIN makefile_list PROVE Kept(makefile_list[k])'
                                                             \/ makefile_list' # makefile_list
  <2>1. PICK read \in Read : read = makefile_list[k]
    BY <1>4
  <2>2. Kept(read) /\ IsRead(read.file)
    BY <2>1 DEF IInv, ReadInv, IsRead
  <2>3. Kept(read)'
    BY <1>5, <2>2, KeptOn
  <2> QED BY <2>1, <2>3 DEF Kept
<1>6. CASE UNCHANGED makefile_list /\ ~Reinvoke
  BY <1>1, <1>5, <1>6 DEF ReadInv
<1>7. CASE ReadMakefile /\ ~UNCHANGED makefile_list
  <2> DEFINE line == Head(agenda)
             n == Len(makefile_list)
  <2>1. /\ phase' = phase /\ phase \in {"reading", "results"} /\ agenda # <<>>
        /\ UNCHANGED <<files, mk, remade, any_really_rebuilt>> /\ Readable(line.file)
        /\ makefile_list' = Append(makefile_list, [file |-> line.file, time |-> files[line.file]])
    BY <1>7 DEF ReadMakefile, outside, history
  <2>2. line \in Line
    <3>1. agenda \in Seq(Line)
      BY DEF IInv, ListsOK
    <3> QED BY <2>1, <3>1
  <2>3. line.file \in Files /\ files[line.file] \in Nat
    BY <2>2 DEF Line, IInv, TypeOK
  <2>4. PICK new \in Read : new.file = line.file /\ new.time = files[line.file]
                            /\ makefile_list' = Append(makefile_list, new)
    BY <2>1, <2>3
  <2>5. Kept(new)'
    <3>1. Readable(new.file)'
      BY <2>1, <2>4 DEF Readable, Exists
    <3>2. phase = "reading" => remade = {}
      BY DEF IInv
    <3> QED BY <2>1, <2>4, <3>1, <3>2 DEF Kept
  <2> HIDE DEF Read
  <2>6. /\ n \in Nat /\ DOMAIN makefile_list = 1 .. n /\ DOMAIN makefile_list' = 1 .. n + 1
        /\ makefile_list'[n + 1] = new
        /\ \A k \in 1 .. n : makefile_list'[k] = makefile_list[k]
    BY <1>3, <2>4
  <2>7. ~Reinvoke
    BY <2>1 DEF Reinvoke
  <2>8. ASSUME NEW k \in 1 .. n PROVE Kept(makefile_list[k])'
    <3>1. PICK read \in Read : read = makefile_list[k]
      BY <1>4, <2>6
    <3>2. Kept(read) /\ IsRead(read.file)
      BY <2>6, <3>1 DEF IInv, ReadInv, IsRead
    <3>3. Kept(read)'
      BY <2>7, <3>2, KeptOn DEF Read
    <3>4. makefile_list'[k] = read
      BY <2>6, <3>1
    <3> QED BY <3>3, <3>4 DEF Kept
  <2> QED BY <1>1, <2>5, <2>6, <2>8 DEF ReadInv
<1> QED BY <1>2, <1>6, <1>7, ListedOnly
-----------------------------------------------------------------------------
(* The calls of build_include_prerequisites, by phase.                     *)

(* Prerequisites are made only for what the two loops have at hand.        *)
LEMMA StackPhase ==
  ASSUME IInv, Next
  PROVE  stack' # <<>> => phase' \in {"listed", "pending"} /\ todo' # <<>>
<1>0. stack # <<>> => phase \in {"listed", "pending"} /\ todo # <<>>
  BY DEF IInv
<1>1. CASE PassOver \/ GoDown \/ ComeBack
  <2>1. phase' = phase /\ todo' = todo /\ stack # <<>>
    <3>1. ComeBack => Len(stack) > 1
      BY DEF ComeBack
    <3>2. Len(stack) > 1 => stack # <<>>
      OBVIOUS
    <3> QED BY <1>1, <3>1, <3>2 DEF PassOver, GoDown, ComeBack, Walking
  <2> QED BY <1>0, <2>1
<1>2. CASE EnterListed \/ EnterPending
  BY <1>2 DEF EnterListed, EnterPending, Listed, Pending
<1>3. CASE UNCHANGED stack
  <2>1. stack # <<>> => todo' = todo /\ phase' = phase
    <3>1. SUFFICES ASSUME stack # <<>> PROVE todo' = todo /\ phase' = phase
      OBVIOUS
    <3>2. phase \in {"listed", "pending"} /\ todo # <<>>
      BY <1>0, <3>1
    <3>3. <<>> # stack' /\ stack # <<>>
      BY <1>3, <3>1
    <3> QED BY <3>2, <3>3 DEF Next, ReadMakefile, AllRead, PassOver, GoDown, ComeBack,
          SkipListed, EnterListed, KeepListed, RemakeListed, EndListed, SettlePending, EnterPending,
          QueuePending, EndPending, FinishRecipe, EndRecipes, JudgeOld, JudgeMade, JudgeImagined,
          JudgeFailed, JudgeNothing, EndResults, Reinvoke, CannotReinvoke, Judging, NotWalking
  <2> QED BY <1>0, <1>3, <2>1
<1> QED BY <1>1, <1>2, <1>3, StackOnly
-----------------------------------------------------------------------------
(* The outcomes.                                                           *)

(* What has been noted as run stays so in this image.                      *)
LEMMA RanGrows ==
  ASSUME Next, ~Reinvoke
  PROVE  include_recipe_ran \subseteq include_recipe_ran'
BY RanOnly DEF RemakeListed, QueuePending

(* Past the first loop no phase comes back, and the rules stay until phase *)
(* C.                                                                      *)
LEMMA PhaseBefore ==
  ASSUME IInv, Next, ~Reinvoke, phase \notin {"reading", "listed"}
  PROVE  /\ phase' = "pending" => phase = "pending"
         /\ phase' = "recipes" => phase \in {"pending", "recipes"}
         /\ phase' \notin {"reading", "listed"}
         /\ phase' \in {"pending", "recipes"} => makefile_list' = makefile_list
<1>1. ReadMakefile => phase' = phase /\ (phase = "results" \/ phase = "reading")
  BY DEF ReadMakefile
<1>2. /\ phase' = "pending" => phase = "pending"
      /\ phase' = "recipes" => phase \in {"pending", "recipes"}
      /\ phase' \notin {"reading", "listed"}
  BY DEF Next, ReadMakefile, AllRead, PassOver, GoDown, ComeBack,
         SkipListed, EnterListed, KeepListed, RemakeListed, EndListed, SettlePending, EnterPending,
         QueuePending, EndPending, FinishRecipe, EndRecipes, JudgeOld, JudgeMade, JudgeImagined,
         JudgeFailed, JudgeNothing, EndResults, CannotReinvoke, Judging
<1> QED BY <1>1, <1>2, ListedOnly

(* An outcome stays true of its file.                                      *)
LEMMA SoundOn ==
  ASSUME IInv, Next, ~Reinvoke, phase \notin {"reading", "listed"},
         NEW w \in WorkItem, Sound(w)
  PROVE  Sound(w)'
<1>1. w.file \in Files
  BY DEF WorkItem
<1>2. Readable(w.file) => Readable(w.file)'
  BY <1>1, TimesGrow DEF IInv, TypeOK
<1>3. mk' = mk
  BY TimesGrow DEF IInv, TypeOK
<1>4. phase' \in {"pending", "recipes"}
        => RuleOf(w.file)' = RuleOf(w.file) /\ IsRead(w.file)' = IsRead(w.file)
  BY <1>3, PhaseBefore, SameRules
<1>5. CASE phase' = "pending"
  BY <1>2, <1>4, <1>5, RanGrows, PhaseBefore DEF Sound
<1>6. CASE phase' = "recipes"
  BY <1>2, <1>4, <1>6, RanGrows, PhaseBefore DEF Sound
<1>7. CASE phase' \notin {"pending", "recipes"}
  BY <1>2, <1>7, RanGrows DEF Sound
<1> QED BY <1>5, <1>6, <1>7

(* What is settled at once. *)
LEMMA SettledSound ==
  ASSUME MkOK, NEW pi \in Line, pi = Head(todo), ~MustWalk(pi), WorkOK,
         files \in [Files -> 0 .. clock], clock \in Nat, phase = "pending"
  PROVE  Sound(OutcomeNow(pi))
<1> DEFINE f == pi.file
           kind == RuleOf(f).kind
           missing == IF pi.ignore THEN "SiblingAlreadyRan" ELSE "Error"
           unruled == f \in mk.phony \/ kind \in {"none", "skip"}
           imagined == f \notin mk.phony /\ kind = "imagined"
<1>1. f \in Files /\ pi.ignore \in BOOLEAN
  BY DEF Line
<1>2. kind \in {"none", "skip", "imagined", "rule"}
  BY <1>1, RulesType DEF Rules
<1>3. f \notin include_recipe_ran => Readable(f) \/ unruled \/ imagined
  BY <1>2 DEF MustWalk, find_include_rule
<1>4. \E primary \in Nat : OutcomeNow(pi) =
         CASE Readable(f) -> Item("AlreadyExists", 0)
           [] ~Readable(f) /\ unruled -> Item(missing, 0)
           [] ~Readable(f) /\ imagined -> Item("Imagined", 0)
           [] OTHER -> IF WorkIndices(f) # {} /\ work_items[primary].outcome = "RunRecipe"
                       THEN Item("SiblingOf", primary) ELSE Item("SiblingAlreadyRan", 0)
  <2> DEFINE primary == CHOOSE i \in WorkIndices(f) : \A j \in WorkIndices(f) : i <= j
  <2>1. OutcomeNow(pi) =
         CASE Readable(f) -> Item("AlreadyExists", 0)
           [] ~Readable(f) /\ unruled -> Item(missing, 0)
           [] ~Readable(f) /\ imagined -> Item("Imagined", 0)
           [] OTHER -> IF WorkIndices(f) # {} /\ work_items[primary].outcome = "RunRecipe"
                       THEN Item("SiblingOf", primary) ELSE Item("SiblingAlreadyRan", 0)
    BY DEF OutcomeNow, find_include_rule
  <2>2. WorkIndices(f) # {} => primary \in Nat
    BY PrimaryItem
  <2> HIDE DEF primary, unruled, imagined, missing, f
  <2>3. CASE WorkIndices(f) # {}
    BY <2>1, <2>2, <2>3
  <2>4. CASE WorkIndices(f) = {}
    <3>1. 0 \in Nat
      OBVIOUS
    <3> QED BY <2>1, <2>4, <3>1
  <2> QED BY <2>3, <2>4
<1>5. PICK primary \in Nat : OutcomeNow(pi) =
         CASE Readable(f) -> Item("AlreadyExists", 0)
           [] ~Readable(f) /\ unruled -> Item(missing, 0)
           [] ~Readable(f) /\ imagined -> Item("Imagined", 0)
           [] OTHER -> IF WorkIndices(f) # {} /\ work_items[primary].outcome = "RunRecipe"
                       THEN Item("SiblingOf", primary) ELSE Item("SiblingAlreadyRan", 0)
  BY <1>4
<1>6. \A outcome, p :
        /\ Item(outcome, p).file = f /\ Item(outcome, p).ignore = pi.ignore
        /\ Item(outcome, p).outcome = outcome
  BY DEF Item
<1>7. CASE Readable(f)
  <2>1. OutcomeNow(pi) = Item("AlreadyExists", 0)
    BY <1>5, <1>7
  <2> QED BY <1>6, <1>7, <2>1 DEF Sound
<1>8. CASE ~Readable(f) /\ unruled
  <2>1. OutcomeNow(pi) = Item(missing, 0)
    BY <1>5, <1>8
  <2>2. missing = "Error" \/ (missing = "SiblingAlreadyRan" /\ pi.ignore)
    OBVIOUS
  <2> QED BY <1>6, <2>1, <2>2 DEF Sound
<1>9. CASE ~Readable(f) /\ ~unruled /\ imagined
  <2>1. OutcomeNow(pi) = Item("Imagined", 0)
    BY <1>5, <1>9
  <2> QED BY <1>6, <1>9, <2>1 DEF Sound
<1>10. CASE ~Readable(f) /\ ~unruled /\ ~imagined
  <2>1. OutcomeNow(pi) \in {Item("SiblingOf", primary), Item("SiblingAlreadyRan", 0)}
    BY <1>5, <1>10
  <2> QED BY <1>3, <1>6, <1>10, <2>1 DEF Sound
<1> QED BY <1>7, <1>8, <1>9, <1>10
(* The types the next lemmas need.                                         *)
LEMMA ItemTypes ==
  ASSUME IInv
  PROVE  /\ ListsOK /\ WorkOK /\ MkOK /\ files \in [Files -> 0 .. clock] /\ clock \in Nat
         /\ DOMAIN recipe_results = DOMAIN work_items
         /\ \A i \in DOMAIN work_items : work_items[i] \in WorkItem
         /\ phase \in {"reading", "listed"} => work_items = <<>> /\ DOMAIN work_items = {}
<1>1. \A i \in DOMAIN work_items : work_items[i] \in WorkItem
  <2>1. work_items \in Seq(WorkItem)
    BY DEF IInv, WorkOK
  <2> QED BY <2>1
<1>2. DOMAIN <<>> = {}
  OBVIOUS
<1>3. phase \in {"reading", "listed"} => work_items = <<>>
  BY DEF IInv, WorkOK
<1> QED BY <1>1, <1>2, <1>3 DEF IInv, TypeOK

(* What QueuePending adds. *)
LEMMA QueuedSound ==
  ASSUME IInv, QueuePending, NEW w, w = QueuedItem
  PROVE  Sound(w)'
<1>1. /\ QueuedItem.file = Head(todo).file /\ Head(todo) \in Line /\ phase = "pending"
      /\ UNCHANGED <<mk, makefile_list, phase>> /\ stack # <<>>
      /\ QueuedItem.outcome \in {"Imagined", "Error", "RunRecipe", "PrereqsOnlyNoRecipe"}
      /\ QueuedItem.outcome = "Imagined" => QueuedItem.ignore
      /\ QueuedItem.outcome = "PrereqsOnlyNoRecipe" => ~RuleOf(Head(todo).file).recipe
      /\ QueuedItem.outcome = "RunRecipe"
           => include_recipe_ran' = include_recipe_ran \cup Outputs(Head(todo).file)
  BY ItemTypes, Queueing DEF Queued
<1>3. w.file \in Files
  BY <1>1 DEF Line
<1>4. w.file \in Outputs(w.file)
  BY <1>3, RulesType DEF IInv
<1>5. ~IsRead(w.file)
  BY <1>1 DEF IInv, WalkInv
<1>6. RuleOf(w.file)' = RuleOf(w.file) /\ IsRead(w.file)' = IsRead(w.file)
  BY <1>1, SameRules
<1> QED BY <1>1, <1>4, <1>5, <1>6 DEF Sound

(* All outcomes stay true of their files.                                 *)
LEMMA ItemStep ==
  ASSUME IInv, Next
  PROVE  ItemInv'
<1>1. CASE Reinvoke
  <2>1. work_items' = <<>>
    BY <1>1 DEF Reinvoke
  <2> QED BY <2>1 DEF ItemInv
<1>2. ASSUME ~Reinvoke, NEW i \in DOMAIN work_items, work_items'[i] = work_items[i]
      PROVE  Sound(work_items[i])'
  <2>1. PICK w \in WorkItem : w = work_items[i]
    BY ItemTypes
  <2>2. phase \notin {"reading", "listed"}
    BY ItemTypes
  <2>3. Sound(w)
    BY <2>1 DEF IInv, ItemInv
  <2>4. Sound(w)'
    BY <1>2, <2>2, <2>3, SoundOn
  <2>5. work_items'[i] = w
    BY <1>2, <2>1
  <2> QED BY <2>4, <2>5 DEF Sound
<1>3. CASE work_items' = work_items /\ ~Reinvoke
  BY <1>2, <1>3 DEF ItemInv
<1>4. ASSUME NEW new, Queued(new), Sound(new)', ~Reinvoke PROVE ItemInv'
  <2>1. PICK n \in Nat :
        /\ DOMAIN work_items = 1 .. n /\ DOMAIN work_items' = 1 .. n + 1
        /\ work_items'[n + 1] = new /\ \A i \in 1 .. n : work_items'[i] = work_items[i]
    BY <1>4 DEF Queued
  <2>2. \A i \in 1 .. n : Sound(work_items[i])'
    BY <1>2, <1>4, <2>1
  <2>3. Sound(work_items[n + 1])'
    BY <1>4, <2>1 DEF Sound
  <2>4. \A i \in 1 .. n + 1 : i = n + 1 \/ i \in 1 .. n
    BY <2>1
  <2>5. \A i \in 1 .. n + 1 : Sound(work_items[i])'
    BY <2>2, <2>3, <2>4
  <2> QED BY <2>1, <2>5 DEF ItemInv
<1>5. CASE SettlePending /\ ~Reinvoke
  <2>1. /\ Queued(OutcomeNow(Head(todo))) /\ phase = "pending" /\ ~MustWalk(Head(todo))
        /\ Head(todo) \in Line
    BY <1>5, ItemTypes, Settling DEF SettlePending, Pending, Queued
  <2>2. PICK new \in WorkItem : new = OutcomeNow(Head(todo))
    BY <2>1 DEF Queued
  <2>3. Sound(OutcomeNow(Head(todo)))
    BY <2>1, ItemTypes, SettledSound
  <2>4. Sound(new)'
    BY <1>5, <2>1, <2>2, <2>3, SoundOn
  <2> QED BY <1>4, <1>5, <2>1, <2>2, <2>4
<1>6. CASE QueuePending /\ ~Reinvoke
  <2>1. Queued(QueuedItem)
    BY <1>6, ItemTypes, Queueing
  <2>2. PICK new : new = QueuedItem
    OBVIOUS
  <2>3. Sound(new)'
    BY <1>6, <2>2, QueuedSound
  <2> QED BY <1>4, <1>6, <2>1, <2>2, <2>3
<1>7. ASSUME NEW i \in recipe_indices, FinishRecipe(i), ~Reinvoke PROVE ItemInv'
  BY <1>3, <1>7 DEF FinishRecipe
<1> QED BY <1>1, <1>3, <1>5, <1>6, <1>7, WorkOnly

(* Which lines require a file does not change while outcomes are added.    *)
LEMMA EarlierAdded ==
  ASSUME NEW new, Queued(new), EarlierInv,
         new.outcome = "RunRecipe" => NotRequired(new.file, Len(work_items) + 1)
  PROVE  EarlierInv'
<1>1. PICK n \in Nat :
        /\ n = Len(work_items)
        /\ DOMAIN work_items = 1 .. n /\ DOMAIN work_items' = 1 .. n + 1
        /\ work_items'[n + 1] = new /\ \A i \in 1 .. n : work_items'[i] = work_items[i]
  BY DEF Queued
<1>2. \A i \in 1 .. n + 1 : i = n + 1 \/ i \in 1 .. n
  BY <1>1
<1>3. ASSUME NEW f, NEW i \in 1 .. n + 1, NotRequired(f, i) PROVE NotRequired(f, i)'
  <2>1. \A j \in 1 .. n + 1 : j < i => j \in 1 .. n
    BY <1>1
  <2> QED BY <1>1, <1>3, <2>1 DEF NotRequired
<1>4. ASSUME NEW i \in 1 .. n, work_items'[i].outcome = "RunRecipe"
      PROVE  NotRequired(work_items[i].file, i)'
  <2>1. i \in recipe_indices
    BY <1>1, <1>4 DEF recipe_indices
  <2>2. PICK f : f = work_items[i].file
    OBVIOUS
  <2>3. NotRequired(f, i)
    BY <2>1, <2>2 DEF EarlierInv
  <2>4. NotRequired(f, i)' /\ f = work_items'[i].file
    BY <1>1, <1>3, <2>2, <2>3
  <2> QED BY <2>4 DEF NotRequired
<1>5. ASSUME new.outcome = "RunRecipe" PROVE NotRequired(work_items[n + 1].file, n + 1)'
  <2>1. n + 1 \in 1 .. n + 1
    OBVIOUS
  <2>2. PICK f : f = new.file
    OBVIOUS
  <2>3. NotRequired(f, n + 1)
    BY <1>1, <1>5, <2>2
  <2>4. NotRequired(f, n + 1)' /\ f = work_items'[n + 1].file
    BY <1>1, <1>3, <2>1, <2>2, <2>3
  <2> QED BY <2>4 DEF NotRequired
<1> QED BY <1>1, <1>2, <1>4, <1>5 DEF EarlierInv, recipe_indices

(* A recipe that is queued is that of a file no line before has required.  *)
LEMMA EarlierStep ==
  ASSUME IInv, Next
  PROVE  EarlierInv'
<1>1. EarlierInv
  BY DEF IInv
<1>2. CASE work_items' = work_items
  BY <1>1, <1>2 DEF EarlierInv, NotRequired, recipe_indices
<1>3. CASE SettlePending
  <2>1. Queued(OutcomeNow(Head(todo)))
    BY <1>3, ItemTypes, Settling
  <2>2. OutcomeNow(Head(todo)).outcome # "RunRecipe"
    BY <2>1, ItemTypes, OutcomeType DEF Queued
  <2> QED BY <1>1, <2>1, <2>2, EarlierAdded
<1>4. CASE QueuePending
  <2>1. /\ Queued(QueuedItem) /\ stack # <<>>
        /\ QueuedItem.outcome = "RunRecipe" => RuleOf(Head(todo).file).recipe
    BY <1>4, ItemTypes, Queueing
  <2>2. QueuedItem.file = Head(todo).file /\ phase = "pending"
    BY <2>1 DEF Queued
  <2>3. QueuedItem.outcome = "RunRecipe" => NotRequired(QueuedItem.file, Len(work_items) + 1)
    BY <2>1, <2>2 DEF IInv, WalkInv
  <2> QED BY <1>1, <2>1, <2>3, EarlierAdded
<1>5. CASE Reinvoke
  <2>1. work_items' = <<>>
    BY <1>5 DEF Reinvoke
  <2> QED BY <2>1 DEF EarlierInv, recipe_indices
<1> QED BY <1>2, <1>3, <1>4, <1>5, WorkOnly DEF FinishRecipe

(* The file whose prerequisites are being made stays one whose recipe may  *)
(* be queued.                                                              *)
LEMMA WalkInvStep ==
  ASSUME IInv, Next
  PROVE  WalkInv'
<1>1. CASE EnterPending
  <2>1. /\ phase = "pending" /\ todo # <<>> /\ MustWalk(Head(todo))
        /\ UNCHANGED <<mk, todo, makefile_list, include_recipe_ran, work_items>>
    BY <1>1 DEF EnterPending, Pending, outside, lists, notes, work
  <2>2. PICK f : f = Head(todo).file
    OBVIOUS
  <2>3. /\ ~Readable(f) /\ RuleOf(f).kind = "rule" /\ f \notin include_recipe_ran
    BY <2>1, <2>2 DEF MustWalk, find_include_rule
  <2>4. ~IsRead(f)
    BY <2>3 DEF IsRead, IInv, ReadInv, Kept
  <2>5. RuleOf(f).recipe => NotRequired(f, Len(work_items) + 1)
    <3>1. SUFFICES ASSUME RuleOf(f).recipe, NEW j \in DOMAIN work_items,
                          work_items[j].file = f, ~work_items[j].ignore
                   PROVE  work_items[j].outcome = "Error"
      BY DEF NotRequired
    <3>2. work_items[j] \in WorkItem /\ Sound(work_items[j])
      BY ItemTypes DEF IInv, ItemInv
    <3>3. work_items[j].outcome \in Outcomes
      BY <3>2 DEF WorkItem
    <3> QED BY <2>1, <2>3, <3>1, <3>2, <3>3 DEF Sound, Outcomes
  <2>6. RuleOf(f)' = RuleOf(f) /\ IsRead(f)' = IsRead(f) /\ f = Head(todo').file
    BY <2>1, <2>2, SameRules
  <2>7. NotRequired(f, Len(work_items) + 1) => NotRequired(f, Len(work_items) + 1)'
    BY <2>1 DEF NotRequired
  <2>8. \/ ~(phase' = "pending" /\ stack' # <<>>)
        \/ /\ f \notin include_recipe_ran' /\ ~IsRead(f)' /\ RuleOf(f)'.kind # "imagined"
           /\ RuleOf(f)'.recipe => NotRequired(f, Len(work_items) + 1)'
    BY <2>1, <2>3, <2>4, <2>5, <2>6, <2>7
  <2> QED BY <2>6, <2>8 DEF WalkInv, NotRequired, RuleOf, IsRead
<1>2. ASSUME phase' = "pending", stack' # <<>>, ~EnterPending
      PROVE  /\ phase = "pending" /\ stack # <<>>
             /\ UNCHANGED <<mk, todo, makefile_list, include_recipe_ran, work_items>>
  <2>1. stack # <<>> => phase \in {"listed", "pending"} /\ todo # <<>>
    BY DEF IInv
  <2>2. CASE PassOver \/ GoDown \/ ComeBack
    <3>1. stack # <<>> /\ phase' = phase
      <4>1. Len(stack) > 1 => stack # <<>>
        OBVIOUS
      <4> QED BY <2>2, <4>1 DEF PassOver, GoDown, ComeBack, Walking
    <3>2. mk' = mk
      BY ItemTypes, TimesGrow
    <3> QED BY <1>2, <2>2, <3>1, <3>2 DEF PassOver, GoDown, ComeBack, lists, notes, work
  <2>3. CASE stack' = stack
    <3>1. stack # <<>> /\ phase \in {"listed", "pending"} /\ todo # <<>>
      BY <1>2, <2>1, <2>3
    <3> QED BY <1>2, <2>2, <2>3, <3>1 DEF Next, ReadMakefile, AllRead,
          SkipListed, EnterListed, KeepListed, RemakeListed, EndListed, SettlePending,
          QueuePending, EndPending, FinishRecipe, EndRecipes, JudgeOld, JudgeMade, JudgeImagined,
          JudgeFailed, JudgeNothing, EndResults, Reinvoke, CannotReinvoke, Judging, NotWalking
  <2>4. CASE EnterListed
    BY <1>2, <2>4 DEF EnterListed, Listed
  <2> QED BY <1>2, <2>2, <2>3, <2>4, StackOnly
<1>3. CASE phase' = "pending" /\ stack' # <<>> /\ ~EnterPending
  <2>1. /\ phase = "pending" /\ stack # <<>>
        /\ UNCHANGED <<mk, todo, makefile_list, include_recipe_ran, work_items>>
    BY <1>2, <1>3
  <2>2. WalkInv
    BY DEF IInv
  <2> QED BY <2>1, <2>2 DEF WalkInv, NotRequired, RuleOf, IsRead
<1> QED BY <1>1, <1>3 DEF WalkInv

(* A failure has an item that knows of it.                                 *)
LEMMA FailedStep ==
  ASSUME IInv, Next
  PROVE  FailedInv'
<1> DEFINE Why(f) == \E i \in recipe_indices : work_items[i].file = f /\ recipe_results[i] = "error"
<1>1. phase' # "failed" => phase # "failed"
  <2>1. phase = "failed" => stack = <<>>
    BY DEF IInv
  <2>2. Len(<<>>) = 0
    OBVIOUS
  <2> QED BY <2>1, <2>2 DEF Next, ReadMakefile, AllRead, PassOver, GoDown, ComeBack, Walking,
          SkipListed, EnterListed, KeepListed, RemakeListed, EndListed, SettlePending, EnterPending,
          QueuePending, EndPending, FinishRecipe, EndRecipes, JudgeOld, JudgeMade, JudgeImagined,
          JudgeFailed, JudgeNothing, EndResults, Reinvoke, CannotReinvoke, Judging, Listed, Pending
<1>2. phase # "failed" => \A f \in failed : Why(f)
  BY DEF IInv, FailedInv
<1>3. SUFFICES ASSUME phase' # "failed", NEW f \in failed' PROVE Why(f)'
  BY DEF FailedInv
<1>4. ASSUME NEW i \in recipe_indices, work_items[i].file = f, recipe_results[i] = "error",
             ~Reinvoke
      PROVE  Why(f)'
  <2>1. CASE UNCHANGED <<work_items, recipe_results>>
    BY <1>4, <2>1 DEF recipe_indices
  <2>2. ASSUME NEW new, Queued(new) PROVE Why(f)'
    <3>1. PICK n \in Nat :
          /\ DOMAIN work_items = 1 .. n /\ DOMAIN work_items' = 1 .. n + 1
          /\ \A j \in 1 .. n : work_items'[j] = work_items[j]
          /\ \A j \in 1 .. n : recipe_results'[j] = recipe_results[j]
      BY <2>2 DEF Queued
    <3>2. i \in 1 .. n /\ i \in 1 .. n + 1 /\ work_items[i].outcome = "RunRecipe"
      BY <1>4, <3>1 DEF recipe_indices
    <3> QED BY <1>4, <3>1, <3>2 DEF recipe_indices
  <2>3. CASE SettlePending
    BY <2>2, <2>3, ItemTypes, Settling
  <2>4. CASE QueuePending
    BY <2>2, <2>4, ItemTypes, Queueing
  <2>5. ASSUME NEW k \in recipe_indices, FinishRecipe(k) PROVE Why(f)'
    <3>1. /\ work_items' = work_items /\ recipe_indices' = recipe_indices
          /\ \A j \in DOMAIN recipe_results \ {k} : recipe_results'[j] = recipe_results[j]
          /\ recipe_results[k] = "none"
      BY <2>5, ItemTypes, Finishing
    <3>2. i \in DOMAIN recipe_results \ {k}
      BY <1>4, <3>1, ItemTypes DEF recipe_indices
    <3> QED BY <1>4, <3>1, <3>2
  <2> QED BY <1>4, <2>1, <2>3, <2>4, <2>5, WorkOnly
<1>5. CASE Reinvoke
  BY <1>3, <1>5 DEF Reinvoke
<1>6. CASE f \in failed /\ ~Reinvoke
  BY <1>1, <1>2, <1>3, <1>4, <1>6
<1>7. CASE RemakeListed
  <2>1. failed' = failed
    BY <1>3, <1>7 DEF RemakeListed
  <2>2. ~Reinvoke
    BY <1>7 DEF RemakeListed, Reinvoke, Listed
  <2> QED BY <1>3, <1>6, <2>1, <2>2
<1>8. ASSUME NEW k \in recipe_indices, FinishRecipe(k), f \notin failed PROVE Why(f)'
  <2>1. /\ work_items' = work_items /\ recipe_indices' = recipe_indices
        /\ \E end : /\ recipe_results'[k] = IF end.ok THEN "ok" ELSE "error"
                    /\ failed' = IF end.ok THEN failed ELSE failed \cup {work_items[k].file}
    BY <1>8, ItemTypes, Finishing
  <2>2. f = work_items[k].file /\ recipe_results'[k] = "error"
    BY <1>3, <1>8, <2>1
  <2> QED BY <2>1, <2>2
<1> QED BY <1>3, <1>5, <1>6, <1>7, <1>8, HistoryOnly
-----------------------------------------------------------------------------
(* Phase C.                                                                *)

(* Going past one item. *)
LEMMA JudgeOne ==
  ASSUME IInv, Judged, Judging, phase' = "results", include_imagined \subseteq include_imagined',
         NEW h, h = Head(todo), Passed(h)'
  PROVE  JudgedInv'
<1>1. /\ todo' = Tail(todo) /\ UNCHANGED <<files, work_items, recipe_results>> /\ todo # <<>>
      /\ phase = "results"
  BY DEF Judged, Judging, work, outside
<1>2. Range(todo) = Range(todo') \cup {h}
  <2>1. todo \in Seq(DOMAIN work_items)
    BY <1>1 DEF IInv, ListsOK
  <2> QED BY <1>1, <2>1, TailHolds
<1>3. ASSUME NEW i \in DOMAIN work_items, i \notin Range(todo) PROVE Passed(i)'
  <2>1. Passed(i)
    BY <1>1, <1>3 DEF IInv, JudgedInv
  <2> QED BY <1>1, <2>1 DEF Passed, ResultOf, Exists
<1> QED BY <1>1, <1>2, <1>3 DEF JudgedInv

(* Phase C goes past a required item only if all is well with it.          *)
LEMMA JudgedStep ==
  ASSUME IInv, Next
  PROVE  JudgedInv'
<1>0. JudgedInv /\ (stack # <<>> => phase \in {"listed", "pending"})
  BY DEF IInv
<1> DEFINE Judge == JudgeOld \/ JudgeMade \/ JudgeImagined \/ JudgeNothing
<1>1. ASSUME Judge PROVE JudgedInv'
  <2>1. PICK h : h = Head(todo)
    OBVIOUS
  <2>2. PICK w : w = work_items[h]
    OBVIOUS
  <2>3. /\ Judging /\ Judged /\ phase' = "results" /\ include_imagined \subseteq include_imagined'
        /\ files' = files /\ work_items' = work_items /\ recipe_results' = recipe_results
    BY <1>1 DEF JudgeOld, JudgeMade, JudgeImagined, JudgeNothing, Judging, Judged, work, outside
  <2>4. item = w /\ Result = ResultOf(h) /\ ResultOf(h)' = ResultOf(h)
    BY <2>1, <2>2, <2>3 DEF item, Result, ResultOf
  <2>5. Exists(w.file)' = Exists(w.file) /\ w = work_items'[h]
    BY <2>2, <2>3 DEF Exists
  <2>6. CASE JudgeOld
    <3>1. w.outcome = "AlreadyExists" \/ (w.outcome = "RunRecipe" /\ ResultOf(h) = "ok")
      BY <2>4, <2>6 DEF JudgeOld
    <3>2. Passed(h)'
      BY <2>2, <2>3, <2>4, <2>5, <3>1 DEF Passed
    <3> QED BY <2>1, <2>3, <3>2, JudgeOne
  <2>7. CASE JudgeMade
    <3>1. w.outcome \in {"RunRecipe", "SiblingOf"} /\ ResultOf(h) = "ok"
      BY <2>4, <2>7 DEF JudgeMade
    <3>2. Passed(h)'
      BY <2>2, <2>3, <2>4, <2>5, <3>1 DEF Passed
    <3> QED BY <2>1, <2>3, <3>2, JudgeOne
  <2>8. CASE JudgeImagined
    <3>1. /\ w.file \in include_imagined'
          /\ \/ w.outcome = "Imagined" \/ w.outcome = "PrereqsOnlyNoRecipe"
             \/ w.outcome \in {"RunRecipe", "SiblingOf"} /\ ResultOf(h) = "ok"
      BY <2>4, <2>8 DEF JudgeImagined
    <3>2. Passed(h)'
      BY <2>2, <2>3, <2>4, <2>5, <3>1 DEF Passed
    <3> QED BY <2>1, <2>3, <3>2, JudgeOne
  <2>9. CASE JudgeNothing
    <3>1. \/ w.outcome = "SiblingAlreadyRan"
          \/ w.outcome = "PrereqsOnlyNoRecipe" /\ Exists(w.file)
          \/ w.ignore
      BY <2>4, <2>9 DEF JudgeNothing, Failing
    <3>2. Passed(h)'
      BY <2>2, <2>3, <2>4, <2>5, <3>1 DEF Passed
    <3> QED BY <2>1, <2>3, <3>2, JudgeOne
  <2> QED BY <1>1, <2>6, <2>7, <2>8, <2>9
<1>2. CASE EndRecipes
  <2>1. /\ phase' = "results" /\ todo' = [i \in DOMAIN work_items |-> i]
        /\ work_items' = work_items
    BY <1>2 DEF EndRecipes, work
  <2>2. \A i \in DOMAIN work_items' : i \in Range(todo')
    BY <2>1 DEF Range
  <2> QED BY <2>1, <2>2 DEF JudgedInv
<1>3. CASE EndResults
  <2>1. /\ phase = "results" /\ phase' # "results" /\ todo = <<>>
        /\ UNCHANGED <<files, work_items, recipe_results, include_imagined>>
    BY <1>3 DEF EndResults, work, notes, outside
  <2>2. Range(<<>>) = {}
    BY DEF Range
  <2>3. \A i \in DOMAIN work_items : Passed(i)
    BY <1>0, <2>1, <2>2 DEF JudgedInv
  <2>4. \A i \in DOMAIN work_items' : Passed(i)'
    BY <2>1, <2>3 DEF Passed, ResultOf, Exists
  <2> QED BY <2>1, <2>4 DEF JudgedInv
<1>4. CASE ReadMakefile
  <2>1. phase' = phase /\ UNCHANGED <<files, work_items, recipe_results, include_imagined, todo>>
    BY <1>4 DEF ReadMakefile, work, notes, outside
  <2> QED BY <1>0, <2>1 DEF JudgedInv, Passed, ResultOf, Exists
<1>5. CASE ~Judge /\ ~EndRecipes /\ ~EndResults /\ ~ReadMakefile
  <2>1. phase' # "results" /\ phase' # "building"
    <3>1. CASE PassOver \/ GoDown \/ ComeBack
      <4>1. Len(stack) > 1 => stack # <<>>
        OBVIOUS
      <4>2. stack # <<>> /\ phase' = phase
        BY <3>1, <4>1 DEF PassOver, GoDown, ComeBack, Walking
      <4> QED BY <1>0, <4>2
    <3>2. CASE ~(PassOver \/ GoDown \/ ComeBack)
      BY <1>5, <3>2 DEF Next, AllRead,
          SkipListed, EnterListed, KeepListed, RemakeListed, EndListed, SettlePending, EnterPending,
          QueuePending, EndPending, FinishRecipe, JudgeFailed, Reinvoke, CannotReinvoke,
          Listed, Pending
    <3> QED BY <3>1, <3>2
  <2> QED BY <2>1 DEF JudgedInv
<1> QED BY <1>1, <1>2, <1>3, <1>4, <1>5
-----------------------------------------------------------------------------
(* No build begins if a makefile has changed.                              *)
LEMMA NoneRebuilt ==
  ASSUME IInv, Next
  PROVE  phase' = "building" => ~any_really_rebuilt'
<1>0. /\ phase = "building" => ~any_really_rebuilt
      /\ stack # <<>> => phase \in {"listed", "pending"}
  BY DEF IInv
<1>1. CASE PassOver \/ GoDown \/ ComeBack
  <2>1. Len(stack) > 1 => stack # <<>>
    OBVIOUS
  <2>2. stack # <<>> /\ phase' = phase
    BY <1>1, <2>1 DEF PassOver, GoDown, ComeBack, Walking
  <2> QED BY <1>0, <2>2
<1>2. CASE ~(PassOver \/ GoDown \/ ComeBack)
  BY <1>0, <1>2 DEF Next, ReadMakefile, AllRead,
      SkipListed, EnterListed, KeepListed, RemakeListed, EndListed, SettlePending, EnterPending,
      QueuePending, EndPending, FinishRecipe, EndRecipes, JudgeOld, JudgeMade, JudgeImagined,
      JudgeFailed, JudgeNothing, EndResults, Reinvoke, CannotReinvoke, Judging, Listed, Pending
<1> QED BY <1>1, <1>2

(* The invariant holds at the start ...                                    *)
LEMMA InitInv == Init => IInv
<1> SUFFICES ASSUME Init PROVE IInv
  OBVIOUS
<1>1. PICK setup \in Setups : mk = setup.mk /\ files = setup.files
  BY DEF Init
<1>2. MkOK /\ files \in [Files -> 0 .. 2]
  BY <1>1, RemakeAssumption DEF MkOK
<1>3. /\ clock = 2 /\ phase = "reading" /\ restarts = 0
      /\ agenda = ToRead /\ pending_includes = PendingAtFirst /\ makefile_list = <<>>
      /\ stack = <<>> /\ include_recipe_ran = {} /\ include_already_ran = {}
      /\ work_items = <<>> /\ recipe_results = <<>> /\ remade = {} /\ failed = {}
  BY DEF Init
<1>4. /\ \A S : <<>> \in Seq(S)
      /\ DOMAIN <<>> = {}
  OBVIOUS
<1>5. StackOK /\ ItemsOK /\ PhaseOK /\ TimesOK /\ WorkOK
  BY <1>2, <1>3, <1>4 DEF StackOK, FramesOK, ItemsOK, PhaseOK, TimesOK, WorkOK
<1>6. ListsOK
  BY <1>2, <1>3, <1>4, Included DEF ListsOK, MkOK
<1>7. TypeOK /\ FramesOK
  BY <1>5, TypeParts DEF StackOK
<1>8. ReadInv /\ ItemInv /\ EarlierInv /\ WalkInv /\ FailedInv /\ JudgedInv
  BY <1>3, <1>4 DEF ReadInv, ItemInv, EarlierInv, recipe_indices, WalkInv, FailedInv, JudgedInv
<1> QED BY <1>2, <1>3, <1>5, <1>6, <1>7, <1>8 DEF IInv

(* ... and every step keeps it.                                            *)
LEMMA StepInv ==
  ASSUME IInv, Next
  PROVE  IInv'
<1>1. TimesOK /\ PhaseOK /\ StackOK /\ ItemsOK
  BY TypeParts DEF IInv
<1>2. MkOK /\ ListsOK /\ WorkOK /\ files \in [Files -> 0 .. clock] /\ clock \in Nat
  BY <1>1 DEF IInv, TimesOK
<1>3. TimesOK' /\ mk' = mk
  BY <1>2, TimesGrow DEF TimesOK
<1>4. PhaseOK' /\ StackOK' /\ ItemsOK' /\ WorkOK' /\ ListsOK'
  BY <1>1, <1>2, PhaseStep, StackStep, ItemsStep, ListsStep
<1>5. MkOK'
  BY <1>2, <1>3 DEF MkOK
<1>6. TypeOK' /\ FramesOK'
  <2>1. FramesOK'
    BY <1>4 DEF StackOK
  <2>2. IsInjective([i \in DOMAIN stack |-> stack[i].target])'
    BY <1>4 DEF StackOK, IsInjective
  <2> QED BY <1>3, <1>4, <2>1, <2>2 DEF TypeOK, TimesOK, PhaseOK, ItemsOK, StackOK
<1> QED BY <1>4, <1>5, <1>6, ReadStep, NoneRebuilt, StackPhase, ItemStep, EarlierStep,
           WalkInvStep, FailedStep, JudgedStep DEF IInv

(* The inductive invariant.                                                *)
THEOREM Invariance == Spec => []IInv
<1>1. IInv /\ UNCHANGED vars => IInv'
  BY DEF vars, outside, lists, walk, notes, work, history, IInv, TypeOK, MkOK, ListsOK, FramesOK,
         WorkOK, ReadInv, Kept, ItemInv, Sound, EarlierInv, NotRequired, WalkInv, FailedInv,
         JudgedInv, Passed, ResultOf, Exists, Readable, IsRead, RuleOf, recipe_indices
<1> QED BY <1>1, InitInv, StepInv, PTL DEF Spec

(* Whatever is remade, phase C finds a result for each recipe that was     *)
(* queued, and a sibling's item goes by one that comes before it.          *)
THEOREM ResultsFound == Spec => []TypeOK
<1>1. IInv => TypeOK
  BY DEF IInv
<1> QED BY <1>1, Invariance, PTL

(* No build goes by what stood in a makefile before its own recipe changed *)
(* it: another image reads it.                                             *)
LEMMA NotStale == IInv => NoneLeftStale
<1> SUFFICES ASSUME IInv, phase = "building", NEW k \in DOMAIN makefile_list,
                    files[makefile_list[k].file] # makefile_list[k].time
             PROVE  makefile_list[k].file \notin remade
  BY DEF NoneLeftStale
<1> QED BY DEF IInv, ReadInv, Kept

(* With phase C gone past all items, the required files are made.          *)
LEMMA RequiredMade ==
  ASSUME IInv, RequiredFirst
  PROVE  RequiredOrError
<1> SUFFICES ASSUME phase = "building", NEW w \in Range(work_items), ~w.ignore
             PROVE  /\ w.file \notin failed
                    /\ Exists(w.file) \/ w.file \in include_imagined \cup include_recipe_ran
  BY DEF RequiredOrError
<1>1. PICK j \in DOMAIN work_items : w = work_items[j]
  BY DEF Range
<1>2. Passed(j) /\ Sound(w) /\ w \in WorkItem
  BY <1>1, ItemTypes DEF IInv, JudgedInv, ItemInv
<1>3. /\ w.outcome # "Error"
      /\ w.outcome \in {"RunRecipe", "SiblingOf"} => ResultOf(j) = "ok"
      /\ w.outcome = "Imagined" => w.file \in include_imagined
      /\ w.outcome = "PrereqsOnlyNoRecipe" => Exists(w.file) \/ w.file \in include_imagined
  BY <1>1, <1>2 DEF Passed
<1>4. Exists(w.file) \/ w.file \in include_imagined \cup include_recipe_ran
  <2>1. w.outcome \in Outcomes
    BY <1>2 DEF WorkItem
  <2> QED BY <1>2, <1>3, <2>1 DEF Sound, Outcomes, Readable
<1>5. ASSUME w.file \in failed PROVE FALSE
  <2>1. PICK i \in recipe_indices :
          work_items[i].file = w.file /\ recipe_results[i] = "error"
    BY <1>5 DEF IInv, FailedInv
  <2>2. /\ i \in DOMAIN work_items /\ work_items[i].outcome = "RunRecipe"
        /\ i \in Nat /\ j \in Nat
    <3>1. work_items \in Seq(WorkItem)
      BY ItemTypes DEF WorkOK
    <3> QED BY <2>1, <3>1 DEF recipe_indices
  <2>3. CASE i = j
    BY <1>1, <1>3, <2>1, <2>2, <2>3 DEF ResultOf
  <2>4. CASE i < j
    BY <1>1, <2>1, <2>2, <2>4 DEF RequiredFirst
  <2>5. CASE j < i
    BY <1>1, <1>3, <2>1, <2>5 DEF IInv, EarlierInv, NotRequired
  <2> QED BY <2>2, <2>3, <2>4, <2>5
<1> QED BY <1>4, <1>5

(* The build begins on makefiles that are as they were read, but for what  *)
(* has not been remade by a recipe of its own, and no recipe of a required *)
(* one has failed, unless the file is required by a line that comes after  *)
(* another line for it.                                                    *)
THEOREM BuildsOnWhatWasRead == Spec => [](RequiredFirst => BuildsOnMakefiles)
<1>1. IInv => (RequiredFirst => BuildsOnMakefiles)
  BY NotStale, RequiredMade DEF BuildsOnMakefiles
<1> QED BY <1>1, Invariance, PTL

(* The first half needs no such condition.                                 *)
THEOREM NoneStale == Spec => []NoneLeftStale
<1> QED BY NotStale, Invariance, PTL
=============================================================================
