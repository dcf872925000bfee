-------------------------- MODULE BuildWalk_proofs --------------------------
(***************************************************************************)
(* Theorems about the sequential build, for every set of files, makefiles  *)
(* and initial times.  Up to the last two parts, on a build with nothing   *)
(* to do and on what a build leaves, the out-of-date tests are not opened: *)
(* what is proved there holds whatever they answer.                        *)
(***************************************************************************)
EXTENDS BuildWalk, SequenceFacts

(* What the lists of prerequisites hold. *)
LEMMA TaggedHolds ==
  ASSUME NEW S, NEW list \in Seq(S), NEW normal \in BOOLEAN
  PROVE  /\ Tagged(list, normal) \in Seq([file : S, normal : BOOLEAN])
         /\ Range(Tagged(list, normal)) = {[file |-> p, normal |-> normal] : p \in Range(list)}
<1>1. DOMAIN list = 1 .. Len(list) /\ Len(list) \in Nat
  OBVIOUS
<1>2. \A i \in DOMAIN list : [file |-> list[i], normal |-> normal] \in [file : S, normal : BOOLEAN]
  OBVIOUS
<1>3. Tagged(list, normal) \in [1 .. Len(list) -> [file : S, normal : BOOLEAN]]
  BY <1>1, <1>2 DEF Tagged
<1> QED BY <1>1, <1>3 DEF Tagged, Range

LEMMA MakefileOK ==
  ASSUME IsMakefile(mk)
  PROVE  /\ \A t \in Files : /\ mk.prereqs[t] \in Seq(Files) /\ mk.order_only[t] \in Seq(Files)
                             /\ mk.siblings[t] \subseteq Files /\ mk.writes[t] \subseteq Files
                             /\ IsFiniteSet(mk.siblings[t]) /\ t \notin mk.siblings[t]
         /\ mk.goals \in Seq(Files)
BY DEF IsMakefile

(* The prerequisites of a target, as its frame's agenda lists them. *)
LEMMA NeedsHold ==
  ASSUME IsMakefile(mk), NEW t \in Files
  PROVE  /\ Needs(t) \in Seq(Dep) /\ OrderOnlyNeeds(t) \in Seq(Dep)
         /\ SiblingNeeds(t) \in Seq(Dep)
         /\ Range(Needs(t)) = {[file |-> p, normal |-> TRUE] : p \in Range(mk.prereqs[t])}
                      \cup {[file |-> p, normal |-> FALSE] : p \in Range(mk.order_only[t])}
<1>1. mk.prereqs[t] \in Seq(Files) /\ mk.order_only[t] \in Seq(Files)
  BY MakefileOK
<1> DEFINE own(b) == Tagged(mk.prereqs[t], b)
           order_only == Tagged(mk.order_only[t], FALSE)
<1>2. /\ own(TRUE) \in Seq(Dep) /\ own(FALSE) \in Seq(Dep) /\ order_only \in Seq(Dep)
      /\ Range(own(TRUE)) = {[file |-> p, normal |-> TRUE] : p \in Range(mk.prereqs[t])}
      /\ Range(order_only) = {[file |-> p, normal |-> FALSE] : p \in Range(mk.order_only[t])}
  BY <1>1, TaggedHolds DEF Dep
<1>3. /\ own(TRUE) \o order_only \in Seq(Dep) /\ own(FALSE) \o order_only \in Seq(Dep)
      /\ Range(own(TRUE) \o order_only) = Range(own(TRUE)) \cup Range(order_only)
  <2>1. \A s, u \in Seq(Dep) : s \o u \in Seq(Dep) /\ Range(s \o u) = Range(s) \cup Range(u)
    BY ConcatRange
  <2> HIDE DEF own, order_only
  <2> QED BY <1>2, <2>1
<1> QED BY <1>2, <1>3 DEF Needs, OrderOnlyNeeds, SiblingNeeds

(* The top of the stack. *)
LEMMA TopFrame ==
  ASSUME stack \in Seq(Frame), stack # <<>>
  PROVE  /\ Len(stack) \in Nat \ {0} /\ DOMAIN stack = 1 .. Len(stack)
         /\ top = stack[Len(stack)] /\ top \in Frame /\ top \in Range(stack)
         /\ Front(stack) \in Seq(Frame) /\ Len(Front(stack)) = Len(stack) - 1
         /\ DOMAIN Front(stack) = 1 .. Len(stack) - 1
         /\ \A i \in 1 .. Len(stack) - 1 : Front(stack)[i] = stack[i]
<1>1. Len(stack) \in Nat \ {0} /\ DOMAIN stack = 1 .. Len(stack)
  OBVIOUS
<1>2. Front(stack) = SubSeq(stack, 1, Len(stack) - 1)
  BY DEF Front
<1>3. /\ Front(stack) \in Seq(Frame) /\ Len(Front(stack)) = Len(stack) - 1
      /\ \A i \in 1 .. Len(stack) - 1 : Front(stack)[i] = stack[i]
  BY <1>1, <1>2
<1>4. top = stack[Len(stack)]
  BY DEF top, Last
<1> QED BY <1>1, <1>3, <1>4 DEF Range
-----------------------------------------------------------------------------
(* Types.                                                                  *)

LEMMA FrameTypes ==
  ASSUME IsMakefile(mk), NEW t \in Files
  PROVE  /\ NewFrame(t, "single") \in Frame /\ NewFrame(t, "group") \in Frame
         /\ \A others \in Seq(Seq(Dep)) :
              [NewFrame(t, "fresh") EXCEPT !.agenda = <<>>, !.others = others] \in Frame
         /\ \A siblings \in Seq(Files) :
              [NewFrame(t, "group") EXCEPT !.siblings = siblings] \in Frame
<1>1. Needs(t) \in Seq(Dep)
  BY NeedsHold
<1>2. <<>> \in Seq(Seq(Dep)) /\ <<>> \in Seq(Files) /\ <<>> \in Seq(Dep)
  OBVIOUS
<1>3. \A phase \in {"fresh", "single", "group", "siblings"} : NewFrame(t, phase) \in Frame
  BY <1>1, <1>2 DEF NewFrame, Frame
<1>4. ASSUME NEW others \in Seq(Seq(Dep))
      PROVE  [NewFrame(t, "fresh") EXCEPT !.agenda = <<>>, !.others = others] \in Frame
  BY <1>2, <1>3 DEF Frame
<1>5. ASSUME NEW siblings \in Seq(Files)
      PROVE  [NewFrame(t, "group") EXCEPT !.siblings = siblings] \in Frame
  BY <1>3 DEF Frame
<1> QED BY <1>3, <1>4, <1>5

LEMMA CacheTypes ==
  ASSUME TypeOK, NEW R, NEW t \in Files
  PROVE  /\ view \in [Files -> Nat]
         /\ Remembering(R) \in [Files -> Nat \cup {Unread}]
         /\ Evicting(Remembering(R), t) \in [Files -> Nat \cup {Unread}]
<1>1. view \in [Files -> Nat]
  BY DEF TypeOK, view, Unread
<1>2. Remembering(R) \in [Files -> Nat \cup {Unread}]
  BY <1>1 DEF TypeOK, Remembering
<1> QED BY <1>1, <1>2 DEF Evicting

LEMMA RecordTypes ==
  ASSUME TypeOK, NEW t \in Files, NEW r \in Results \cup {"error"}, NEW S, Record(t, r, S)
  PROVE  /\ built' \in [Files -> Results \cup {NotBuilt}]
         /\ failed_targets' \subseteq Files
BY DEF TypeOK, Record, Recording, Covering, Results

(* The frames and results after a call has been answered. *)
LEMMA PopTypes ==
  ASSUME TypeOK, stack # <<>>, NEW r \in Results \cup {"error"}, NEW S, Pop(r, S)
  PROVE  /\ stack' \in Seq(Frame) /\ top.target \in Files
         /\ built' \in [Files -> Results \cup {NotBuilt}]
         /\ failed_targets' \subseteq Files
         /\ pc' = "return" /\ ret' \in Results \cup {"none", "error"}
<1>1. stack' \in Seq(Frame) /\ top \in Frame
  BY TopFrame DEF TypeOK, Pop
<1>2. top.target \in Files
  BY <1>1 DEF Frame
<1>3. Record(top.target, r, S) /\ Return(r)
  BY DEF Pop
<1> QED BY <1>1, <1>2, <1>3, RecordTypes DEF Return

LEMMA ReplaceTypes ==
  ASSUME stack \in Seq(Frame), stack # <<>>, NEW frame \in Frame, ReplaceTop(frame)
  PROVE  stack' \in Seq(Frame)
BY DEF ReplaceTop

LEMMA InitTypes == Init => TypeOK
<1> SUFFICES ASSUME Init PROVE TypeOK
  OBVIOUS
<1>1. IsMakefile(mk) /\ keep_going \in BOOLEAN /\ always_make \in BOOLEAN
  BY MakefilesAssumption DEF Init
<1>2. first_disk \in [Files -> Nat] /\ disk \in [Files -> Nat] /\ clock \in Nat
  <2>1. \A n \in InitialTimes : n \in Nat
    BY TimesAssumption
  <2>2. clock \in Nat
    BY TimesAssumption DEF Init
  <2>3. first_disk \in [Files -> InitialTimes] /\ disk = first_disk
    BY DEF Init
  <2> QED BY <2>1, <2>2, <2>3
<1>3. goals \in Seq(Files) /\ errors \in BOOLEAN
  BY <1>1, MakefileOK DEF Init
<1>4. stack \in Seq(Frame) /\ log \in Seq([target : Files, ok : BOOLEAN])
  BY DEF Init
<1>5. /\ mtime_cache \in [Files -> Nat \cup {Unread}]
      /\ built \in [Files -> Results \cup {NotBuilt}]
      /\ failed_targets \subseteq Files /\ circular_dropped \subseteq Files
      /\ intermediate_built \subseteq Files
      /\ pc \in {"call", "return", "end"} /\ ret \in Results \cup {"none", "error"}
      /\ outcome \in {"none", "ok", "error"}
  BY DEF Init
<1> QED BY <1>1, <1>2, <1>3, <1>4, <1>5 DEF TypeOK

LEMMA CallingTypes ==
  ASSUME TypeOK, NEW t, Calling(t)
  PROVE  t \in Files
<1>1. CASE stack = <<>>
  BY <1>1, TailHolds DEF TypeOK, Calling
<1>2. CASE stack # <<>>
  <2>1. top.agenda \in Seq(Dep) /\ top.agenda # <<>>
    BY <1>2, TopFrame DEF TypeOK, Frame, Calling
  <2>2. Head(top.agenda) \in Dep
    BY <2>1, TailHolds
  <2> QED BY <1>2, <2>2 DEF Calling, Dep
<1> QED BY <1>1, <1>2

(* Whatever becomes of the target called for. *)
LEMMA BuildTargetTypes ==
  ASSUME TypeOK, NEW t \in Files, BuildTarget(t)
  PROVE  TypeOK'
<1> USE DEF given, files, memo
<1>1. CASE Memoized(t)
  BY <1>1 DEF TypeOK, Memoized, Return
<1>2. CASE DropCycle(t)
  BY <1>2 DEF TypeOK, DropCycle, Return, Results
<1>3. CASE Leaf(t)
  <2>1. PICK r \in {"reused", "error"} : Record(t, r, {}) /\ Return(r)
    BY <1>3 DEF Leaf
  <2>2. /\ built' \in [Files -> Results \cup {NotBuilt}] /\ failed_targets' \subseteq Files
        /\ pc' = "return" /\ ret' \in Results \cup {"none", "error"}
    BY <2>1, RecordTypes DEF Results, Return
  <2> QED BY <1>3, <2>2 DEF TypeOK, Leaf
<1>4. ASSUME NEW frame \in Frame, Push(frame),
             mtime_cache' \in [Files -> Nat \cup {Unread}]
      PROVE  TypeOK'
  <2>1. stack' \in Seq(Frame)
    BY <1>4 DEF TypeOK, Push
  <2> QED BY <1>4, <2>1 DEF TypeOK, Push
<1>5. CASE EnterFresh(t)
  <2>1. PICK R : mtime_cache' = Remembering(R)
    BY <1>5 DEF EnterFresh
  <2> DEFINE ofDeleted == [i \in DOMAIN mk.prereqs[t] |->
                             IF Skippable(mk, view, mk.prereqs[t][i])
                             THEN OrderOnlyNeeds(mk.prereqs[t][i]) ELSE <<>>]
             others == Append(ofDeleted, OrderOnlyNeeds(t))
  <2>2. \A p \in Files : OrderOnlyNeeds(p) \in Seq(Dep)
    BY NeedsHold DEF TypeOK
  <2>3. mk.prereqs[t] \in Seq(Files)
    BY MakefileOK DEF TypeOK
  <2>4. ofDeleted \in Seq(Seq(Dep))
    <3>1. /\ Len(mk.prereqs[t]) \in Nat /\ DOMAIN mk.prereqs[t] = 1 .. Len(mk.prereqs[t])
          /\ \A i \in DOMAIN mk.prereqs[t] : mk.prereqs[t][i] \in Files
      BY <2>3
    <3>2. <<>> \in Seq(Dep)
      OBVIOUS
    <3>3. ofDeleted \in [1 .. Len(mk.prereqs[t]) -> Seq(Dep)]
      BY <2>2, <3>1, <3>2
    <3> HIDE DEF ofDeleted
    <3> QED BY <3>1, <3>3
  <2>5. others \in Seq(Seq(Dep))
    <3> HIDE DEF ofDeleted
    <3> QED BY <2>2, <2>4
  <2>6. Push([NewFrame(t, "fresh") EXCEPT !.agenda = <<>>, !.others = others])
    BY <1>5 DEF EnterFresh
  <2>7. [NewFrame(t, "fresh") EXCEPT !.agenda = <<>>, !.others = others] \in Frame
    <3> HIDE DEF others
    <3> QED BY <2>5, FrameTypes DEF TypeOK
  <2> HIDE DEF others
  <2> QED BY <1>4, <2>1, <2>6, <2>7, CacheTypes
<1>6. CASE EnterSingle(t)
  <2>1. NewFrame(t, "single") \in Frame /\ Push(NewFrame(t, "single"))
    BY <1>6, FrameTypes DEF TypeOK, EnterSingle
  <2>2. UNCHANGED mtime_cache \/ \E R : mtime_cache' = Remembering(R)
    BY <1>6 DEF EnterSingle
  <2> QED BY <1>4, <2>1, <2>2, CacheTypes DEF TypeOK
<1>7. CASE EnterGroup(t)
  <2>1. PICK order \in SetToSeqs(SiblingsToBuild(t)) :
               Push([NewFrame(t, "group") EXCEPT !.siblings = order])
    BY <1>7 DEF EnterGroup
  <2>2. IsFiniteSet(SiblingsToBuild(t)) /\ SiblingsToBuild(t) \subseteq Files
    BY MakefileOK, FS_Subset DEF TypeOK, SiblingsToBuild
  <2>3. order \in Seq(Files)
    BY <2>2, OrdersOf
  <2>4. [NewFrame(t, "group") EXCEPT !.siblings = order] \in Frame
    BY <2>3, FrameTypes DEF TypeOK
  <2> QED BY <1>4, <1>7, <2>1, <2>4 DEF TypeOK, EnterGroup
<1> QED BY <1>1, <1>2, <1>3, <1>5, <1>6, <1>7 DEF BuildTarget

(* The call that is about to be answered is still on its caller's list. *)
CallPending ==
  /\ stack # <<>> => goals # <<>>
  /\ pc = "return" => goals # <<>> /\ (stack # <<>> => top.agenda # <<>>)

(* Whatever a frame does next. *)
LEMMA FrameStepTypes ==
  ASSUME TypeOK, CallPending, Resume \/ NextList \/ BuildSiblings
  PROVE  TypeOK'
<1> USE DEF given, files, memo
<1>1. stack # <<>>
  BY DEF Resume, NextList, BuildSiblings, Finishing, Listed
<1>2. top \in Frame
  BY <1>1, TopFrame DEF TypeOK
<1>3. CASE Resume
  <2>1. top.agenda \in Seq(Dep) /\ top.agenda # <<>>
    BY <1>1, <1>2, <1>3 DEF Resume, CallPending, Frame
  <2>2. PICK rebuilt \in BOOLEAN, failed \in BOOLEAN :
          ReplaceTop([top EXCEPT !.agenda = Tail(@), !.rebuilt = rebuilt, !.failed = failed])
    <3> DEFINE rebuilt == top.rebuilt \/ (Head(top.agenda).normal /\ ret = "rebuilt")
               failed == top.failed \/ (Head(top.agenda).normal /\ ret = "error")
    <3>1. ReplaceTop([top EXCEPT !.agenda = Tail(@), !.rebuilt = rebuilt, !.failed = failed])
      BY <1>3 DEF Resume
    <3>2. rebuilt \in BOOLEAN /\ failed \in BOOLEAN
      OBVIOUS
    <3> QED BY <3>1, <3>2
  <2>3. [top EXCEPT !.agenda = Tail(@), !.rebuilt = rebuilt, !.failed = failed] \in Frame
    BY <1>2, <2>1, TailHolds DEF Frame
  <2>4. stack' \in Seq(Frame)
    BY <1>1, <2>2, <2>3, ReplaceTypes DEF TypeOK
  <2> QED BY <1>3, <2>4 DEF TypeOK, Resume
<1>4. CASE NextList
  <2>1. top.others \in Seq(Seq(Dep)) /\ top.others # <<>>
    BY <1>2, <1>4 DEF NextList, Frame
  <2>2. [top EXCEPT !.agenda = Head(top.others), !.others = Tail(@)] \in Frame
    BY <1>2, <2>1, TailHolds DEF Frame
  <2>3. stack' \in Seq(Frame)
    BY <1>1, <1>4, <2>2, ReplaceTypes DEF TypeOK, NextList
  <2> QED BY <1>4, <2>3 DEF TypeOK, NextList
<1>5. CASE BuildSiblings
  <2> DEFINE others == [i \in DOMAIN top.siblings |-> SiblingNeeds(top.siblings[i])]
  <2>1. top.siblings \in Seq(Files)
    BY <1>2 DEF Frame
  <2>2. others \in Seq(Seq(Dep))
    <3>1. /\ Len(top.siblings) \in Nat /\ DOMAIN top.siblings = 1 .. Len(top.siblings)
          /\ \A i \in DOMAIN top.siblings : top.siblings[i] \in Files
      BY <2>1
    <3>2. others \in [1 .. Len(top.siblings) -> Seq(Dep)]
      BY <3>1, NeedsHold DEF TypeOK
    <3> HIDE DEF others
    <3> QED BY <3>1, <3>2
  <2>3. [top EXCEPT !.phase = "siblings", !.others = others] \in Frame
    <3> HIDE DEF others
    <3> QED BY <1>2, <2>2 DEF Frame
  <2>4. stack' \in Seq(Frame)
    BY <1>1, <1>5, <2>3, ReplaceTypes DEF TypeOK, BuildSiblings
  <2> QED BY <1>5, <2>4 DEF TypeOK, BuildSiblings
<1> QED BY <1>3, <1>4, <1>5

(* The ways a frame ends. *)
Ends ==
  \/ Abandon \/ FinishFresh \/ FailPrereqs \/ NoRecipe
  \/ Skip \/ RunEmpty \/ RunRecipe \/ RecipeFails

(* Each of them pops the top frame, and marks siblings at most. *)
LEMMA EndsPop ==
  ASSUME TypeOK, Ends
  PROVE  /\ stack # <<>>
         /\ \E r \in Results \cup {"error"}, S \in {{}, Range(top.siblings)} : Pop(r, S)
         /\ UNCHANGED <<given, circular_dropped, goals, errors, outcome>>
<1> USE DEF Results
<1>1. CASE Abandon
  BY <1>1 DEF Abandon, CoveredByFailure
<1>2. CASE FinishFresh
  BY <1>2 DEF FinishFresh, Finishing, Listed
<1>3. CASE FailPrereqs
  BY <1>3 DEF FailPrereqs, Finishing, Listed, CoveredByFailure
<1>4. CASE NoRecipe
  BY <1>4 DEF NoRecipe, Finishing, Listed
<1>5. CASE Skip
  BY <1>5 DEF Skip, Deciding, Finishing, Listed
<1>6. CASE RunEmpty
  BY <1>6 DEF RunEmpty, Deciding, Finishing, Listed
<1>7. CASE RunRecipe
  BY <1>7 DEF RunRecipe, Deciding, Finishing, Listed
<1>8. CASE RecipeFails
  BY <1>8 DEF RecipeFails, Deciding, Finishing, Listed
<1> QED BY <1>1, <1>2, <1>3, <1>4, <1>5, <1>6, <1>7, <1>8 DEF Ends

(* What a recipe leaves on disk. *)
LEMMA DiskTypes ==
  ASSUME TypeOK, NEW W, NEW t \in Files
  PROVE  /\ Now \in Nat /\ Touching(W) \in [Files -> Nat]
         /\ [Touching(W) EXCEPT ![t] = 0] \in [Files -> Nat]
<1>1. Now \in Nat /\ Touching(W) \in [Files -> Nat]
  BY DEF TypeOK, Now, Touching
<1> QED BY <1>1

LEMMA EndsTypes ==
  ASSUME TypeOK, Ends
  PROVE  TypeOK'
<1> USE DEF given, files
<1>1. /\ stack' \in Seq(Frame) /\ top.target \in Files
      /\ built' \in [Files -> Results \cup {NotBuilt}] /\ failed_targets' \subseteq Files
      /\ pc' = "return" /\ ret' \in Results \cup {"none", "error"}
  BY EndsPop, PopTypes
<1>2. UNCHANGED <<given, circular_dropped, goals, errors, outcome>>
  BY EndsPop
<1>3. ASSUME disk' \in [Files -> Nat], clock' \in Nat,
             mtime_cache' \in [Files -> Nat \cup {Unread}],
             intermediate_built' \subseteq Files,
             log' \in Seq([target : Files, ok : BOOLEAN])
      PROVE  TypeOK'
  BY <1>1, <1>2, <1>3 DEF TypeOK
<1>4. \A ok \in BOOLEAN : Logged(top.target, ok) => log' \in Seq([target : Files, ok : BOOLEAN])
  BY <1>1 DEF TypeOK, Logged
<1>5. CASE Abandon \/ FinishFresh \/ FailPrereqs \/ NoRecipe
  BY <1>3, <1>5 DEF TypeOK, Abandon, FinishFresh, FailPrereqs, NoRecipe
<1>6. CASE Skip \/ RunEmpty
  <2>1. mtime_cache' = Remembering(Decision.reads)
    BY <1>6 DEF Skip, RunEmpty
  <2> QED BY <1>1, <1>3, <1>6, <2>1, CacheTypes DEF TypeOK, Skip, RunEmpty
<1>7. CASE RunRecipe
  <2>1. /\ disk' = Touching(mk.writes[top.target]) /\ clock' = Now
        /\ mtime_cache' = Evicting(Remembering(Decision.reads), top.target)
        /\ Logged(top.target, TRUE)
        /\ intermediate_built' \in {intermediate_built, intermediate_built \cup {top.target}}
    BY <1>7 DEF RunRecipe
  <2>2. mtime_cache' \in [Files -> Nat \cup {Unread}]
    BY <1>1, <2>1, CacheTypes
  <2>3. disk' \in [Files -> Nat] /\ clock' \in Nat
    BY <1>1, <2>1, DiskTypes
  <2> QED BY <1>1, <1>3, <1>4, <2>1, <2>2, <2>3 DEF TypeOK
<1>8. CASE RecipeFails
  <2>1. PICK W : disk' \in {Touching(W), [Touching(W) EXCEPT ![top.target] = 0]}
    BY <1>8 DEF RecipeFails
  <2>2. /\ clock' = Now /\ mtime_cache' = Remembering(Decision.reads)
        /\ Logged(top.target, FALSE) /\ UNCHANGED intermediate_built
    BY <1>8 DEF RecipeFails
  <2>3. mtime_cache' \in [Files -> Nat \cup {Unread}]
    BY <1>1, <2>2, CacheTypes
  <2>4. disk' \in [Files -> Nat] /\ clock' \in Nat
    BY <1>1, <2>1, <2>2, DiskTypes
  <2> QED BY <1>1, <1>3, <1>4, <2>2, <2>3, <2>4 DEF TypeOK
<1> QED BY <1>5, <1>6, <1>7, <1>8 DEF Ends

LEMMA GoalStepTypes ==
  ASSUME TypeOK, CallPending, NextGoal \/ GoalFails \/ Finish
  PROVE  TypeOK'
<1> USE DEF given, files, memo
<1>1. CASE NextGoal
  <2>1. goals # <<>>
    BY <1>1 DEF NextGoal, CallPending
  <2>2. goals' \in Seq(Files)
    BY <1>1, <2>1, TailHolds DEF TypeOK, NextGoal
  <2> QED BY <1>1, <2>2 DEF TypeOK, NextGoal
<1>2. CASE GoalFails \/ Finish
  <2>1. PICK result \in {"ok", "error"} : End(result) /\ UNCHANGED <<goals, errors>>
    BY <1>2 DEF GoalFails, Finish
  <2>2. disk' \in [Files -> Nat]
    BY <2>1 DEF TypeOK, End
  <2> QED BY <2>1, <2>2 DEF TypeOK, End
<1> QED BY <1>1, <1>2

LEMMA StutterTypes == TypeOK /\ UNCHANGED vars => TypeOK'
BY DEF TypeOK, vars, given, files, memo, calls

(* Next, by what it does to the stack. *)
LEMMA NextCases ==
  ASSUME Next
  PROVE  \/ \E t \in Files : BuildTarget(t)
         \/ Resume \/ NextList \/ BuildSiblings
         \/ Ends
         \/ NextGoal \/ GoalFails \/ Finish
BY DEF Next, Ends

LEMMA NextTypes == TypeOK /\ CallPending /\ [Next]_vars => TypeOK'
BY NextCases, BuildTargetTypes, FrameStepTypes, EndsTypes, GoalStepTypes, StutterTypes
-----------------------------------------------------------------------------
(* The stack and the memo.                                                 *)

(* There is an answer for p: build_target would not enter it. *)
Met(p) == built[p] # NotBuilt \/ p \in failed_targets

(* The prerequisites of its target a frame still has to call. *)
Waits(f) == IF f.phase = "siblings" THEN {} ELSE Range(f.agenda)

(* Each prerequisite of a frame's target is met or still to be called, and *)
(* a failed one is remembered by the frame.                                *)
FrameProgress(f) ==
  f.phase # "fresh" =>
    \A d \in Range(Needs(f.target)) :
      d \in Waits(f) \/ /\ Met(d.file)
                        /\ d.normal /\ ~f.failed => built[d.file] # NotBuilt

Progress == \A f \in Range(stack) : FrameProgress(f)

(* The siblings a frame will mark are not under way below it. *)
Apart == \A i, j \in DOMAIN stack :
           i <= j => stack[i].target \notin Range(stack[j].siblings)

(* Only a grouped target has siblings to mark. *)
FrameGroup(f) ==
  /\ Range(f.siblings) \subseteq mk.siblings[f.target]
  /\ f.phase \in {"group", "siblings"} => mk.siblings[f.target] # {}

GroupFrames == \A f \in Range(stack) : FrameGroup(f)

(* A result that is returned is in the memo. *)
Answered ==
  pc = "return" /\ stack # <<>> =>
    IF ret = "error" THEN Head(top.agenda).file \in failed_targets
                     ELSE built[Head(top.agenda).file] # NotBuilt

UnderWay == \A t \in building : /\ t \notin failed_targets
                                /\ built[t] # NotBuilt => t \in circular_dropped

StackInv == /\ CallPending /\ RequestChain /\ Apart
            /\ GroupFrames /\ Progress /\ Answered

(* The memo forgets nothing. *)
MemoGrows ==
  /\ mk' = mk /\ failed_targets \subseteq failed_targets'
  /\ circular_dropped \subseteq circular_dropped'
  /\ \A p \in Files : built[p] # NotBuilt => built'[p] # NotBuilt

LEMMA ProgressKept ==
  ASSUME TypeOK, MemoGrows, NEW f \in Frame, FrameProgress(f)
  PROVE  FrameProgress(f)'
<1>1. \A d \in Range(Needs(f.target)) : d.file \in Files
  <2>1. f.target \in Files
    BY DEF Frame
  <2>2. Needs(f.target) \in Seq(Dep)
    BY <2>1, NeedsHold DEF TypeOK
  <2> QED BY <2>2, RangeIn DEF Dep
<1>2. Needs(f.target)' = Needs(f.target)
  BY DEF MemoGrows, Needs, Tagged
<1> QED BY <1>1, <1>2 DEF FrameProgress, Met, Waits, MemoGrows

LEMMA PushStack ==
  ASSUME TypeOK, StackInv, NEW t \in Files, NEW frame \in Frame,
         Calling(t), Unmet(t), Push(frame), frame.target = t,
         frame.phase \in {"single", "group"} => frame.agenda = Needs(t),
         frame.phase # "siblings",
         Range(frame.siblings) \subseteq mk.siblings[t] \ building,
         frame.phase = "group" => mk.siblings[t] # {}
  PROVE  StackInv'
<1> DEFINE n == Len(stack)
<1>1. /\ n \in Nat /\ DOMAIN stack = 1 .. n
      /\ stack' = Append(stack, frame) /\ DOMAIN stack' = 1 .. n + 1
      /\ (\A i \in 1 .. n : stack'[i] = stack[i]) /\ stack'[n + 1] = frame
      /\ stack \in Seq(Frame)
  BY DEF TypeOK, Push
<1>2. /\ pc' = "call" /\ UNCHANGED <<mk, goals, built, failed_targets, circular_dropped>>
      /\ MemoGrows
  BY DEF Push, given, memo, MemoGrows
<1>3. t \notin building /\ t \notin failed_targets /\ built[t] = NotBuilt
  BY DEF Unmet
<1>4. \A i \in 1 .. n : stack[i].target \in building
  BY <1>1 DEF building
<1>5. building' \subseteq building \cup {t}
  BY <1>1 DEF building
<1>6. goals # <<>>
  BY DEF StackInv, CallPending, Calling
<1>7. CallPending' /\ Answered'
  BY <1>2, <1>6 DEF CallPending, Answered
<1>8. RequestChain'
  <2>1. \A i, j \in DOMAIN stack' : stack'[i].target = stack'[j].target => i = j
    BY <1>1, <1>3, <1>4 DEF StackInv, RequestChain
  <2>2. ASSUME NEW i \in DOMAIN stack', i + 1 \in DOMAIN stack'
        PROVE  stack'[i].agenda # <<>> /\ Head(stack'[i].agenda).file = stack'[i + 1].target
    <3>1. CASE i + 1 \in DOMAIN stack
      BY <1>1, <2>2, <3>1 DEF StackInv, RequestChain
    <3>2. CASE i = n
      <4>1. stack # <<>> /\ top = stack[n]
        BY <1>1, <2>2, <3>2 DEF top, Last
      <4> QED BY <1>1, <2>2, <3>2, <4>1 DEF Calling
    <3> QED BY <1>1, <2>2, <3>1, <3>2
  <2>3. \A u \in building' : /\ u \notin failed_targets'
                             /\ built'[u] # NotBuilt => u \in circular_dropped'
    BY <1>2, <1>3, <1>5 DEF StackInv, RequestChain
  <2> QED BY <2>1, <2>2, <2>3 DEF RequestChain
<1>9. Apart'
  <2>1. t \notin mk.siblings[t]
    BY MakefileOK DEF TypeOK
  <2>2. ASSUME NEW i \in 1 .. n + 1, NEW j \in 1 .. n + 1, i <= j
        PROVE  stack'[i].target \notin Range(stack'[j].siblings)
    <3>1. CASE j = n + 1
      BY <1>1, <1>4, <2>1, <2>2, <3>1
    <3>2. CASE j \in 1 .. n /\ i \in 1 .. n
      BY <1>1, <2>2, <3>2 DEF StackInv, Apart
    <3> QED BY <1>1, <2>2, <3>1, <3>2
  <2> QED BY <1>1, <2>2 DEF Apart
<1>10. Range(stack') = Range(stack) \cup {frame}
  BY <1>1, AppendRange
<1>11. GroupFrames'
  <2>1. FrameGroup(frame)'
    BY <1>2 DEF FrameGroup
  <2>2. \A f \in Range(stack) : FrameGroup(f)'
    BY <1>2 DEF StackInv, GroupFrames, FrameGroup
  <2> QED BY <1>10, <2>1, <2>2 DEF GroupFrames
<1>12. Progress'
  <2>1. FrameProgress(frame)'
    <3>1. Needs(t)' = Needs(t)
      BY <1>2 DEF Needs, Tagged
    <3> QED BY <3>1 DEF FrameProgress, Waits, Frame
  <2>2. \A f \in Range(stack) : FrameProgress(f)'
    BY <1>1, <1>2, ProgressKept, RangeIn DEF StackInv, Progress
  <2> QED BY <1>10, <2>1, <2>2 DEF Progress
<1> QED BY <1>7, <1>8, <1>9, <1>11, <1>12 DEF StackInv

(* The call is answered at once. *)
LEMMA AnswerStack ==
  ASSUME TypeOK, StackInv, NEW t \in Files, NEW r, Calling(t), MemoGrows, Return(r),
         UNCHANGED <<stack, goals>>,
         IF r = "error" THEN t \in failed_targets' ELSE built'[t] # NotBuilt,
         \A u \in building : /\ u \notin failed_targets'
                             /\ built'[u] # NotBuilt => u \in circular_dropped'
  PROVE  StackInv'
<1>1. top' = top /\ building' = building
  BY DEF top, building
<1>2. CallPending'
  BY <1>1 DEF StackInv, CallPending, Calling
<1>3. RequestChain'
  BY <1>1 DEF StackInv, RequestChain
<1>4. Apart' /\ GroupFrames'
  BY DEF StackInv, Apart, GroupFrames, FrameGroup, MemoGrows
<1>5. Progress'
  <2>1. \A f \in Range(stack) : FrameProgress(f)'
    BY ProgressKept, RangeIn DEF TypeOK, StackInv, Progress
  <2> QED BY <2>1 DEF Progress
<1>6. Answered'
  BY <1>1 DEF Answered, Calling, Return
<1> QED BY <1>2, <1>3, <1>4, <1>5, <1>6 DEF StackInv

(* The top frame goes on with its lists. *)
LEMMA ReplaceStack ==
  ASSUME TypeOK, StackInv, stack # <<>>, NEW frame \in Frame, ReplaceTop(frame),
         frame.target = top.target, frame.siblings = top.siblings,
         FrameGroup(frame), FrameProgress(frame), pc' = "call",
         UNCHANGED <<mk, goals, built, failed_targets, circular_dropped>>
  PROVE  StackInv'
<1> DEFINE n == Len(stack)
<1>1. /\ n \in Nat \ {0} /\ DOMAIN stack = 1 .. n /\ top = stack[n] /\ stack \in Seq(Frame)
  BY TopFrame DEF TypeOK
<1>2. /\ DOMAIN stack' = 1 .. n /\ stack'[n] = frame
      /\ \A i \in 1 .. n : i # n => stack'[i] = stack[i]
  <2>1. stack' = [stack EXCEPT ![n] = frame] /\ n \in 1 .. n
    BY <1>1 DEF ReplaceTop
  <2>2. /\ stack' \in Seq(Frame) /\ Len(stack') = n
        /\ \A j \in 1 .. n : stack'[j] = IF j = n THEN frame ELSE stack[j]
    BY <1>1, <2>1, ExceptSeq
  <2>3. DOMAIN stack' = 1 .. n
    BY <2>2, LenProperties
  <2> QED BY <2>1, <2>2, <2>3
<1> HIDE DEF n
<1>3. \A i \in 1 .. n : /\ stack'[i].target = stack[i].target
                        /\ stack'[i].siblings = stack[i].siblings
  BY <1>1, <1>2
<1>4. CallPending' /\ Answered'
  BY DEF StackInv, CallPending, Answered
<1>5. building' = building
  BY <1>1, <1>2, <1>3 DEF building
<1>6. RequestChain'
  <2>1. \A i, j \in DOMAIN stack' : stack'[i].target = stack'[j].target => i = j
    BY <1>1, <1>2, <1>3 DEF StackInv, RequestChain
  <2>2. ASSUME NEW i \in DOMAIN stack', i + 1 \in DOMAIN stack'
        PROVE  stack'[i].agenda # <<>> /\ Head(stack'[i].agenda).file = stack'[i + 1].target
    <3>1. i # n /\ i \in DOMAIN stack /\ i + 1 \in DOMAIN stack
      BY <1>1, <1>2, <2>2
    <3>2. stack[i].agenda # <<>> /\ Head(stack[i].agenda).file = stack[i + 1].target
      BY <3>1 DEF StackInv, RequestChain
    <3> QED BY <1>1, <1>2, <1>3, <3>1, <3>2
  <2>3. \A u \in building' : /\ u \notin failed_targets'
                             /\ built'[u] # NotBuilt => u \in circular_dropped'
    BY <1>5 DEF StackInv, RequestChain
  <2> QED BY <2>1, <2>2, <2>3 DEF RequestChain
<1>7. Apart'
  BY <1>1, <1>2, <1>3 DEF StackInv, Apart
<1>8. Range(stack') \subseteq Range(stack) \cup {frame}
  BY <1>1, <1>2 DEF Range
<1>9. GroupFrames'
  <2>1. \A f \in Range(stack) \cup {frame} : FrameGroup(f)'
    BY DEF StackInv, GroupFrames, FrameGroup
  <2> QED BY <1>8, <2>1 DEF GroupFrames
<1>10. Progress'
  <2>1. MemoGrows
    BY DEF MemoGrows
  <2>2. \A f \in Range(stack) \cup {frame} : FrameProgress(f)'
    BY <1>1, <2>1, ProgressKept, RangeIn DEF StackInv, Progress
  <2> QED BY <1>8, <2>2 DEF Progress
<1> QED BY <1>4, <1>6, <1>7, <1>9, <1>10 DEF StackInv

(* What the end of a frame adds to the memo. *)
LEMMA PopMemo ==
  ASSUME TypeOK, stack # <<>>, NEW r \in Results \cup {"error"}, NEW S, Pop(r, S)
  PROVE  /\ top.target \in Files
         /\ failed_targets' = failed_targets \cup (IF r = "error" THEN {top.target} ELSE {})
         /\ \A p \in Files : built'[p] # NotBuilt <=>
              built[p] # NotBuilt \/ p \in S \/ (p = top.target /\ r # "error")
<1>1. top.target \in Files
  BY PopTypes
<1>2. /\ built' = Recording(Covering(built, S), top.target, r)
      /\ failed_targets' = IF r = "error" THEN failed_targets \cup {top.target} ELSE failed_targets
  BY DEF Pop, Record
<1>3. Covering(built, S) = [f \in Files |-> IF f \in S THEN "reused" ELSE built[f]]
  BY DEF Covering
<1>4. r # NotBuilt
  BY DEF Results, NotBuilt
<1>5. ASSUME NEW p \in Files
      PROVE  built'[p] = IF p = top.target /\ r # "error" THEN r
                         ELSE IF p \in S THEN "reused" ELSE built[p]
  BY <1>1, <1>2, <1>3 DEF Recording
<1> QED BY <1>1, <1>2, <1>4, <1>5 DEF NotBuilt

LEMMA PopStack ==
  ASSUME TypeOK, StackInv, stack # <<>>,
         NEW r \in Results \cup {"error"}, NEW S \in {{}, Range(top.siblings)}, Pop(r, S),
         UNCHANGED <<mk, goals, circular_dropped>>
  PROVE  StackInv' /\ MemoGrows /\ top.target \notin building'
<1> DEFINE n == Len(stack)
<1>1. /\ n \in Nat \ {0} /\ DOMAIN stack = 1 .. n /\ top = stack[n] /\ stack \in Seq(Frame)
  BY TopFrame DEF TypeOK
<1>2. /\ DOMAIN stack' = 1 .. n - 1
      /\ \A i \in 1 .. n - 1 : stack'[i] = stack[i]
      /\ stack' \in Seq(Frame) /\ Len(stack') = n - 1
  BY TopFrame DEF TypeOK, Pop
<1> HIDE DEF n
<1>3. pc' = "return" /\ ret' = r
  BY DEF Pop, Return
<1>4. MemoGrows
  BY PopMemo DEF MemoGrows
<1>5. ASSUME NEW i \in 1 .. n - 1
      PROVE  /\ stack[i].target # top.target /\ stack[i].target \notin S
             /\ stack[i].agenda # <<>> /\ Head(stack[i].agenda).file = stack[i + 1].target
  <2>1. i \in DOMAIN stack /\ i + 1 \in DOMAIN stack /\ n \in DOMAIN stack /\ i # n /\ i <= n
    BY <1>1
  <2>2. stack[i].target \notin Range(top.siblings)
    BY <1>1, <2>1 DEF StackInv, Apart
  <2> QED BY <1>1, <2>1, <2>2 DEF StackInv, RequestChain
<1>6. ASSUME NEW u \in building'
      PROVE  /\ u \in building /\ u # top.target /\ u \notin S /\ u \in Files
  <2>1. PICK i \in 1 .. n - 1 : u = stack[i].target
    BY <1>2 DEF building
  <2>2. i \in 1 .. n /\ stack[i] \in Frame
    BY <1>1
  <2> QED BY <1>1, <1>5, <2>1, <2>2 DEF building, Frame
<1>7. stack' # <<>> => top' = stack[n - 1] /\ n - 1 \in 1 .. n - 1
  <2> SUFFICES ASSUME stack' # <<>> PROVE top' = stack[n - 1] /\ n - 1 \in 1 .. n - 1
    OBVIOUS
  <2>1. Len(stack') = n - 1 /\ n - 1 \in 1 .. n - 1
    BY <1>1, <1>2, EmptySeq
  <2> QED BY <1>2, <2>1 DEF top, Last
<1>8. CallPending'
  BY <1>5, <1>7 DEF StackInv, CallPending
<1>9. Answered'
  <2> SUFFICES ASSUME stack' # <<>>
               PROVE  IF r = "error" THEN Head(stack[n - 1].agenda).file \in failed_targets'
                                     ELSE built'[Head(stack[n - 1].agenda).file] # NotBuilt
    BY <1>3, <1>7 DEF Answered
  <2>1. Head(stack[n - 1].agenda).file = top.target
    BY <1>1, <1>5, <1>7
  <2> QED BY <2>1, PopMemo
<1>10. RequestChain'
  <2>1. \A i, j \in DOMAIN stack' : stack'[i].target = stack'[j].target => i = j
    BY <1>1, <1>2 DEF StackInv, RequestChain
  <2>2. ASSUME NEW i \in DOMAIN stack', i + 1 \in DOMAIN stack'
        PROVE  stack'[i].agenda # <<>> /\ Head(stack'[i].agenda).file = stack'[i + 1].target
    BY <1>1, <1>2, <1>5, <2>2
  <2>3. \A u \in building' : /\ u \notin failed_targets'
                             /\ built'[u] # NotBuilt => u \in circular_dropped'
    BY <1>6, PopMemo DEF StackInv, RequestChain
  <2> QED BY <2>1, <2>2, <2>3 DEF RequestChain
<1>11. Apart'
  BY <1>1, <1>2 DEF StackInv, Apart
<1>12. Range(stack') \subseteq Range(stack)
  BY <1>1, <1>2 DEF Range
<1>13. GroupFrames'
  <2>1. \A f \in Range(stack) : FrameGroup(f)'
    BY DEF StackInv, GroupFrames, FrameGroup
  <2> QED BY <1>12, <2>1 DEF GroupFrames
<1>14. Progress'
  <2>1. \A f \in Range(stack) : FrameProgress(f)'
    BY <1>1, <1>4, ProgressKept, RangeIn DEF StackInv, Progress
  <2> QED BY <1>12, <2>1 DEF Progress
<1> QED BY <1>4, <1>6, <1>8, <1>9, <1>10, <1>11, <1>13, <1>14 DEF StackInv

(* A frame's step keeps what it says of the prerequisites. *)
LEMMA ResumeStack ==
  ASSUME TypeOK, StackInv, Resume
  PROVE  StackInv' /\ MemoGrows
<1> DEFINE d == Head(top.agenda)
           rebuilt == top.rebuilt \/ (d.normal /\ ret = "rebuilt")
           failed == top.failed \/ (d.normal /\ ret = "error")
           frame == [top EXCEPT !.agenda = Tail(@), !.rebuilt = rebuilt, !.failed = failed]
<1>1. /\ ReplaceTop(frame) /\ stack # <<>> /\ pc = "return" /\ pc' = "call"
      /\ UNCHANGED <<mk, goals, built, failed_targets, circular_dropped>>
  BY DEF Resume, given, memo
<1>2. top \in Frame /\ top \in Range(stack)
  BY <1>1, TopFrame DEF TypeOK
<1>3. top.agenda \in Seq(Dep) /\ top.agenda # <<>>
  BY <1>1, <1>2 DEF StackInv, CallPending, Frame
<1>4. /\ d \in Dep /\ Tail(top.agenda) \in Seq(Dep)
      /\ Range(top.agenda) = Range(Tail(top.agenda)) \cup {d}
  BY <1>3, TailHolds
<1>5. /\ frame \in Frame /\ frame.target = top.target /\ frame.siblings = top.siblings
      /\ frame.phase = top.phase /\ frame.agenda = Tail(top.agenda) /\ frame.failed = failed
  BY <1>2, <1>4 DEF Frame
<1>6. FrameGroup(frame)
  BY <1>2, <1>5 DEF StackInv, GroupFrames, FrameGroup
<1>7. IF ret = "error" THEN d.file \in failed_targets ELSE built[d.file] # NotBuilt
  BY <1>1 DEF StackInv, Answered
<1>8. FrameProgress(frame)
  <2> HIDE DEF frame, d
  <2> SUFFICES ASSUME frame.phase # "fresh", NEW need \in Range(Needs(top.target))
               PROVE  \/ need \in Waits(frame)
                      \/ /\ Met(need.file)
                         /\ need.normal /\ ~failed => built[need.file] # NotBuilt
    BY <1>5 DEF FrameProgress
  <2>1. \/ need \in Waits(top)
        \/ /\ Met(need.file)
           /\ need.normal /\ ~top.failed => built[need.file] # NotBuilt
    BY <1>2, <1>5 DEF StackInv, Progress, FrameProgress
  <2>2. need \in Waits(top) => need \in Waits(frame) \/ need = d
    BY <1>4, <1>5 DEF Waits
  <2>3. /\ Met(d.file)
        /\ d.normal /\ ~failed => built[d.file] # NotBuilt
    BY <1>7 DEF Met
  <2> QED BY <2>1, <2>2, <2>3
<1>9. StackInv'
  <2> HIDE DEF frame
  <2> QED BY <1>1, <1>5, <1>6, <1>8, ReplaceStack
<1> QED BY <1>1, <1>9 DEF MemoGrows

LEMMA ListStack ==
  ASSUME TypeOK, StackInv, NextList \/ BuildSiblings
  PROVE  StackInv' /\ MemoGrows
<1>1. /\ stack # <<>> /\ top.agenda = <<>> /\ pc' = "call"
      /\ UNCHANGED <<mk, goals, built, failed_targets, circular_dropped>>
  BY DEF NextList, BuildSiblings, Finishing, Listed, given, memo
<1>2. top \in Frame /\ top \in Range(stack)
  BY <1>1, TopFrame DEF TypeOK
<1>3. FrameGroup(top) /\ FrameProgress(top) /\ Waits(top) = {}
  BY <1>1, <1>2 DEF StackInv, GroupFrames, Progress, Waits, Range
<1>4. MemoGrows
  BY <1>1 DEF MemoGrows
<1>5. ASSUME NEW frame, ReplaceTop(frame), frame.target = top.target,
             frame.siblings = top.siblings, frame.failed = top.failed,
             frame.phase = top.phase \/ (top.phase = "group" /\ frame.phase = "siblings")
      PROVE  StackInv'
  <2>1. frame \in Frame
    <3>1. stack' \in Seq(Frame)
      BY <1>1, FrameStepTypes DEF StackInv, TypeOK
    <3>2. Len(stack) \in DOMAIN stack /\ stack'[Len(stack)] = frame /\ DOMAIN stack' = DOMAIN stack
      BY <1>1, <1>5, TopFrame DEF TypeOK, ReplaceTop
    <3> QED BY <3>1, <3>2
  <2>2. FrameGroup(frame)
    BY <1>3, <1>5 DEF FrameGroup
  <2>3. FrameProgress(frame)
    BY <1>3, <1>5 DEF FrameProgress
  <2> QED BY <1>1, <1>5, <2>1, <2>2, <2>3, ReplaceStack
<1>6. CASE NextList
  <2>1. PICK agenda, others : ReplaceTop([top EXCEPT !.agenda = agenda, !.others = others])
    BY <1>6 DEF NextList
  <2> DEFINE frame == [top EXCEPT !.agenda = agenda, !.others = others]
  <2>2. /\ frame.target = top.target /\ frame.siblings = top.siblings
        /\ frame.failed = top.failed /\ frame.phase = top.phase
    BY <1>2 DEF Frame
  <2> HIDE DEF frame
  <2> QED BY <1>4, <1>5, <2>1, <2>2 DEF frame
<1>7. CASE BuildSiblings
  <2>1. PICK others : ReplaceTop([top EXCEPT !.phase = "siblings", !.others = others])
    BY <1>7 DEF BuildSiblings
  <2> DEFINE frame == [top EXCEPT !.phase = "siblings", !.others = others]
  <2>2. /\ frame.target = top.target /\ frame.siblings = top.siblings
        /\ frame.failed = top.failed /\ top.phase = "group" /\ frame.phase = "siblings"
    BY <1>2, <1>7 DEF Frame, BuildSiblings, Finishing
  <2> HIDE DEF frame
  <2> QED BY <1>4, <1>5, <2>1, <2>2 DEF frame
<1> QED BY <1>6, <1>7

(* What has no entry stays unanswered unless it is the target called for.  *)
LEMMA BuildTargetStack ==
  ASSUME TypeOK, StackInv, NEW t \in Files, BuildTarget(t)
  PROVE  StackInv' /\ MemoGrows
<1> USE DEF given, memo
<1>1. CASE Memoized(t)
  <2>1. /\ Calling(t) /\ UNCHANGED <<mk, built, failed_targets, circular_dropped, stack, goals>>
        /\ \E r : Return(r) /\ IF r = "error" THEN t \in failed_targets ELSE built[t] # NotBuilt
    BY <1>1 DEF Memoized, TypeOK, Results, NotBuilt
  <2>2. MemoGrows
    BY <2>1 DEF MemoGrows
  <2> QED BY <2>1, <2>2, AnswerStack DEF StackInv, RequestChain
<1>2. CASE DropCycle(t)
  <2>1. /\ Calling(t) /\ UNCHANGED <<mk, failed_targets, stack, goals>> /\ Return("reused")
        /\ built' = [built EXCEPT ![t] = "reused"] /\ circular_dropped' = circular_dropped \cup {t}
    BY <1>2 DEF DropCycle
  <2>2. MemoGrows /\ built'[t] # NotBuilt
    BY <2>1 DEF MemoGrows, TypeOK, NotBuilt
  <2>3. \A u \in building : /\ u \notin failed_targets'
                            /\ built'[u] # NotBuilt => u \in circular_dropped'
    BY <2>1 DEF StackInv, RequestChain, TypeOK
  <2> QED BY <2>1, <2>2, <2>3, AnswerStack
<1>3. CASE Leaf(t)
  <2>1. PICK r \in {"reused", "error"} : Record(t, r, {}) /\ Return(r)
    BY <1>3 DEF Leaf
  <2>2. Calling(t) /\ t \notin building /\ UNCHANGED <<mk, circular_dropped, stack, goals>>
    BY <1>3 DEF Leaf, Unmet
  <2>3. /\ built' = IF r = "error" THEN built ELSE [built EXCEPT ![t] = r]
        /\ failed_targets' = IF r = "error" THEN failed_targets \cup {t} ELSE failed_targets
    BY <2>1 DEF Record, Recording, Covering, TypeOK
  <2>4. MemoGrows /\ IF r = "error" THEN t \in failed_targets' ELSE built'[t] # NotBuilt
    BY <2>2, <2>3 DEF MemoGrows, TypeOK, NotBuilt
  <2>5. \A u \in building : /\ u \notin failed_targets'
                            /\ built'[u] # NotBuilt => u \in circular_dropped'
    <3>1. \A u \in building : /\ u # t /\ built'[u] = built[u]
                              /\ u \in failed_targets' => u \in failed_targets
      BY <2>2, <2>3 DEF TypeOK
    <3> QED BY <2>2, <3>1 DEF StackInv, RequestChain
  <2> QED BY <2>1, <2>2, <2>4, <2>5, AnswerStack
<1>4. ASSUME NEW frame \in Frame, Push(frame)
      PROVE  MemoGrows
  BY <1>4 DEF Push, MemoGrows
<1>5. Needs(t) \in Seq(Dep) /\ t \in Files /\ IsMakefile(mk)
  BY NeedsHold DEF TypeOK
<1>6. CASE EnterFresh(t)
  <2>1. PICK others \in Seq(Seq(Dep)) :
               Push([NewFrame(t, "fresh") EXCEPT !.agenda = <<>>, !.others = others])
    <3> DEFINE ofDeleted == [i \in DOMAIN mk.prereqs[t] |->
                               IF Skippable(mk, view, mk.prereqs[t][i])
                               THEN OrderOnlyNeeds(mk.prereqs[t][i]) ELSE <<>>]
               frame == [NewFrame(t, "fresh") EXCEPT !.agenda = <<>>,
                           !.others = Append(ofDeleted, OrderOnlyNeeds(t))]
    <3>1. Push(frame)
      BY <1>6 DEF EnterFresh
    <3>2. frame.others = Append(ofDeleted, OrderOnlyNeeds(t))
      <4> HIDE DEF ofDeleted
      <4> QED BY DEF NewFrame
    <3>3. frame \in Frame
      <4> HIDE DEF frame
      <4>1. TypeOK'
        BY <1>6, BuildTargetTypes DEF BuildTarget
      <4>2. stack' = Append(stack, frame) /\ stack \in Seq(Frame) /\ stack' \in Seq(Frame)
        BY <3>1, <4>1 DEF Push, TypeOK
      <4>3. Len(stack) + 1 \in DOMAIN stack' /\ stack'[Len(stack) + 1] = frame
        BY <4>2
      <4> QED BY <4>2, <4>3
    <3>4. Append(ofDeleted, OrderOnlyNeeds(t)) \in Seq(Seq(Dep))
      <4> HIDE DEF frame
      <4> QED BY <3>2, <3>3 DEF Frame
    <3> QED BY <3>1, <3>4
  <2> DEFINE frame == [NewFrame(t, "fresh") EXCEPT !.agenda = <<>>, !.others = others]
  <2>2. frame \in Frame
    BY <1>5, <2>1, FrameTypes
  <2>3. frame.target = t /\ frame.phase = "fresh" /\ frame.siblings = <<>>
    BY DEF NewFrame
  <2>4. Range(frame.siblings) = {}
    BY <2>3 DEF Range
  <2> HIDE DEF frame
  <2>5. Calling(t) /\ Unmet(t) /\ Push(frame)
    BY <1>6, <2>1 DEF EnterFresh, frame
  <2> QED BY <1>4, <2>2, <2>3, <2>4, <2>5, PushStack
<1>7. CASE EnterSingle(t)
  <2> DEFINE frame == NewFrame(t, "single")
  <2>1. frame \in Frame
    BY <1>5, FrameTypes
  <2>2. /\ frame.target = t /\ frame.phase = "single" /\ frame.siblings = <<>>
        /\ frame.agenda = Needs(t)
    BY DEF NewFrame
  <2>3. Range(frame.siblings) = {}
    BY <2>2 DEF Range
  <2> HIDE DEF frame
  <2>4. Calling(t) /\ Unmet(t) /\ Push(frame)
    BY <1>7 DEF EnterSingle, frame
  <2> QED BY <1>4, <2>1, <2>2, <2>3, <2>4, PushStack
<1>8. CASE EnterGroup(t)
  <2>1. PICK order \in SetToSeqs(SiblingsToBuild(t)) :
               Push([NewFrame(t, "group") EXCEPT !.siblings = order])
    BY <1>8 DEF EnterGroup
  <2>2. IsFiniteSet(SiblingsToBuild(t)) /\ SiblingsToBuild(t) \subseteq Files
    BY MakefileOK, FS_Subset DEF TypeOK, SiblingsToBuild
  <2>3. order \in Seq(Files) /\ Range(order) = SiblingsToBuild(t)
    BY <2>2, OrdersOf
  <2>4. SiblingsToBuild(t) # {} /\ SiblingsToBuild(t) \subseteq mk.siblings[t] \ building
    BY <1>8 DEF EnterGroup, SiblingsToBuild
  <2> DEFINE frame == [NewFrame(t, "group") EXCEPT !.siblings = order]
  <2>5. frame \in Frame
    BY <1>5, <2>3, FrameTypes
  <2>6. /\ frame.target = t /\ frame.phase = "group" /\ frame.siblings = order
        /\ frame.agenda = Needs(t)
    BY DEF NewFrame
  <2> HIDE DEF frame
  <2>7. Calling(t) /\ Unmet(t) /\ Push(frame)
    BY <1>8, <2>1 DEF EnterGroup, frame
  <2> QED BY <1>4, <2>3, <2>4, <2>5, <2>6, <2>7, PushStack
<1> QED BY <1>1, <1>2, <1>3, <1>6, <1>7, <1>8 DEF BuildTarget

LEMMA GoalStack ==
  ASSUME TypeOK, StackInv, NextGoal \/ GoalFails \/ Finish
  PROVE  StackInv' /\ MemoGrows
<1>1. /\ stack = <<>> /\ stack' = <<>> /\ pc' \in {"call", "end"}
      /\ UNCHANGED <<mk, built, failed_targets, circular_dropped>>
  BY DEF NextGoal, GoalFails, Finish, End, given, memo
<1>2. DOMAIN stack' = {} /\ Range(stack') = {} /\ building' = {}
  BY <1>1 DEF Range, building
<1>3. CallPending' /\ Answered'
  BY <1>1 DEF CallPending, Answered
<1>4. RequestChain' /\ Apart' /\ GroupFrames' /\ Progress'
  BY <1>2 DEF RequestChain, Apart, GroupFrames, Progress
<1> QED BY <1>1, <1>3, <1>4 DEF StackInv, MemoGrows

LEMMA EndsStack ==
  ASSUME TypeOK, StackInv, Ends
  PROVE  StackInv' /\ MemoGrows /\ top.target \notin building'
<1>1. stack # <<>> /\ UNCHANGED <<mk, goals, circular_dropped>>
  BY EndsPop DEF given
<1>2. PICK r \in Results \cup {"error"}, S \in {{}, Range(top.siblings)} : Pop(r, S)
  BY EndsPop
<1> QED BY <1>1, <1>2, PopStack

LEMMA InitStack == Init => StackInv
<1> SUFFICES ASSUME Init PROVE StackInv
  OBVIOUS
<1>1. stack = <<>> /\ pc = "call"
  BY DEF Init
<1>2. DOMAIN stack = {} /\ Range(stack) = {} /\ building = {}
  BY <1>1 DEF Range, building
<1> QED BY <1>1, <1>2
        DEF StackInv, CallPending, RequestChain, Apart, GroupFrames, Progress, Answered

LEMMA NextStack ==
  ASSUME TypeOK, StackInv, Next
  PROVE  StackInv' /\ MemoGrows
BY NextCases, BuildTargetStack, ResumeStack, ListStack, EndsStack, GoalStack
-----------------------------------------------------------------------------
(* The recipes run.                                                        *)

(* A failed target has an entry in built only for the reasons that         *)
(* NoneBuiltOnFailure names.                                               *)
FailuresKnown ==
  \A p \in failed_targets :
    built[p] # NotBuilt => p \in circular_dropped \/ mk.siblings[p] # {}

(* A target whose recipe ran is not entered again, and all it needs had    *)
(* been answered when it ran.                                              *)
LogMet ==
  \A i \in DOMAIN log :
    LET t == log[i].target
    IN  /\ Met(t) /\ t \notin building
        /\ \A p \in Range(mk.order_only[t]) : Met(p)
        /\ \A p \in Range(mk.prereqs[t]) : built[p] # NotBuilt

LogInv == FailuresKnown /\ LogMet /\ RunsOnce /\ DepthFirst

(* Only what has not been answered is entered. *)
LEMMA BuildingGrows ==
  ASSUME TypeOK, StackInv, Next, NEW u \in building', u \notin building
  PROVE  ~Met(u)
<1>1. CASE \E t \in Files : BuildTarget(t)
  <2>1. PICK t \in Files : BuildTarget(t)
    BY <1>1
  <2>2. \/ UNCHANGED stack
        \/ Unmet(t) /\ \E frame : frame.target = t /\ stack' = Append(stack, frame)
    <3>1. CASE Memoized(t) \/ DropCycle(t) \/ Leaf(t)
      BY <3>1 DEF Memoized, DropCycle, Leaf
    <3>2. CASE EnterFresh(t)
      BY <3>2 DEF EnterFresh, Push, NewFrame
    <3>3. CASE EnterSingle(t)
      BY <3>3 DEF EnterSingle, Push, NewFrame
    <3>4. CASE EnterGroup(t)
      BY <3>4 DEF EnterGroup, Push, NewFrame
    <3> QED BY <2>1, <3>1, <3>2, <3>3, <3>4 DEF BuildTarget
  <2>3. UNCHANGED stack => building' = building
    BY DEF building
  <2>4. ASSUME Unmet(t), NEW frame, frame.target = t, stack' = Append(stack, frame)
        PROVE  ~Met(u)
    <3>1. building' \subseteq building \cup {t}
      <4>1. /\ Len(stack) \in Nat /\ DOMAIN stack = 1 .. Len(stack)
            /\ DOMAIN stack' = 1 .. Len(stack) + 1
            /\ \A i \in 1 .. Len(stack) : stack'[i] = stack[i]
            /\ stack'[Len(stack) + 1] = frame
        BY <2>4 DEF TypeOK
      <4> QED BY <2>4, <4>1 DEF building
    <3> QED BY <2>4, <3>1 DEF Unmet, Met
  <2> QED BY <2>2, <2>3, <2>4
<1>2. CASE Resume \/ NextList \/ BuildSiblings
  <2>1. PICK frame : ReplaceTop(frame) /\ frame.target = top.target /\ stack # <<>>
    <3>1. stack # <<>>
      BY <1>2 DEF Resume, NextList, BuildSiblings, Finishing, Listed
    <3>2. top \in Frame
      BY <3>1, TopFrame DEF TypeOK
    <3>3. CASE Resume
      <4>1. PICK rebuilt, failed :
              ReplaceTop([top EXCEPT !.agenda = Tail(@), !.rebuilt = rebuilt, !.failed = failed])
        <5> DEFINE rebuilt == top.rebuilt \/ (Head(top.agenda).normal /\ ret = "rebuilt")
                   failed == top.failed \/ (Head(top.agenda).normal /\ ret = "error")
        <5>1. ReplaceTop([top EXCEPT !.agenda = Tail(@), !.rebuilt = rebuilt, !.failed = failed])
          BY <3>3 DEF Resume
        <5> HIDE DEF rebuilt, failed
        <5> QED BY <5>1
      <4>2. [top EXCEPT !.agenda = Tail(@), !.rebuilt = rebuilt, !.failed = failed].target
              = top.target
        BY <3>2 DEF Frame
      <4> QED BY <3>1, <4>1, <4>2
    <3>4. CASE NextList
      <4>1. [top EXCEPT !.agenda = Head(top.others), !.others = Tail(@)].target = top.target
        BY <3>2 DEF Frame
      <4> QED BY <3>1, <3>4, <4>1 DEF NextList
    <3>5. CASE BuildSiblings
      <4>1. PICK others : ReplaceTop([top EXCEPT !.phase = "siblings", !.others = others])
        BY <3>5 DEF BuildSiblings
      <4>2. [top EXCEPT !.phase = "siblings", !.others = others].target = top.target
        BY <3>2 DEF Frame
      <4> QED BY <3>1, <4>1, <4>2
    <3> QED BY <1>2, <3>3, <3>4, <3>5
  <2>2. building' \subseteq building
    <3>1. Len(stack) \in DOMAIN stack /\ top = stack[Len(stack)]
      BY <2>1, TopFrame DEF TypeOK
    <3>2. DOMAIN stack' = DOMAIN stack /\ \A i \in DOMAIN stack : stack'[i].target = stack[i].target
      BY <2>1, <3>1 DEF ReplaceTop
    <3> QED BY <3>2 DEF building
  <2> QED BY <2>2
<1>3. CASE Ends
  <2>1. stack # <<>> /\ stack' = Front(stack)
    BY <1>3, EndsPop DEF Pop
  <2>2. building' \subseteq building
    <3>1. /\ DOMAIN stack = 1 .. Len(stack) /\ Len(stack) \in Nat
          /\ DOMAIN stack' = 1 .. Len(stack) - 1
          /\ \A i \in 1 .. Len(stack) - 1 : stack'[i] = stack[i]
      BY <2>1, TopFrame DEF TypeOK
    <3>2. DOMAIN stack' \subseteq DOMAIN stack /\ \A i \in DOMAIN stack' : stack'[i] = stack[i]
      BY <3>1
    <3> QED BY <3>2 DEF building
  <2> QED BY <2>2
<1>4. CASE NextGoal \/ GoalFails \/ Finish
  <2>1. UNCHANGED stack
    BY <1>4 DEF NextGoal, GoalFails, Finish, End
  <2> QED BY <2>1 DEF building
<1> QED BY <1>1, <1>2, <1>3, <1>4, NextCases

(* A recipe is logged when its target ends. *)
LEMMA LogStep ==
  ASSUME Next
  PROVE  \/ UNCHANGED log
         \/ /\ Ends /\ Deciding
            /\ \/ RecipeFails /\ Logged(top.target, FALSE)
               \/ RunRecipe /\ Logged(top.target, TRUE)
<1>1. CASE \E t \in Files : BuildTarget(t)
  BY <1>1 DEF BuildTarget, Memoized, DropCycle, Leaf, EnterFresh, EnterSingle, EnterGroup, Push
<1>2. CASE Resume \/ NextList \/ BuildSiblings
  BY <1>2 DEF Resume, NextList, BuildSiblings
<1>3. CASE Abandon \/ FinishFresh \/ FailPrereqs \/ NoRecipe \/ Skip \/ RunEmpty
  BY <1>3 DEF Abandon, FinishFresh, FailPrereqs, NoRecipe, Skip, RunEmpty
<1>4. CASE RunRecipe
  BY <1>4 DEF RunRecipe, Ends
<1>5. CASE RecipeFails
  BY <1>5 DEF RecipeFails, Ends
<1>6. CASE NextGoal \/ GoalFails \/ Finish
  BY <1>6 DEF NextGoal, GoalFails, Finish, End
<1> QED BY <1>1, <1>2, <1>3, <1>4, <1>5, <1>6 DEF Next

(* The memo of failures when a frame ends. *)
LEMMA FailuresEnd ==
  ASSUME TypeOK, StackInv, FailuresKnown, Ends
  PROVE  FailuresKnown'
<1>1. stack # <<>> /\ UNCHANGED <<mk, circular_dropped>>
  BY EndsPop DEF given
<1>2. PICK r \in Results \cup {"error"}, S \in {{}, Range(top.siblings)} : Pop(r, S)
  BY EndsPop
<1>3. top \in Range(stack) /\ top.target \in building
  <2>1. top \in Range(stack) /\ Len(stack) \in DOMAIN stack /\ top = stack[Len(stack)]
    BY <1>1, TopFrame DEF TypeOK
  <2> QED BY <2>1 DEF building
<1>4. /\ top.target \notin failed_targets
      /\ built[top.target] # NotBuilt => top.target \in circular_dropped
  BY <1>3 DEF StackInv, RequestChain
<1>5. \A p \in S : p \in mk.siblings[top.target]
  BY <1>3 DEF StackInv, GroupFrames, FrameGroup
<1>6. top.target \in Files
  BY <1>1, <1>2, PopMemo
<1>7. \A p \in S : top.target \in mk.siblings[p]
  BY <1>5, <1>6 DEF TypeOK, IsMakefile
<1>8. ASSUME NEW p \in failed_targets', built'[p] # NotBuilt
      PROVE  p \in circular_dropped \/ mk.siblings[p] # {}
  <2>1. p \in Files /\ (p \in failed_targets \/ (p = top.target /\ r = "error"))
    <3>1. failed_targets' = failed_targets \cup (IF r = "error" THEN {top.target} ELSE {})
      BY <1>1, <1>2, PopMemo
    <3> QED BY <1>6, <1>8, <3>1 DEF TypeOK
  <2>2. built[p] # NotBuilt \/ p \in S \/ (p = top.target /\ r # "error")
    BY <1>1, <1>2, <1>8, <2>1, PopMemo
  <2> QED BY <1>4, <1>7, <2>1, <2>2 DEF FailuresKnown
<1> QED BY <1>1, <1>8 DEF FailuresKnown

LEMMA FailuresStep ==
  ASSUME TypeOK, StackInv, FailuresKnown, Next
  PROVE  FailuresKnown'
<1> USE DEF given, memo
<1>1. ASSUME UNCHANGED <<mk, built, failed_targets, circular_dropped>>
      PROVE  FailuresKnown'
  BY <1>1 DEF FailuresKnown
<1>2. ASSUME NEW t \in Files, DropCycle(t)
      PROVE  FailuresKnown'
  BY <1>2 DEF FailuresKnown, DropCycle, TypeOK
<1>3. ASSUME NEW t \in Files, Leaf(t)
      PROVE  FailuresKnown'
  <2>1. PICK r \in {"reused", "error"} : Record(t, r, {})
    BY <1>3 DEF Leaf
  <2>2. /\ built' = IF r = "error" THEN built ELSE [built EXCEPT ![t] = r]
        /\ failed_targets' = IF r = "error" THEN failed_targets \cup {t} ELSE failed_targets
    BY <2>1 DEF Record, Recording, Covering, TypeOK
  <2>3. t \notin failed_targets /\ built[t] = NotBuilt /\ UNCHANGED <<mk, circular_dropped>>
    BY <1>3 DEF Leaf, Unmet
  <2> QED BY <2>2, <2>3 DEF FailuresKnown, TypeOK
<1>4. ASSUME NEW t \in Files, Memoized(t) \/ EnterFresh(t) \/ EnterSingle(t) \/ EnterGroup(t)
      PROVE  FailuresKnown'
  BY <1>1, <1>4 DEF Memoized, EnterFresh, EnterSingle, EnterGroup, Push
<1>5. CASE Resume \/ NextList \/ BuildSiblings
  BY <1>1, <1>5 DEF Resume, NextList, BuildSiblings
<1>6. CASE NextGoal \/ GoalFails \/ Finish
  BY <1>1, <1>6 DEF NextGoal, GoalFails, Finish, End
<1> QED BY <1>2, <1>3, <1>4, <1>5, <1>6, NextCases, FailuresEnd DEF BuildTarget

(* Met, after the step. *)
MetNext(p) == built'[p] # NotBuilt \/ p \in failed_targets'

(* What a logged recipe's target needs are files. *)
LEMMA NeedsAreFiles ==
  ASSUME TypeOK, NEW i \in DOMAIN log
  PROVE  /\ log[i].target \in Files
         /\ Range(mk.prereqs[log[i].target]) \subseteq Files
         /\ Range(mk.order_only[log[i].target]) \subseteq Files
<1>1. log[i].target \in Files
  <2>1. Range(log) \subseteq [target : Files, ok : BOOLEAN]
    BY RangeIn DEF TypeOK
  <2>2. log[i] \in [target : Files, ok : BOOLEAN]
    BY <2>1 DEF Range
  <2> QED BY <2>2
<1> QED BY <1>1, MakefileOK, RangeIn DEF TypeOK

(* The recipes already run, after any step. *)
LEMMA LoggedStay ==
  ASSUME TypeOK, StackInv, LogInv, Next, NEW i \in DOMAIN log
  PROVE  LET t == log[i].target
         IN  /\ MetNext(t) /\ t \notin building'
             /\ \A p \in Range(mk.order_only[t]) : MetNext(p)
             /\ \A p \in Range(mk.prereqs[t]) : built'[p] # NotBuilt
<1> DEFINE t == log[i].target
<1>1. /\ Met(t) /\ t \notin building
      /\ \A p \in Range(mk.order_only[t]) : Met(p)
      /\ \A p \in Range(mk.prereqs[t]) : built[p] # NotBuilt
  BY DEF LogInv, LogMet
<1>2. MemoGrows
  BY NextStack
<1>3. \A p \in Files : Met(p) => MetNext(p)
  BY <1>2 DEF MemoGrows, Met, MetNext
<1>4. t \notin building'
  BY <1>1, BuildingGrows
<1> QED BY <1>1, <1>2, <1>3, <1>4, NeedsAreFiles DEF MemoGrows

(* The recipe that runs. *)
LEMMA LoggedNew ==
  ASSUME TypeOK, StackInv, Ends, Deciding
  PROVE  LET t == top.target
         IN  /\ t \in Files /\ t \in building
             /\ t \notin failed_targets
             /\ built[t] # NotBuilt => t \in circular_dropped
             /\ MetNext(t) /\ t \notin building' /\ mk' = mk
             /\ \A p \in Range(mk.order_only[t]) : MetNext(p)
             /\ \A p \in Range(mk.prereqs[t]) : built'[p] # NotBuilt
<1> DEFINE t == top.target
<1>1. /\ stack # <<>> /\ top.agenda = <<>> /\ ~top.failed
      /\ top.phase \in {"single", "siblings"}
  BY DEF Deciding, Finishing, Listed
<1>2. /\ top \in Range(stack) /\ Len(stack) \in DOMAIN stack /\ top = stack[Len(stack)]
      /\ top \in Frame
  BY <1>1, TopFrame DEF TypeOK
<1>3. t \in Files /\ t \in building
  BY <1>2 DEF building, Frame
<1>4. t \notin failed_targets /\ (built[t] # NotBuilt => t \in circular_dropped)
  BY <1>3 DEF StackInv, RequestChain
<1>5. MemoGrows /\ t \notin building'
  BY EndsStack
<1>6. MetNext(t)
  <2>1. PICK r \in Results \cup {"error"}, S \in {{}, Range(top.siblings)} : Pop(r, S)
    BY EndsPop
  <2> QED BY <1>1, <1>3, <2>1, PopMemo DEF MetNext
<1>7. ASSUME NEW need \in Range(Needs(t))
      PROVE  Met(need.file) /\ (need.normal => built[need.file] # NotBuilt)
  <2>1. Waits(top) = {}
    BY <1>1 DEF Waits, Range
  <2> QED BY <1>1, <1>2, <1>7, <2>1 DEF StackInv, Progress, FrameProgress
<1>8. \A p \in Range(mk.order_only[t]) : p \in Files /\ Met(p)
  <2>1. \A p \in Range(mk.order_only[t]) : [file |-> p, normal |-> FALSE] \in Range(Needs(t))
    BY <1>3, NeedsHold DEF TypeOK
  <2>2. Range(mk.order_only[t]) \subseteq Files
    BY <1>3, MakefileOK, RangeIn DEF TypeOK
  <2> QED BY <1>7, <2>1, <2>2
<1>9. \A p \in Range(mk.prereqs[t]) : p \in Files /\ built[p] # NotBuilt
  <2>1. \A p \in Range(mk.prereqs[t]) : [file |-> p, normal |-> TRUE] \in Range(Needs(t))
    BY <1>3, NeedsHold DEF TypeOK
  <2>2. Range(mk.prereqs[t]) \subseteq Files
    BY <1>3, MakefileOK, RangeIn DEF TypeOK
  <2> QED BY <1>7, <2>1, <2>2
<1>10. \A p \in Files : Met(p) => MetNext(p)
  BY <1>5 DEF MemoGrows, Met, MetNext
<1> QED BY <1>3, <1>4, <1>5, <1>6, <1>8, <1>9, <1>10 DEF MemoGrows

LEMMA NextLog ==
  ASSUME TypeOK, StackInv, LogInv, Next
  PROVE  LogInv'
<1>1. FailuresKnown'
  BY FailuresStep DEF LogInv
<1>2. MemoGrows
  BY NextStack
<1>3. CASE UNCHANGED log
  <2>1. LogMet'
    BY <1>2, <1>3, LoggedStay DEF LogMet, MemoGrows, Met, MetNext
  <2>2. RunsOnce' /\ DepthFirst'
    BY <1>2, <1>3 DEF LogInv, RunsOnce, DepthFirst, MemoGrows
  <2> QED BY <1>1, <2>1, <2>2 DEF LogInv
<1>4. CASE ~UNCHANGED log
  <2> DEFINE n == Len(log)
             t == top.target
  <2>1. Ends /\ Deciding /\ \E ok : Logged(t, ok)
    BY <1>4, LogStep
  <2>2. /\ n \in Nat /\ DOMAIN log = 1 .. n /\ DOMAIN log' = 1 .. n + 1
        /\ \A i \in 1 .. n : log'[i] = log[i]
        /\ log'[n + 1].target = t
    BY <2>1 DEF Logged, TypeOK
  <2> HIDE DEF n
  <2>3. LogMet'
    <3>1. ASSUME NEW i \in DOMAIN log'
          PROVE  LET u == log'[i].target
                 IN  /\ MetNext(u) /\ u \notin building'
                     /\ \A p \in Range(mk.order_only[u]) : MetNext(p)
                     /\ \A p \in Range(mk.prereqs[u]) : built'[p] # NotBuilt
      <4>1. CASE i = n + 1
        BY <2>1, <2>2, <4>1, LoggedNew
      <4>2. CASE i \in 1 .. n
        BY <2>2, <4>2, LoggedStay
      <4> QED BY <2>2, <3>1, <4>1, <4>2
    <3> QED BY <1>2, <3>1 DEF LogMet, MemoGrows, Met, MetNext
  <2>4. \A i \in 1 .. n : log[i].target # t
    BY <2>1, <2>2, LoggedNew DEF LogInv, LogMet
  <2>5. RunsOnce'
    BY <2>2, <2>4 DEF LogInv, RunsOnce
  <2>6. DepthFirst'
    <3>1. ASSUME NEW i \in 1 .. n, t \in Range(mk.prereqs[log[i].target])
                                           \cup Range(mk.order_only[log[i].target])
          PROVE  t \in circular_dropped'
      <4>1. Met(t)
        BY <2>2, <3>1 DEF LogInv, LogMet, Met
      <4>2. t \in circular_dropped
        BY <2>1, <4>1, LoggedNew DEF Met
      <4> QED BY <1>2, <4>2 DEF MemoGrows
    <3>2. ASSUME NEW i \in 1 .. n + 1, NEW j \in 1 .. n + 1, i < j
          PROVE  \/ log'[j].target \notin Range(mk.prereqs[log'[i].target])
                                             \cup Range(mk.order_only[log'[i].target])
                 \/ log'[j].target \in circular_dropped'
      <4>1. i \in 1 .. n /\ log'[i] = log[i]
        BY <2>2, <3>2
      <4>2. CASE j = n + 1
        BY <2>2, <3>1, <4>1, <4>2
      <4>3. CASE j \in 1 .. n
        BY <1>2, <2>2, <3>2, <4>1, <4>3 DEF LogInv, DepthFirst, MemoGrows
      <4> QED BY <2>2, <4>2, <4>3
    <3> QED BY <1>2, <2>2, <3>2 DEF DepthFirst, MemoGrows
  <2> QED BY <1>1, <2>3, <2>5, <2>6 DEF LogInv
<1> QED BY <1>3, <1>4
-----------------------------------------------------------------------------
(* Files.                                                                  *)

(* What the end of the build knows of the recipes run. *)
EndKnown == pc = "end" <=> outcome # "none"

Noted ==
  outcome = "none" =>
    \A i \in DOMAIN log :
      LET t == log[i].target
      IN  log[i].ok /\ mk.siblings[t] = {} /\ t \in mk.intermediate => t \in intermediate_built

EndInv == EndKnown /\ Noted /\ IntermediatesRemoved /\ CacheFresh

LEMMA EndStep ==
  ASSUME TypeOK, EndKnown, Next
  PROVE  /\ outcome = "none"
         /\ \/ UNCHANGED outcome /\ pc' # "end" /\ intermediate_built \subseteq intermediate_built'
            \/ /\ \E result \in {"ok", "error"} : End(result)
               /\ outcome' # "none" /\ pc' = "end"
<1> USE DEF given, memo
<1>1. CASE \E t \in Files : BuildTarget(t)
  BY <1>1 DEF BuildTarget, Memoized, DropCycle, Leaf, EnterFresh, EnterSingle, EnterGroup,
              Push, Return, Calling, EndKnown
<1>2. CASE Resume \/ NextList \/ BuildSiblings
  BY <1>2 DEF Resume, NextList, BuildSiblings, Finishing, Listed, EndKnown
<1>3. CASE Ends
  <2>1. UNCHANGED outcome /\ pc' = "return"
    BY <1>3, EndsPop DEF Pop, Return
  <2>2. pc # "end"
    BY <1>3 DEF Ends, Abandon, FinishFresh, FailPrereqs, NoRecipe, Skip, RunEmpty,
                RunRecipe, RecipeFails, Deciding, Finishing, Listed
  <2>3. intermediate_built \subseteq intermediate_built'
    BY <1>3 DEF Ends, Abandon, FinishFresh, FailPrereqs, NoRecipe, Skip, RunEmpty,
                RunRecipe, RecipeFails
  <2> QED BY <2>1, <2>2, <2>3 DEF EndKnown
<1>4. CASE NextGoal
  BY <1>4 DEF NextGoal, EndKnown
<1>5. CASE GoalFails \/ Finish
  <2>1. pc # "end" /\ \E result \in {"ok", "error"} : End(result)
    BY <1>5 DEF GoalFails, Finish
  <2> QED BY <2>1 DEF End, EndKnown
<1> QED BY <1>1, <1>2, <1>3, <1>4, <1>5, NextCases

LEMMA NextNoted ==
  ASSUME TypeOK, StackInv, EndKnown, Noted, Next
  PROVE  Noted'
<1> SUFFICES ASSUME outcome' = "none", NEW i \in DOMAIN log',
                    log'[i].ok, mk'.siblings[log'[i].target] = {},
                    log'[i].target \in mk'.intermediate
             PROVE  log'[i].target \in intermediate_built'
  BY DEF Noted
<1>1. outcome = "none" /\ intermediate_built \subseteq intermediate_built'
  BY EndStep
<1>2. mk' = mk
  BY NextStack DEF MemoGrows
<1>3. CASE i \in DOMAIN log /\ log'[i] = log[i]
  BY <1>1, <1>2, <1>3 DEF Noted
<1>4. CASE ~(i \in DOMAIN log /\ log'[i] = log[i])
  <2>1. PICK ok : Logged(top.target, ok) /\ (ok => RunRecipe) /\ Deciding
    BY <1>4, LogStep
  <2>2. log'[i] = [target |-> top.target, ok |-> ok]
    <3>1. /\ log' = Append(log, [target |-> top.target, ok |-> ok])
          /\ Len(log) \in Nat /\ DOMAIN log = 1 .. Len(log)
          /\ DOMAIN log' = 1 .. Len(log) + 1
          /\ \A j \in 1 .. Len(log) : log'[j] = log[j]
          /\ log'[Len(log) + 1] = [target |-> top.target, ok |-> ok]
      BY <2>1 DEF Logged, TypeOK
    <3> QED BY <1>4, <3>1
  <2>3. RunRecipe /\ mk.siblings[top.target] = {} /\ top.target \in mk.intermediate
    BY <1>2, <2>1, <2>2
  <2>4. stack # <<>> /\ top.phase \in {"single", "siblings"}
    BY <2>1 DEF Deciding, Finishing, Listed
  <2>5. FrameGroup(top)
    BY <2>4, TopFrame DEF TypeOK, StackInv, GroupFrames
  <2>6. top.phase = "single"
    BY <2>3, <2>4, <2>5 DEF FrameGroup
  <2> QED BY <2>2, <2>3, <2>6 DEF RunRecipe
<1> QED BY <1>3, <1>4

LEMMA NextRemoved ==
  ASSUME TypeOK, StackInv, EndKnown, Noted, Next
  PROVE  IntermediatesRemoved'
<1>1. CASE UNCHANGED outcome
  BY <1>1, EndStep DEF IntermediatesRemoved
<1>2. CASE ~UNCHANGED outcome
  <2>1. PICK result : End(result)
    BY <1>2, EndStep
  <2>2. /\ UNCHANGED <<mk, log>> /\ outcome = "none"
        /\ disk' = [f \in Files |->
             IF f \in intermediate_built \ (Range(mk.goals) \cup mk.phony) THEN 0 ELSE disk[f]]
    BY <2>1, EndStep DEF End, given
  <2>3. \A i \in DOMAIN log : log[i].target \in Files
    BY NeedsAreFiles
  <2> QED BY <2>2, <2>3 DEF Noted, IntermediatesRemoved
<1> QED BY <1>1, <1>2

(* What a step does to the disk and to the remembered times. *)
LEMMA FilesStep ==
  ASSUME Next
  PROVE  \/ /\ UNCHANGED disk
            /\ UNCHANGED mtime_cache \/ \E R : mtime_cache' = Remembering(R)
         \/ \E t, R : /\ disk' = Touching(mk.writes[t])
                      /\ mtime_cache' = Evicting(Remembering(R), t)
                      /\ t = top.target /\ Ends
         \/ \E t, R : /\ \E W \in {{}, mk.writes[t]} :
                           disk' \in {Touching(W), [Touching(W) EXCEPT ![t] = 0]}
                      /\ mtime_cache' = Remembering(R)
                      /\ t = top.target /\ t \in failed_targets' /\ Ends
         \/ \E result \in {"ok", "error"} : End(result)
<1> USE DEF given, files, memo
<1>1. CASE \E t \in Files : BuildTarget(t)
  <2>1. PICK t \in Files : BuildTarget(t)
    BY <1>1
  <2>2. CASE Memoized(t) \/ DropCycle(t) \/ Leaf(t)
    BY <2>2 DEF Memoized, DropCycle, Leaf
  <2>3. CASE EnterFresh(t)
    BY <2>3 DEF EnterFresh, Push
  <2>4. CASE EnterSingle(t)
    BY <2>4 DEF EnterSingle, Push
  <2>5. CASE EnterGroup(t)
    BY <2>5 DEF EnterGroup, Push
  <2> QED BY <2>1, <2>2, <2>3, <2>4, <2>5 DEF BuildTarget
<1>2. CASE Resume \/ NextList \/ BuildSiblings
  BY <1>2 DEF Resume, NextList, BuildSiblings
<1>3. CASE Abandon \/ FinishFresh \/ FailPrereqs \/ NoRecipe
  BY <1>3 DEF Abandon, FinishFresh, FailPrereqs, NoRecipe
<1>4. CASE Skip \/ RunEmpty
  BY <1>4 DEF Skip, RunEmpty
<1>5. CASE RunRecipe
  BY <1>5 DEF RunRecipe, Ends
<1>6. CASE RecipeFails
  BY <1>6 DEF RecipeFails, Ends, Pop, Record
<1>7. CASE NextGoal
  BY <1>7 DEF NextGoal
<1>8. CASE GoalFails \/ Finish
  BY <1>8 DEF GoalFails, Finish
<1> QED BY <1>1, <1>2, <1>3, <1>4, <1>5, <1>6, <1>7, <1>8 DEF Next

LEMMA NextFresh ==
  ASSUME TypeOK, StackInv, EndKnown, CacheFresh, Next
  PROVE  CacheFresh'
<1> SUFFICES ASSUME OwnOutput, outcome' = "none", NEW f \in Files, f \notin failed_targets'
             PROVE  mtime_cache'[f] \in {Unread, disk'[f]}
  <2>1. mk' = mk
    BY NextStack DEF MemoGrows
  <2> QED BY <2>1 DEF CacheFresh, OwnOutput
<1>1. mtime_cache[f] \in {Unread, disk[f]}
  <2>1. f \notin failed_targets /\ outcome = "none"
    BY NextStack, EndStep DEF MemoGrows
  <2> QED BY <2>1 DEF CacheFresh
<1>2. ASSUME NEW R
      PROVE  /\ Remembering(R)[f] \in {Unread, disk[f]}
             /\ Remembering(R) \in [Files -> Nat \cup {Unread}]
  <2>1. view[f] = disk[f]
    BY <1>1 DEF view
  <2>2. Remembering(R)[f] = IF f \in R THEN view[f] ELSE mtime_cache[f]
    BY DEF Remembering
  <2>3. Remembering(R) \in [Files -> Nat \cup {Unread}]
    <3>1. view \in [Files -> Nat]
      BY DEF TypeOK, view, Unread
    <3> QED BY <3>1 DEF TypeOK, Remembering
  <2> QED BY <1>1, <2>1, <2>2, <2>3
<1>3. CASE UNCHANGED disk /\ (UNCHANGED mtime_cache \/ \E R : mtime_cache' = Remembering(R))
  BY <1>1, <1>2, <1>3
<1>4. ASSUME Ends
      PROVE  top.target \in Files /\ mk.writes[top.target] \subseteq {top.target}
  <2>1. top.target \in Files
    BY <1>4, EndsPop, PopMemo
  <2> QED BY <2>1 DEF OwnOutput
<1>5. ASSUME NEW t, NEW R, t = top.target, Ends,
             disk' = Touching(mk.writes[t]), mtime_cache' = Evicting(Remembering(R), t)
      PROVE  mtime_cache'[f] \in {Unread, disk'[f]}
  <2>1. CASE f = t
    BY <1>2, <1>5, <2>1 DEF Evicting
  <2>2. CASE f # t
    <3>1. disk'[f] = disk[f]
      BY <1>4, <1>5, <2>2 DEF Touching
    <3>2. mtime_cache'[f] = Remembering(R)[f]
      BY <1>2, <1>5, <2>2 DEF Evicting
    <3> QED BY <1>2, <3>1, <3>2
  <2> QED BY <2>1, <2>2
<1>6. ASSUME NEW t, NEW R, NEW W \in {{}, mk.writes[t]}, t = top.target, Ends,
             t \in failed_targets', mtime_cache' = Remembering(R),
             disk' \in {Touching(W), [Touching(W) EXCEPT ![t] = 0]}
      PROVE  mtime_cache'[f] \in {Unread, disk'[f]}
  <2>1. f # t /\ f \notin W
    BY <1>4, <1>6
  <2>2. disk'[f] = disk[f]
    BY <1>6, <2>1 DEF Touching
  <2> QED BY <1>2, <1>6, <2>2
<1>7. ASSUME NEW result \in {"ok", "error"}, End(result)
      PROVE  FALSE
  BY <1>7 DEF End
<1> QED BY <1>3, <1>5, <1>6, <1>7, FilesStep

LEMMA NextEnd ==
  ASSUME TypeOK, StackInv, EndInv, Next
  PROVE  EndInv'
<1>1. EndKnown'
  BY EndStep DEF EndInv, EndKnown
<1> QED BY <1>1, NextNoted, NextRemoved, NextFresh DEF EndInv
-----------------------------------------------------------------------------
(* The inductive invariant.                                                *)

IInv == TypeOK /\ StackInv /\ LogInv /\ EndInv

LEMMA InitIInv == Init => IInv
<1> SUFFICES ASSUME Init PROVE IInv
  OBVIOUS
<1>1. TypeOK /\ StackInv
  BY InitTypes, InitStack
<1>2. /\ log = <<>> /\ failed_targets = {} /\ outcome = "none" /\ pc = "call"
      /\ mtime_cache = [f \in Files |-> Unread]
  BY DEF Init
<1>3. DOMAIN log = {}
  BY <1>2
<1>4. LogInv
  BY <1>2, <1>3 DEF LogInv, FailuresKnown, LogMet, RunsOnce, DepthFirst
<1>5. EndInv
  BY <1>2, <1>3 DEF EndInv, EndKnown, Noted, IntermediatesRemoved, CacheFresh
<1> QED BY <1>1, <1>4, <1>5 DEF IInv

LEMMA NextIInv == IInv /\ [Next]_vars => IInv'
<1>1. ASSUME IInv, Next PROVE IInv'
  <2>1. TypeOK'
    BY <1>1, NextTypes DEF IInv, StackInv
  <2>2. StackInv'
    BY <1>1, NextStack DEF IInv
  <2> QED BY <1>1, <2>1, <2>2, NextLog, NextEnd DEF IInv
<1>2. ASSUME IInv, UNCHANGED vars PROVE IInv'
  <2> USE <1>2 DEF vars, given, files, memo, calls
  <2>1. TypeOK'
    BY StutterTypes DEF IInv
  <2>2. top' = top /\ building' = building
    BY DEF top, building
  <2>3. CallPending' /\ RequestChain' /\ Answered'
    BY <2>2 DEF IInv, StackInv, CallPending, RequestChain, Answered
  <2>4. Apart' /\ GroupFrames'
    BY DEF IInv, StackInv, Apart, GroupFrames, FrameGroup
  <2>5. Progress'
    <3>1. MemoGrows
      BY DEF MemoGrows
    <3>2. \A f \in Range(stack) : FrameProgress(f)'
      BY <3>1, ProgressKept, RangeIn DEF IInv, TypeOK, StackInv, Progress
    <3> QED BY <3>2 DEF Progress
  <2>6. LogInv'
    BY <2>2 DEF IInv, LogInv, FailuresKnown, LogMet, RunsOnce, DepthFirst, Met
  <2>7. EndInv'
    BY DEF IInv, EndInv, EndKnown, Noted, IntermediatesRemoved, CacheFresh, OwnOutput
  <2> QED BY <2>1, <2>3, <2>4, <2>5, <2>6, <2>7 DEF IInv, StackInv
<1> QED BY <1>1, <1>2

THEOREM Invariant == Spec => []IInv
BY InitIInv, NextIInv, PTL DEF Spec

(* The state keeps its types through every walk over every makefile.       *)
THEOREM Types == Spec => []TypeOK
<1>1. IInv => TypeOK
  BY DEF IInv
<1> QED BY <1>1, Invariant, PTL

(* Whatever the makefile, its cycles included, the call stack is a chain   *)
(* of requests on which no target is twice, and build_target never enters  *)
(* one that has been answered.                                             *)
THEOREM Chain == Spec => []RequestChain
<1>1. IInv => RequestChain
  BY DEF IInv, StackInv
<1> QED BY <1>1, Invariant, PTL

(* No walk runs the recipe of a target twice.                              *)
THEOREM Once == Spec => []RunsOnce
<1>1. IInv => RunsOnce
  BY DEF IInv, LogInv
<1> QED BY <1>1, Invariant, PTL

(* Every walk runs recipes in dependency order, but where it cuts a cycle. *)
THEOREM Ordered == Spec => []DepthFirst
<1>1. IInv => DepthFirst
  BY DEF IInv, LogInv
<1> QED BY <1>1, Invariant, PTL

(* No walk runs a recipe on a prerequisite that fails, sooner or later, but *)
(* where it cuts a cycle or marks the members of a group.                   *)
THEOREM FailureStops == Spec => []NoneBuiltOnFailure
<1>1. IInv => NoneBuiltOnFailure
  BY DEF IInv, LogInv, FailuresKnown, LogMet, NoneBuiltOnFailure
<1> QED BY <1>1, Invariant, PTL

(* The remembered modification times are those on disk, for recipes that   *)
(* write their own target and for targets that have not failed.            *)
THEOREM RememberedTimes == Spec => []CacheFresh
<1>1. IInv => CacheFresh
  BY DEF IInv, EndInv
<1> QED BY <1>1, Invariant, PTL

(* Every walk that ends has removed the intermediate files it noted.       *)
THEOREM NoIntermediates == Spec => []IntermediatesRemoved
<1>1. IInv => IntermediatesRemoved
  BY DEF IInv, EndInv
<1> QED BY <1>1, Invariant, PTL
-----------------------------------------------------------------------------
(* Grouped targets.                                                        *)

(* Neither of two targets is made on the way to the other. *)
Separate(t, s) == s \notin Beneath(t) /\ t \notin Beneath(s)

(* A frame calls for nothing but what is beneath its target. *)
Asked(f) ==
  \A list \in {f.agenda} \cup Range(f.others) : \A d \in Range(list) : d.file \in Beneath(f.target)

AskedInv == \A f \in Range(stack) : Asked(f)

Nested == \A i, j \in DOMAIN stack : i < j => stack[j].target \in Beneath(stack[i].target)

(* The siblings of a target under way are not, and each of them is met or  *)
(* will be marked with it ...                                              *)
GroupHeld ==
  \A i \in DOMAIN stack :
    LET f == stack[i]
    IN  \A s \in mk.siblings[f.target] :
          Separate(f.target, s) => s \notin building /\ (Met(s) \/ s \in Range(f.siblings))

(* ... so that none is entered after the recipe has run. *)
GroupMet ==
  \A i \in DOMAIN log :
    LET t == log[i].target
    IN  \A s \in mk.siblings[t] : Separate(t, s) => s \notin building /\ Met(s)

GroupInv == AskedInv /\ Nested /\ GroupHeld /\ GroupMet /\ GroupRunsOnce

LEMMA BeneathHolds ==
  ASSUME IsMakefile(mk), NEW t \in Files
  PROVE  /\ Range(mk.prereqs[t]) \cup Range(mk.order_only[t]) \subseteq Beneath(t)
         /\ \A s \in mk.siblings[t] :
              Range(mk.prereqs[s]) \cup Range(mk.order_only[s]) \subseteq Beneath(t)
         /\ \A d \in Beneath(t) : Beneath(d) \subseteq Beneath(t)
<1>1. \A s \in {t} \cup mk.siblings[t] :
        Range(mk.prereqs[s]) \subseteq Files /\ Range(mk.order_only[s]) \subseteq Files
  <2>1. mk.siblings[t] \subseteq Files
    BY MakefileOK
  <2> QED BY <2>1, MakefileOK, RangeIn
<1>2. GroupNeeds(t) \subseteq Files
  BY <1>1 DEF GroupNeeds
<1>3. GroupNeeds(t) \subseteq Beneath(t)
  BY <1>2 DEF Beneath
<1>4. ASSUME NEW d \in Beneath(t), NEW f \in Beneath(d)
      PROVE  f \in Beneath(t)
  <2> SUFFICES ASSUME NEW D \in SUBSET Files, GroupNeeds(t) \subseteq D,
                      \A e \in D : GroupNeeds(e) \subseteq D
               PROVE  f \in D
    BY <1>4 DEF Beneath
  <2>1. d \in D
    BY <1>4 DEF Beneath
  <2> QED BY <1>4, <2>1 DEF Beneath
<1> QED BY <1>3, <1>4 DEF GroupNeeds

(* What the lists of calls ask for. *)
LEMMA NeedsAsked ==
  ASSUME IsMakefile(mk), NEW t \in Files
  PROVE  \A d \in Range(Needs(t)) \cup Range(OrderOnlyNeeds(t)) \cup Range(SiblingNeeds(t)) :
           d.file \in Range(mk.prereqs[t]) \cup Range(mk.order_only[t])
<1>1. mk.prereqs[t] \in Seq(Files) /\ mk.order_only[t] \in Seq(Files)
  BY MakefileOK
<1> DEFINE own == Tagged(mk.prereqs[t], FALSE)
           order_only == Tagged(mk.order_only[t], FALSE)
<1>2. /\ own \in Seq(Dep) /\ order_only \in Seq(Dep)
      /\ Range(own) = {[file |-> p, normal |-> FALSE] : p \in Range(mk.prereqs[t])}
      /\ Range(order_only) = {[file |-> p, normal |-> FALSE] : p \in Range(mk.order_only[t])}
  BY <1>1, TaggedHolds DEF Dep
<1>3. Range(own \o order_only) = Range(own) \cup Range(order_only)
  <2>1. \A s, u \in Seq(Dep) : Range(s \o u) = Range(s) \cup Range(u)
    BY ConcatRange
  <2> HIDE DEF own, order_only
  <2> QED BY <1>2, <2>1
<1>4. /\ Range(OrderOnlyNeeds(t)) = Range(order_only)
      /\ Range(SiblingNeeds(t)) = Range(own \o order_only)
  BY DEF OrderOnlyNeeds, SiblingNeeds
<1>5. \A d \in Range(Needs(t)) : d.file \in Range(mk.prereqs[t]) \cup Range(mk.order_only[t])
  BY NeedsHold
<1> HIDE DEF own, order_only
<1> QED BY <1>2, <1>3, <1>4, <1>5

(* What is beneath a target depends on the makefile only. *)
LEMMA SameBeneath ==
  ASSUME mk' = mk
  PROVE  /\ \A t : Beneath(t)' = Beneath(t)
         /\ \A t, s : Separate(t, s)' <=> Separate(t, s)
<1>1. \A t : Beneath(t)' = Beneath(t)
  BY DEF Beneath, GroupNeeds
<1> QED BY <1>1 DEF Separate

(* Only a call brings a new target on the stack. *)
LEMMA GroupMetStays ==
  ASSUME TypeOK, StackInv, GroupInv, Next, NEW i \in DOMAIN log,
         NEW s \in mk.siblings[log[i].target], Separate(log[i].target, s)
  PROVE  s \notin building' /\ MetNext(s)
<1>1. s \in Files
  BY NeedsAreFiles, MakefileOK DEF TypeOK
<1>2. s \notin building /\ Met(s)
  BY DEF GroupInv, GroupMet
<1>3. MetNext(s)
  BY <1>1, <1>2, NextStack DEF MemoGrows, Met, MetNext
<1> QED BY <1>2, <1>3, BuildingGrows

LEMMA LoggedGroup ==
  ASSUME TypeOK, StackInv, GroupInv, Next, UNCHANGED log
  PROVE  GroupMet' /\ GroupRunsOnce'
<1>1. mk' = mk
  BY NextStack DEF MemoGrows
<1>2. GroupMet'
  BY <1>1, GroupMetStays, SameBeneath DEF GroupMet, MetNext, Met
<1>3. GroupRunsOnce'
  BY <1>1, SameBeneath DEF GroupInv, GroupRunsOnce
<1> QED BY <1>2, <1>3

LEMMA PushGroup ==
  ASSUME TypeOK, StackInv, GroupInv, NEW t \in Files, NEW frame \in Frame,
         Calling(t), Unmet(t), Push(frame), frame.target = t, Asked(frame),
         \A s \in mk.siblings[t] : s \in building \/ Met(s) \/ s \in Range(frame.siblings)
  PROVE  AskedInv' /\ Nested' /\ GroupHeld'
<1> DEFINE n == Len(stack)
<1>1. /\ n \in Nat /\ DOMAIN stack = 1 .. n
      /\ stack' = Append(stack, frame) /\ DOMAIN stack' = 1 .. n + 1
      /\ (\A i \in 1 .. n : stack'[i] = stack[i]) /\ stack'[n + 1] = frame
      /\ stack \in Seq(Frame) /\ \A i \in 1 .. n : stack[i] \in Frame
  BY DEF TypeOK, Push
<1> HIDE DEF n
<1>2. mk' = mk /\ UNCHANGED <<built, failed_targets>>
  BY DEF Push, given, memo
<1>3. /\ \A u : Beneath(u)' = Beneath(u)
      /\ \A u, s : Separate(u, s)' <=> Separate(u, s)
  BY <1>2, SameBeneath
<1>4. Range(stack') = Range(stack) \cup {frame}
  BY <1>1, AppendRange
<1>5. AskedInv'
  BY <1>3, <1>4 DEF GroupInv, AskedInv, Asked
<1>6. \A i \in 1 .. n : t \in Beneath(stack[i].target)
  <2>1. CASE n = 0
    BY <1>1, <2>1
  <2>2. CASE n # 0
    <3>1. stack # <<>> /\ top = stack[n] /\ n \in 1 .. n /\ top \in Range(stack)
      BY <1>1, <2>2, TopFrame DEF n
    <3>2. t \in Beneath(stack[n].target)
      <4>1. top.agenda # <<>> /\ t = Head(top.agenda).file /\ top.agenda \in Seq(Dep)
        BY <1>1, <3>1 DEF Calling, Frame
      <4>2. Head(top.agenda) \in Range(top.agenda)
        BY <4>1, TailRange
      <4> QED BY <3>1, <4>1, <4>2 DEF GroupInv, AskedInv, Asked
    <3>3. ASSUME NEW i \in 1 .. n, i # n PROVE t \in Beneath(stack[i].target)
      <4>1. stack[n].target \in Beneath(stack[i].target)
        BY <1>1, <3>1, <3>3 DEF GroupInv, Nested
      <4>2. stack[i].target \in Files
        BY <1>1 DEF Frame
      <4> QED BY <3>2, <4>1, <4>2, BeneathHolds DEF TypeOK
    <3> QED BY <3>2, <3>3
  <2> QED BY <2>1, <2>2
<1>7. Nested'
  <2>1. ASSUME NEW i \in 1 .. n + 1, NEW j \in 1 .. n + 1, i < j
        PROVE  stack'[j].target \in Beneath(stack'[i].target)
    <3>1. CASE j = n + 1
      <4>1. i \in 1 .. n
        BY <1>1, <2>1, <3>1
      <4> QED BY <1>1, <1>6, <3>1, <4>1
    <3>2. CASE j # n + 1
      <4>1. i \in 1 .. n /\ j \in 1 .. n
        BY <1>1, <2>1, <3>2
      <4> QED BY <1>1, <2>1, <4>1 DEF GroupInv, Nested
    <3> QED BY <3>1, <3>2
  <2> QED BY <1>1, <1>3, <2>1 DEF Nested
<1>8. building' = building \cup {t}
  BY <1>1 DEF building
<1>9. GroupHeld'
  <2>1. ASSUME NEW i \in 1 .. n, NEW s \in mk.siblings[stack[i].target],
               Separate(stack[i].target, s)
        PROVE  s \notin building' /\ (Met(s) \/ s \in Range(stack[i].siblings))
    BY <1>1, <1>6, <1>8, <2>1 DEF GroupInv, GroupHeld, Separate
  <2>2. ASSUME NEW s \in mk.siblings[t], Separate(t, s)
        PROVE  s \notin building' /\ (Met(s) \/ s \in Range(frame.siblings))
    <3>1. s # t
      BY MakefileOK DEF TypeOK
    <3>2. s \notin building
      BY <1>1, <1>6, <2>2 DEF building, Separate
    <3> QED BY <1>8, <3>1, <3>2
  <2>3. ASSUME NEW i \in 1 .. n + 1, NEW s \in mk.siblings[stack'[i].target],
               Separate(stack'[i].target, s)
        PROVE  s \notin building' /\ (Met(s) \/ s \in Range(stack'[i].siblings))
    BY <1>1, <2>1, <2>2, <2>3
  <2>4. \A s : Met(s)' <=> Met(s)
    BY <1>2 DEF Met
  <2> QED BY <1>1, <1>2, <1>3, <2>3, <2>4 DEF GroupHeld
<1> QED BY <1>5, <1>7, <1>9

LEMMA ReplaceGroup ==
  ASSUME TypeOK, StackInv, GroupInv, stack # <<>>, NEW frame \in Frame, ReplaceTop(frame),
         frame.target = top.target, frame.siblings = top.siblings, Asked(frame),
         UNCHANGED <<mk, built, failed_targets>>
  PROVE  AskedInv' /\ Nested' /\ GroupHeld'
<1> DEFINE n == Len(stack)
<1>1. /\ n \in Nat \ {0} /\ DOMAIN stack = 1 .. n /\ top = stack[n] /\ stack \in Seq(Frame)
  BY TopFrame DEF TypeOK
<1>2. /\ DOMAIN stack' = 1 .. n /\ stack'[n] = frame
      /\ \A i \in 1 .. n : i # n => stack'[i] = stack[i]
  <2>1. stack' = [stack EXCEPT ![n] = frame] /\ n \in 1 .. n
    BY <1>1 DEF ReplaceTop
  <2>2. /\ stack' \in Seq(Frame) /\ Len(stack') = n
        /\ \A j \in 1 .. n : stack'[j] = IF j = n THEN frame ELSE stack[j]
    BY <1>1, <2>1, ExceptSeq
  <2>3. DOMAIN stack' = 1 .. n
    BY <2>2, LenProperties
  <2> QED BY <2>1, <2>2, <2>3
<1> HIDE DEF n
<1>3. \A i \in 1 .. n : /\ stack'[i].target = stack[i].target
                        /\ stack'[i].siblings = stack[i].siblings
  BY <1>1, <1>2
<1>4. building' = building
  BY <1>1, <1>2, <1>3 DEF building
<1>5. /\ \A u : Beneath(u)' = Beneath(u)
      /\ \A u, s : Separate(u, s)' <=> Separate(u, s)
      /\ \A s : Met(s)' <=> Met(s)
  BY SameBeneath DEF Met
<1>6. Range(stack') \subseteq Range(stack) \cup {frame}
  BY <1>1, <1>2 DEF Range
<1>7. AskedInv'
  BY <1>5, <1>6 DEF GroupInv, AskedInv, Asked
<1>8. Nested'
  BY <1>1, <1>2, <1>3, <1>5 DEF GroupInv, Nested
<1>9. GroupHeld'
  <2>1. ASSUME NEW i \in 1 .. n, NEW s \in mk.siblings[stack[i].target],
               Separate(stack[i].target, s)
        PROVE  s \notin building /\ (Met(s) \/ s \in Range(stack[i].siblings))
    BY <1>1, <2>1 DEF GroupInv, GroupHeld
  <2> QED BY <1>2, <1>3, <1>4, <1>5, <2>1 DEF GroupHeld
<1> QED BY <1>7, <1>8, <1>9

LEMMA PopGroup ==
  ASSUME TypeOK, StackInv, GroupInv, stack # <<>>, MemoGrows,
         stack' = Front(stack)
  PROVE  AskedInv' /\ Nested' /\ GroupHeld'
<1> DEFINE n == Len(stack)
<1>1. /\ n \in Nat \ {0} /\ DOMAIN stack = 1 .. n /\ stack \in Seq(Frame)
      /\ DOMAIN stack' = 1 .. n - 1 /\ \A i \in 1 .. n - 1 : stack'[i] = stack[i]
  BY TopFrame DEF TypeOK
<1> HIDE DEF n
<1>2. /\ \A u : Beneath(u)' = Beneath(u)
      /\ \A u, s : Separate(u, s)' <=> Separate(u, s)
  BY SameBeneath DEF MemoGrows
<1>3. AskedInv'
  <2>1. Range(stack') \subseteq Range(stack)
    BY <1>1 DEF Range
  <2> QED BY <1>2, <2>1 DEF GroupInv, AskedInv, Asked
<1>4. Nested'
  BY <1>1, <1>2 DEF GroupInv, Nested
<1>5. building' \subseteq building
  BY <1>1 DEF building
<1>6. GroupHeld'
  <2>1. ASSUME NEW i \in 1 .. n - 1, NEW s \in mk.siblings[stack[i].target],
               Separate(stack[i].target, s)
        PROVE  s \notin building' /\ (Met(s)' \/ s \in Range(stack[i].siblings))
    <3>1. i \in 1 .. n /\ stack[i] \in Frame
      BY <1>1
    <3>2. s \in Files
      BY <3>1, MakefileOK DEF TypeOK, Frame
    <3>3. Met(s) => Met(s)'
      BY <3>2 DEF Met, MemoGrows
    <3> QED BY <1>1, <1>5, <2>1, <3>1, <3>3 DEF GroupInv, GroupHeld
  <2> QED BY <1>1, <1>2, <2>1 DEF GroupHeld, MemoGrows
<1> QED BY <1>3, <1>4, <1>6

(* The call is answered at once, or nothing is under way. *)
LEMMA RestGroup ==
  ASSUME TypeOK, GroupInv, MemoGrows, UNCHANGED stack
  PROVE  AskedInv' /\ Nested' /\ GroupHeld'
<1>1. /\ \A u : Beneath(u)' = Beneath(u)
      /\ \A u, s : Separate(u, s)' <=> Separate(u, s)
  BY SameBeneath DEF MemoGrows
<1>2. AskedInv' /\ Nested'
  BY <1>1 DEF GroupInv, AskedInv, Asked, Nested
<1>3. building' = building
  BY DEF building
<1>4. GroupHeld'
  <2>1. ASSUME NEW i \in DOMAIN stack, NEW s \in mk.siblings[stack[i].target],
               Separate(stack[i].target, s)
        PROVE  s \notin building /\ (Met(s)' \/ s \in Range(stack[i].siblings))
    <3>1. s \in Files
      <4>1. stack[i] \in Frame
        BY DEF TypeOK
      <4> QED BY <4>1, MakefileOK DEF TypeOK, Frame
    <3>2. Met(s) => Met(s)'
      BY <3>1 DEF Met, MemoGrows
    <3> QED BY <2>1, <3>2 DEF GroupInv, GroupHeld
  <2> QED BY <1>1, <1>3, <2>1 DEF GroupHeld, MemoGrows
<1> QED BY <1>2, <1>4

LEMMA BuildTargetGroup ==
  ASSUME TypeOK, StackInv, GroupInv, NEW t \in Files, BuildTarget(t)
  PROVE  AskedInv' /\ Nested' /\ GroupHeld'
<1>1. CASE Memoized(t) \/ DropCycle(t) \/ Leaf(t)
  BY <1>1, BuildTargetStack, RestGroup DEF Memoized, DropCycle, Leaf
<1>2. /\ IsMakefile(mk) /\ Needs(t) \in Seq(Dep)
      /\ \A p \in Range(mk.prereqs[t]) \cup Range(mk.order_only[t]) : p \in Beneath(t)
      /\ \A p \in Beneath(t) : Beneath(p) \subseteq Beneath(t)
  BY NeedsHold, BeneathHolds DEF TypeOK
<1>3. \A d \in Range(Needs(t)) \cup Range(OrderOnlyNeeds(t)) : d.file \in Beneath(t)
  BY <1>2, NeedsAsked
<1>4. Range(<<>>) = {}
  BY DEF Range
<1>5. ASSUME NEW frame, Push(frame)
      PROVE  frame \in Frame
  <2>1. stack' = Append(stack, frame) /\ stack \in Seq(Frame) /\ stack' \in Seq(Frame)
    BY <1>5, BuildTargetTypes DEF Push, TypeOK
  <2>2. Len(stack) + 1 \in DOMAIN stack' /\ stack'[Len(stack) + 1] = frame
    BY <2>1
  <2> QED BY <2>1, <2>2
<1>6. ASSUME SiblingsToBuild(t) = {}, NEW s \in mk.siblings[t]
      PROVE  s \in building \/ Met(s)
  <2>1. s # t
    BY <1>2, MakefileOK
  <2> QED BY <1>6, <2>1 DEF SiblingsToBuild, Met
<1>7. CASE EnterFresh(t)
  <2> DEFINE ofDeleted == [i \in DOMAIN mk.prereqs[t] |->
                             IF Skippable(mk, view, mk.prereqs[t][i])
                             THEN OrderOnlyNeeds(mk.prereqs[t][i]) ELSE <<>>]
             others == Append(ofDeleted, OrderOnlyNeeds(t))
             frame == [NewFrame(t, "fresh") EXCEPT !.agenda = <<>>, !.others = others]
  <2>1. Calling(t) /\ Unmet(t) /\ Push(frame) /\ SiblingsToBuild(t) = {}
    BY <1>7 DEF EnterFresh
  <2>2. frame \in Frame
    <3> HIDE DEF frame
    <3> QED BY <1>5, <2>1
  <2>3. mk.prereqs[t] \in Seq(Files)
    BY <1>2, MakefileOK
  <2>4. /\ ofDeleted \in Seq(Seq(Dep))
        /\ \A list \in Range(ofDeleted) : \A d \in Range(list) : d.file \in Beneath(t)
    <3>1. /\ Len(mk.prereqs[t]) \in Nat /\ DOMAIN mk.prereqs[t] = 1 .. Len(mk.prereqs[t])
          /\ \A i \in DOMAIN mk.prereqs[t] :
               mk.prereqs[t][i] \in Files /\ mk.prereqs[t][i] \in Range(mk.prereqs[t])
      BY <2>3 DEF Range
    <3>2. <<>> \in Seq(Dep)
      OBVIOUS
    <3>3. \A p \in Files : OrderOnlyNeeds(p) \in Seq(Dep)
      BY NeedsHold DEF TypeOK
    <3>4. ofDeleted \in [1 .. Len(mk.prereqs[t]) -> Seq(Dep)]
      BY <3>1, <3>2, <3>3
    <3>5. ASSUME NEW p \in Range(mk.prereqs[t]), p \in Files
          PROVE  \A d \in Range(OrderOnlyNeeds(p)) : d.file \in Beneath(t)
      BY <1>2, <3>5, NeedsAsked, BeneathHolds
    <3>6. \A i \in DOMAIN mk.prereqs[t] : \A d \in Range(ofDeleted[i]) : d.file \in Beneath(t)
      BY <1>4, <3>1, <3>5
    <3>7. DOMAIN ofDeleted = DOMAIN mk.prereqs[t]
      OBVIOUS
    <3> HIDE DEF ofDeleted
    <3> QED BY <3>1, <3>4, <3>6, <3>7 DEF Range
  <2>5. Range(others) = Range(ofDeleted) \cup {OrderOnlyNeeds(t)}
    <3>1. OrderOnlyNeeds(t) \in Seq(Dep)
      BY NeedsHold DEF TypeOK
    <3> HIDE DEF ofDeleted
    <3> QED BY <2>4, <3>1, AppendRange
  <2>6. frame.target = t /\ frame.agenda = <<>> /\ frame.others = others
    <3> HIDE DEF others
    <3> QED BY DEF NewFrame
  <2> HIDE DEF frame, others
  <2>7. Asked(frame)
    BY <1>3, <1>4, <2>4, <2>5, <2>6 DEF Asked
  <2> QED BY <1>6, <2>1, <2>2, <2>6, <2>7, PushGroup
<1>8. CASE EnterSingle(t)
  <2> DEFINE frame == NewFrame(t, "single")
  <2>1. Calling(t) /\ Unmet(t) /\ Push(frame) /\ SiblingsToBuild(t) = {}
    BY <1>8 DEF EnterSingle
  <2>2. frame.target = t /\ frame.agenda = Needs(t) /\ frame.others = <<>>
    BY DEF NewFrame
  <2> HIDE DEF frame
  <2>3. Asked(frame)
    BY <1>3, <1>4, <2>2 DEF Asked
  <2> QED BY <1>5, <1>6, <2>1, <2>2, <2>3, PushGroup
<1>9. CASE EnterGroup(t)
  <2>1. PICK order \in SetToSeqs(SiblingsToBuild(t)) :
               Push([NewFrame(t, "group") EXCEPT !.siblings = order])
    BY <1>9 DEF EnterGroup
  <2>2. Range(order) = SiblingsToBuild(t)
    <3>1. IsFiniteSet(SiblingsToBuild(t)) /\ SiblingsToBuild(t) \subseteq Files
      BY MakefileOK, FS_Subset DEF TypeOK, SiblingsToBuild
    <3> QED BY <3>1, OrdersOf
  <2> DEFINE frame == [NewFrame(t, "group") EXCEPT !.siblings = order]
  <2>3. /\ frame.target = t /\ frame.agenda = Needs(t) /\ frame.others = <<>>
        /\ frame.siblings = order
    BY DEF NewFrame
  <2> HIDE DEF frame
  <2>4. Calling(t) /\ Unmet(t) /\ Push(frame)
    BY <1>9, <2>1 DEF EnterGroup, frame
  <2>5. Asked(frame)
    BY <1>3, <1>4, <2>3 DEF Asked
  <2>6. \A s \in mk.siblings[t] : s \in building \/ Met(s) \/ s \in Range(frame.siblings)
    <3>1. t \notin mk.siblings[t]
      BY <1>2, MakefileOK
    <3> QED BY <2>2, <2>3, <3>1 DEF SiblingsToBuild, Met
  <2> QED BY <1>5, <2>3, <2>4, <2>5, <2>6, PushGroup
<1> QED BY <1>1, <1>7, <1>8, <1>9 DEF BuildTarget

LEMMA FrameStepGroup ==
  ASSUME TypeOK, StackInv, GroupInv, Resume \/ NextList \/ BuildSiblings
  PROVE  AskedInv' /\ Nested' /\ GroupHeld'
<1>1. stack # <<>> /\ UNCHANGED <<mk, built, failed_targets>>
  BY DEF Resume, NextList, BuildSiblings, Finishing, Listed, given, memo
<1>2. /\ top \in Frame /\ top \in Range(stack) /\ top.target \in Files
      /\ top.agenda \in Seq(Dep) /\ top.others \in Seq(Seq(Dep)) /\ top.siblings \in Seq(Files)
  BY <1>1, TopFrame DEF TypeOK, Frame
<1>3. Asked(top) /\ FrameGroup(top)
  BY <1>2 DEF GroupInv, AskedInv, StackInv, GroupFrames
<1>4. ASSUME NEW frame, ReplaceTop(frame), frame.target = top.target,
             frame.siblings = top.siblings, Asked(frame)
      PROVE  AskedInv' /\ Nested' /\ GroupHeld'
  <2>1. frame \in Frame
    <3>1. stack' \in Seq(Frame)
      BY FrameStepTypes DEF StackInv, TypeOK
    <3>2. Len(stack) \in DOMAIN stack /\ stack'[Len(stack)] = frame /\ DOMAIN stack' = DOMAIN stack
      BY <1>1, <1>4, TopFrame DEF TypeOK, ReplaceTop
    <3> QED BY <3>1, <3>2
  <2> QED BY <1>1, <1>4, <2>1, ReplaceGroup
<1>5. CASE Resume
  <2>1. top.agenda # <<>>
    BY <1>1, <1>5 DEF Resume, StackInv, CallPending
  <2>2. Range(Tail(top.agenda)) \subseteq Range(top.agenda)
    BY <1>2, <2>1, TailHolds
  <2>3. PICK rebuilt, failed :
          ReplaceTop([top EXCEPT !.agenda = Tail(@), !.rebuilt = rebuilt, !.failed = failed])
    <3> DEFINE rebuilt == top.rebuilt \/ (Head(top.agenda).normal /\ ret = "rebuilt")
               failed == top.failed \/ (Head(top.agenda).normal /\ ret = "error")
    <3>1. ReplaceTop([top EXCEPT !.agenda = Tail(@), !.rebuilt = rebuilt, !.failed = failed])
      BY <1>5 DEF Resume
    <3> HIDE DEF rebuilt, failed
    <3> QED BY <3>1
  <2> DEFINE frame == [top EXCEPT !.agenda = Tail(@), !.rebuilt = rebuilt, !.failed = failed]
  <2>4. /\ frame.target = top.target /\ frame.siblings = top.siblings
        /\ frame.agenda = Tail(top.agenda) /\ frame.others = top.others
    BY <1>2 DEF Frame
  <2> HIDE DEF frame
  <2>5. Asked(frame)
    BY <1>3, <2>2, <2>4 DEF Asked
  <2> QED BY <1>4, <2>3, <2>4, <2>5 DEF frame
<1>6. CASE NextList
  <2> DEFINE frame == [top EXCEPT !.agenda = Head(top.others), !.others = Tail(@)]
  <2>1. ReplaceTop(frame) /\ top.others # <<>>
    BY <1>6 DEF NextList
  <2>2. /\ frame.target = top.target /\ frame.siblings = top.siblings
        /\ frame.agenda = Head(top.others) /\ frame.others = Tail(top.others)
    BY <1>2 DEF Frame
  <2>3. Range(top.others) = Range(Tail(top.others)) \cup {Head(top.others)}
    BY <1>2, <2>1, TailHolds
  <2> HIDE DEF frame
  <2>4. Asked(frame)
    BY <1>3, <2>2, <2>3 DEF Asked
  <2> QED BY <1>4, <2>1, <2>2, <2>4
<1>7. CASE BuildSiblings
  <2> DEFINE others == [i \in DOMAIN top.siblings |-> SiblingNeeds(top.siblings[i])]
             frame == [top EXCEPT !.phase = "siblings", !.others = others]
  <2>1. ReplaceTop(frame)
    BY <1>7 DEF BuildSiblings
  <2>2. /\ frame.target = top.target /\ frame.siblings = top.siblings
        /\ frame.agenda = top.agenda /\ frame.others = others
    <3> HIDE DEF others
    <3> QED BY <1>2 DEF Frame
  <2>3. ASSUME NEW s \in Range(top.siblings)
        PROVE  \A d \in Range(SiblingNeeds(s)) : d.file \in Beneath(top.target)
    <3>1. s \in mk.siblings[top.target] /\ s \in Files
      BY <1>2, <1>3, RangeIn DEF FrameGroup
    <3> QED BY <1>2, <3>1, NeedsAsked, BeneathHolds DEF TypeOK
  <2>4. \A list \in Range(others) : \A d \in Range(list) : d.file \in Beneath(top.target)
    BY <2>3 DEF Range
  <2> HIDE DEF frame, others
  <2>5. Asked(frame)
    BY <1>3, <2>2, <2>4 DEF Asked
  <2> QED BY <1>4, <2>1, <2>2, <2>5
<1> QED BY <1>5, <1>6, <1>7

(* The recipe of a grouped target has run: no sibling's will.              *)
LEMMA LoggingGroup ==
  ASSUME TypeOK, StackInv, GroupInv, Next, ~UNCHANGED log
  PROVE  GroupMet' /\ GroupRunsOnce'
<1> DEFINE t == top.target
           n == Len(log)
<1>1. PICK ok \in BOOLEAN : Logged(t, ok) /\ Ends /\ Deciding /\ (RunRecipe \/ RecipeFails)
  BY LogStep
<1>2. /\ log' = Append(log, [target |-> t, ok |-> ok])
      /\ n \in Nat /\ DOMAIN log = 1 .. n /\ DOMAIN log' = 1 .. n + 1
      /\ (\A i \in 1 .. n : log'[i] = log[i]) /\ log'[n + 1].target = t
  BY <1>1 DEF Logged, TypeOK
<1>3. PICK r \in Results \cup {"error"} : Pop(r, Range(top.siblings))
  BY <1>1 DEF RunRecipe, RecipeFails, Results
<1>4. /\ stack # <<>> /\ Len(stack) \in DOMAIN stack /\ top = stack[Len(stack)]
      /\ t \in Files /\ t \in building /\ Front(stack) \in Seq(Frame)
  <2>1. stack # <<>>
    BY <1>1 DEF Deciding, Finishing, Listed
  <2>2. Len(stack) \in DOMAIN stack /\ top = stack[Len(stack)] /\ top \in Frame
    BY <2>1, TopFrame DEF TypeOK
  <2> QED BY <2>1, <2>2, TopFrame DEF building, Frame, TypeOK
<1>5. MemoGrows
  BY NextStack
<1>6. ASSUME NEW s \in mk.siblings[t], Separate(t, s)
      PROVE  s \notin building' /\ MetNext(s)
  <2>1. s \in Files
    BY <1>4, MakefileOK DEF TypeOK
  <2>2. s \notin building /\ (Met(s) \/ s \in Range(top.siblings))
    BY <1>4, <1>6 DEF GroupInv, GroupHeld
  <2>3. MetNext(s)
    BY <1>3, <1>4, <1>5, <2>1, <2>2, PopMemo DEF MetNext, Met, MemoGrows
  <2>4. building' \subseteq building
    BY <1>3, <1>4, TopFrame DEF building, Pop, TypeOK
  <2> QED BY <2>2, <2>3, <2>4
<1> HIDE DEF t, n
<1>7. \A i \in 1 .. n : \A s \in mk.siblings[log[i].target] :
        Separate(log[i].target, s) => s \notin building' /\ MetNext(s)
  BY <1>2, GroupMetStays
<1>8. mk' = mk /\ \A u, s : /\ Separate(u, s)' <=> Separate(u, s)
                            /\ Beneath(u)' = Beneath(u)
  BY <1>5, SameBeneath DEF MemoGrows
<1>9. GroupMet'
  <2>1. ASSUME NEW i \in 1 .. n + 1, NEW s \in mk.siblings[log'[i].target],
               Separate(log'[i].target, s)
        PROVE  s \notin building' /\ MetNext(s)
    BY <1>2, <1>6, <1>7, <2>1
  <2> QED BY <1>2, <1>8, <2>1 DEF GroupMet, Met, MetNext
<1>10. GroupRunsOnce'
  <2>1. ASSUME NEW i \in 1 .. n + 1, NEW j \in 1 .. n + 1, i < j,
               log'[j].target \in mk.siblings[log'[i].target]
        PROVE  ~Separate(log'[i].target, log'[j].target)
    <3>1. i \in 1 .. n /\ log'[i] = log[i]
      BY <1>2, <2>1
    <3>2. CASE j = n + 1
      BY <1>2, <1>4, <2>1, <3>1, <3>2 DEF GroupInv, GroupMet, t
    <3>3. CASE j \in 1 .. n
      BY <1>2, <2>1, <3>1, <3>3 DEF GroupInv, GroupRunsOnce, Separate
    <3> QED BY <1>2, <3>2, <3>3
  <2> QED BY <1>2, <1>8, <2>1 DEF GroupRunsOnce, Separate
<1> QED BY <1>9, <1>10

LEMMA NextGroup ==
  ASSUME TypeOK, StackInv, GroupInv, Next
  PROVE  GroupInv'
<1>1. GroupMet' /\ GroupRunsOnce'
  BY LoggedGroup, LoggingGroup
<1>2. MemoGrows
  BY NextStack
<1>3. CASE Ends
  <2>1. stack # <<>> /\ stack' = Front(stack)
    BY <1>3, EndsPop DEF Pop
  <2> QED BY <1>1, <1>2, <2>1, PopGroup DEF GroupInv
<1>4. CASE NextGoal \/ GoalFails \/ Finish
  <2>1. UNCHANGED stack
    BY <1>4 DEF NextGoal, GoalFails, Finish, End
  <2> QED BY <1>1, <1>2, <2>1, RestGroup DEF GroupInv
<1> QED BY <1>1, <1>3, <1>4, NextCases, BuildTargetGroup, FrameStepGroup DEF GroupInv

LEMMA InitGroup == Init => GroupInv
<1> SUFFICES ASSUME Init PROVE GroupInv
  OBVIOUS
<1>1. stack = <<>> /\ log = <<>>
  BY DEF Init
<1>2. DOMAIN stack = {} /\ Range(stack) = {} /\ DOMAIN log = {}
  BY <1>1 DEF Range
<1> QED BY <1>2 DEF GroupInv, AskedInv, Nested, GroupHeld, GroupMet, GroupRunsOnce

LEMMA StutterGroup == GroupInv /\ UNCHANGED vars => GroupInv'
<1> SUFFICES ASSUME GroupInv, UNCHANGED vars PROVE GroupInv'
  OBVIOUS
<1>1. UNCHANGED <<mk, stack, log, built, failed_targets>>
  BY DEF vars, given, memo, calls
<1>2. /\ \A u, s : (Separate(u, s)' <=> Separate(u, s)) /\ Beneath(u)' = Beneath(u)
      /\ \A s : Met(s)' <=> Met(s)
      /\ building' = building
  BY <1>1, SameBeneath DEF Met, building
<1> QED BY <1>1, <1>2
    DEF GroupInv, AskedInv, Asked, Nested, GroupHeld, GroupMet, GroupRunsOnce

(* Every walk runs the recipe of a group for one of its targets only,      *)
(* unless some target is made on the way to another of its group.          *)
THEOREM GroupOnce == Spec => []GroupRunsOnce
<1>1. IInv /\ GroupInv /\ [Next]_vars => GroupInv'
  BY NextGroup, StutterGroup DEF IInv
<1>2. GroupInv => GroupRunsOnce
  BY DEF GroupInv
<1> QED BY <1>1, <1>2, InitGroup, Invariant, PTL DEF Spec
-----------------------------------------------------------------------------
(* A build with nothing to do: here the out-of-date tests are opened.      *)

(* The latest of a set of times that has a bound is within the bound, and  *)
(* no time of the set is later.                                            *)
LEMMA LatestBounded ==
  ASSUME NEW m \in Nat, NEW S, S \subseteq 0 .. m
  PROVE  Latest(S) \in 0 .. m /\ \A n \in S : n <= Latest(S)
<1> DEFINE bounds == {u \in Nat : \A n \in S : n <= u}
<1>1. m \in bounds
  OBVIOUS
<1>2. PICK u \in bounds : \A v \in bounds : u <= v
  <2> HIDE DEF bounds
  <2>1. bounds \in SUBSET Nat
    BY DEF bounds
  <2> QED BY <1>1, <2>1, LeastNumber
<1>3. u \in S \cup {0}
  <2> SUFFICES ASSUME u # 0, u \notin S PROVE FALSE
    OBVIOUS
  <2>1. u - 1 \in Nat /\ \A n \in S : n <= u - 1
    OBVIOUS
  <2>2. u - 1 \in bounds
    BY <2>1
  <2> QED BY <1>2, <2>2
<1>4. \E l \in S \cup {0} : \A n \in S : n <= l
  BY <1>2, <1>3
<1>5. Latest(S) \in S \cup {0} /\ \A n \in S : n <= Latest(S)
  BY <1>4 DEF Latest
<1>6. 0 \in 0 .. m
  OBVIOUS
<1> QED BY <1>5, <1>6

(* The times of a list have a bound. *)
LEMMA TimesBounded ==
  ASSUME NEW A, NEW g \in [A -> Nat], NEW list \in Seq(A)
  PROVE  \E m \in Nat : \A i \in DOMAIN list : g[list[i]] \in 0 .. m
<1> DEFINE T == {u \in Seq(A) : \E m \in Nat : \A i \in 1 .. Len(u) : g[u[i]] <= m}
<1>1. <<>> \in T
  OBVIOUS
<1>2. ASSUME NEW u \in Seq(A), NEW e \in A, u \in T PROVE Append(u, e) \in T
  <2> DEFINE longer == Append(u, e)
  <2>1. PICK m \in Nat : \A i \in 1 .. Len(u) : g[u[i]] <= m
    BY <1>2
  <2>2. /\ longer \in Seq(A) /\ Len(longer) = Len(u) + 1 /\ Len(u) \in Nat
        /\ longer[Len(u) + 1] = e /\ \A i \in 1 .. Len(u) : longer[i] = u[i]
    BY AppendProperties
  <2>3. g[e] \in Nat
    OBVIOUS
  <2>4. PICK n \in Nat : m <= n /\ g[e] <= n
    <3>1. CASE m <= g[e]
      BY <2>3, <3>1
    <3>2. CASE g[e] <= m
      BY <2>3, <3>2
    <3> QED BY <2>3, <3>1, <3>2
  <2> HIDE DEF longer
  <2>5. ASSUME NEW i \in 1 .. Len(longer) PROVE g[longer[i]] <= n
    <3>1. CASE i = Len(u) + 1
      BY <2>2, <2>4, <3>1
    <3>2. CASE i \in 1 .. Len(u)
      <4>1. g[u[i]] \in Nat
        BY <3>2
      <4> QED BY <2>1, <2>2, <2>4, <3>2, <4>1
    <3> QED BY <2>2, <3>1, <3>2
  <2> QED BY <2>2, <2>5 DEF longer
<1> HIDE DEF T
<1>3. list \in T
  BY <1>1, <1>2, SequenceInduction
<1>4. PICK m \in Nat : \A i \in 1 .. Len(list) : g[list[i]] <= m
  BY <1>3 DEF T
<1>5. \A i \in DOMAIN list : g[list[i]] \in 0 .. m
  <2>1. DOMAIN list = 1 .. Len(list) /\ \A i \in 1 .. Len(list) : g[list[i]] \in Nat
    OBVIOUS
  <2> QED BY <1>4, <2>1
<1> QED BY <1>5

(* What effective_mtime answers at one depth. *)
Levels == [Files -> [time : Nat, reads : SUBSET Files]]

(* What effective_mtime looks at for f. *)
MadeFrom(f) == IF f \in mk.ruled THEN mk.prereqs[f] ELSE <<>>

LEMMA AboveTypes ==
  ASSUME TypeOK, NEW v \in [Files -> Nat], NEW below \in Levels
  PROVE  EffectiveAbove(mk, v, Now, below) \in Levels
<1>1. ASSUME NEW f \in Files PROVE MadeFrom(f) \in Seq(Files)
  BY MakefileOK DEF TypeOK, MadeFrom
<1>2. v \in [Files -> Nat] /\ Now \in Nat
  BY DEF TypeOK, Now
<1>3. \A p \in Files : below[p].time \in Nat /\ below[p].reads \subseteq Files
  BY DEF Levels
<1>4. ASSUME NEW f \in Files
      PROVE  Latest({below[MadeFrom(f)[i]].time : i \in DOMAIN MadeFrom(f)}) \in Nat
  <2> DEFINE g == [p \in Files |-> below[p].time]
             S == {g[MadeFrom(f)[i]] : i \in DOMAIN MadeFrom(f)}
  <2>1. MadeFrom(f) \in Seq(Files) /\ g \in [Files -> Nat]
    BY <1>1, <1>3
  <2>2. S = {below[MadeFrom(f)[i]].time : i \in DOMAIN MadeFrom(f)}
    <3>1. \A i \in DOMAIN MadeFrom(f) : MadeFrom(f)[i] \in Files
      BY <2>1
    <3> QED BY <3>1
  <2>3. PICK m \in Nat : S \subseteq 0 .. m
    <3>1. PICK m \in Nat : \A i \in DOMAIN MadeFrom(f) : g[MadeFrom(f)[i]] \in 0 .. m
      <4> HIDE DEF g
      <4> QED BY <2>1, TimesBounded
    <3> HIDE DEF g
    <3> QED BY <3>1
  <2> HIDE DEF g, S
  <2>4. Latest(S) \in 0 .. m
    BY <2>3, LatestBounded
  <2> QED BY <2>2, <2>4
<1>5. ASSUME NEW f \in Files
      PROVE  /\ UNION {below[MadeFrom(f)[i]].reads : i \in DOMAIN MadeFrom(f)} \subseteq Files
             /\ \A I \in SUBSET DOMAIN MadeFrom(f) :
                  UNION {below[MadeFrom(f)[i]].reads : i \in I} \subseteq Files
  <2>1. \A i \in DOMAIN MadeFrom(f) : MadeFrom(f)[i] \in Files
    BY <1>1
  <2> QED BY <1>3, <2>1
<1>6. ASSUME NEW f \in Files
      PROVE  EffectiveAbove(mk, v, Now, below)[f] \in [time : Nat, reads : SUBSET Files]
  <2> DEFINE newer(p) == below[p].time > v[f]
             readsBelow(p) == below[p].reads
  <2>1. Reads(MadeFrom(f), newer, readsBelow) \subseteq Files
    <3>1. Scanned(MadeFrom(f), newer) \subseteq DOMAIN MadeFrom(f)
      BY DEF Scanned
    <3> QED BY <1>5, <3>1 DEF Reads
  <2>2. EffectiveAbove(mk, v, Now, below)[f] =
          IF v[f] > 0
          THEN [time  |-> IF Found(MadeFrom(f), newer) THEN Now ELSE v[f],
                reads |-> {f} \cup Reads(MadeFrom(f), newer, readsBelow)]
          ELSE IF f \in mk.phony
          THEN [time |-> Now, reads |-> {f}]
          ELSE [time  |-> Latest({below[MadeFrom(f)[i]].time : i \in DOMAIN MadeFrom(f)}),
                reads |-> {f} \cup UNION {readsBelow(MadeFrom(f)[i]) : i \in DOMAIN MadeFrom(f)}]
    BY DEF EffectiveAbove, MadeFrom
  <2>3. v[f] \in Nat
    BY <1>2
  <2>4. UNION {readsBelow(MadeFrom(f)[i]) : i \in DOMAIN MadeFrom(f)} \subseteq Files
    BY <1>5
  <2> HIDE DEF newer, readsBelow
  <2> DEFINE last == Latest({below[MadeFrom(f)[i]].time : i \in DOMAIN MadeFrom(f)})
             r1 == {f} \cup Reads(MadeFrom(f), newer, readsBelow)
             r2 == {f} \cup UNION {readsBelow(MadeFrom(f)[i]) : i \in DOMAIN MadeFrom(f)}
             found == Found(MadeFrom(f), newer)
  <2>5. last \in Nat /\ r1 \in SUBSET Files /\ r2 \in SUBSET Files /\ {f} \in SUBSET Files
    BY <1>4, <2>1, <2>4
  <2> HIDE DEF last, r1, r2, found
  <2>6. EffectiveAbove(mk, v, Now, below)[f] =
          IF v[f] > 0 THEN [time  |-> IF found THEN Now ELSE v[f], reads |-> r1]
          ELSE IF f \in mk.phony THEN [time |-> Now, reads |-> {f}]
          ELSE [time  |-> last, reads |-> r2]
    BY <2>2 DEF last, r1, r2, found
  <2> QED BY <1>2, <2>3, <2>5, <2>6
<1>7. DOMAIN EffectiveAbove(mk, v, Now, below) = Files
  BY DEF EffectiveAbove
<1>8. EffectiveAbove(mk, v, Now, below)
        = [f \in Files |-> EffectiveAbove(mk, v, Now, below)[f]]
  BY DEF EffectiveAbove
<1> QED BY <1>6, <1>8 DEF Levels

(* effective_mtime goes up from its deepest level. *)
LEMMA EffectiveSteps ==
  ASSUME TypeOK, NEW v \in [Files -> Nat]
  PROVE  \E eff \in [0 .. MaxDepth + 1 -> Levels] :
           /\ eff[0] = [f \in Files |-> [time |-> 0, reads |-> {}]]
           /\ \A n \in 1 .. MaxDepth + 1 :
                eff[n] = EffectiveAbove(mk, v, Now, eff[n - 1])
           /\ EffectiveMtime(mk, v, Now) = eff[MaxDepth + 1]
<1> DEFINE L == MaxDepth + 1
           base == [f \in Files |-> [time |-> 0, reads |-> {}]]
           above(b) == EffectiveAbove(mk, v, Now, b)
           step == [n \in 1 .. L |-> [b \in Levels |-> above(b)]]
           body(k) == [n \in 0 .. L |-> IF n = 0 THEN base ELSE above(k[n - 1])]
           eff == CHOOSE k : k = body(k)
<1>1. L \in Nat
  BY DepthAssumption
<1>2. base \in Levels
  BY DEF Levels
<1>3. \A b \in Levels : above(b) \in Levels
  BY AboveTypes
<1>4. step \in [1 .. L -> [Levels -> Levels]]
  <2> HIDE DEF L, above
  <2> QED BY <1>3
<1>5. PICK f : Iterates(f, L, Levels, base, step)
  <2> HIDE DEF L, base, step
  <2> QED BY <1>1, <1>2, <1>4, Recursion
<1>6. /\ f \in [0 .. L -> Levels] /\ f[0] = base
      /\ \A n \in 1 .. L : f[n] = step[n][f[n - 1]]
  <2> HIDE DEF L, base, step
  <2> QED BY <1>5 DEF Iterates
<1>7. \A n \in 1 .. L : f[n - 1] \in Levels /\ f[n] = above(f[n - 1])
  <2>1. \A n \in 1 .. L : n - 1 \in 0 .. L
    BY <1>1
  <2>2. \A n \in 1 .. L : f[n - 1] \in Levels
    <3> HIDE DEF L
    <3> QED BY <1>6, <2>1
  <2> HIDE DEF L, above, base
  <2> QED BY <1>6, <2>2
<1>8. f = body(f)
  <2>1. ASSUME NEW n \in 0 .. L PROVE f[n] = IF n = 0 THEN base ELSE above(f[n - 1])
    <3>1. CASE n = 0
      BY <1>6, <3>1
    <3>2. CASE n \in 1 .. L
      <4> HIDE DEF L, above
      <4> QED BY <1>7, <3>2
    <3> QED BY <1>1, <3>1, <3>2
  <2> HIDE DEF L, above, base
  <2> QED BY <1>6, <2>1
<1>9. eff = body(eff)
  <2> HIDE DEF body
  <2> QED BY <1>8
<1>10. EffectiveMtime(mk, v, Now) = eff[L]
  BY DEF EffectiveMtime, EffectiveTo
<1>11. \A n \in 0 .. L : eff[n] = f[n]
  <2> DEFINE T == {n \in 0 .. L : eff[n] = f[n]}
  <2>1. \A n \in 0 .. L : eff[n] = IF n = 0 THEN base ELSE above(eff[n - 1])
    <3> HIDE DEF L, eff, above, base
    <3> QED BY <1>9
  <2>2. 0 \in T
    <3> HIDE DEF eff, above, base
    <3> QED BY <1>1, <1>6, <2>1
  <2>3. ASSUME NEW n \in 1 .. L, n - 1 \in T PROVE n \in T
    <3>1. eff[n] = above(eff[n - 1]) /\ eff[n - 1] = f[n - 1]
      <4> HIDE DEF eff, above, base
      <4> QED BY <1>1, <2>1, <2>3
    <3>2. f[n] = above(f[n - 1])
      <4> HIDE DEF above
      <4> QED BY <1>7, <2>3
    <3>3. eff[n] = f[n]
      <4> HIDE DEF eff
      <4> QED BY <3>1, <3>2
    <3> HIDE DEF eff
    <3> QED BY <1>1, <3>3
  <2> HIDE DEF T, L
  <2>4. \A n \in 0 .. L : n \in T
    BY <1>1, <2>2, <2>3, Counting
  <2> QED BY <2>4 DEF T
<1>12. EffectiveMtime(mk, v, Now) = f[L]
  <2> HIDE DEF eff
  <2> QED BY <1>1, <1>10, <1>11
<1> HIDE DEF above, base
<1>13. \A n \in 1 .. L : f[n] = above(f[n - 1])
  BY <1>7
<1> QED BY <1>6, <1>12, <1>13 DEF above, base

(* What the goals lead to. *)
LEMMA ReachedHolds ==
  ASSUME TypeOK
  PROVE  /\ Reached(Related) \subseteq Files /\ Range(mk.goals) \subseteq Reached(Related)
         /\ \A f \in Reached(Related) :
              /\ Range(mk.prereqs[f]) \subseteq Reached(Related)
              /\ Range(mk.order_only[f]) \subseteq Reached(Related)
              /\ mk.siblings[f] \subseteq Reached(Related)
<1>1. \A f \in Files : Related(f) \subseteq Files
  BY MakefileOK, RangeIn DEF TypeOK, Related
<1>2. Range(mk.goals) \subseteq Files
  BY MakefileOK, RangeIn DEF TypeOK
<1>3. Reached(Related) \subseteq Files /\ Range(mk.goals) \subseteq Reached(Related)
  BY <1>2 DEF Reached
<1>4. ASSUME NEW f \in Reached(Related), NEW d \in Related(f) PROVE d \in Reached(Related)
  <2>1. d \in Files
    BY <1>1, <1>3, <1>4
  <2> SUFFICES ASSUME NEW D \in SUBSET Files, Range(mk.goals) \subseteq D,
                      \A e \in D : Related(e) \subseteq D
               PROVE  d \in D
    BY <2>1 DEF Reached
  <2>2. f \in D
    BY <1>4 DEF Reached
  <2> QED BY <1>4, <2>2
<1> QED BY <1>3, <1>4 DEF Related

LEMMA BehindHolds ==
  ASSUME TypeOK, NEW t \in Files
  PROVE  /\ Behind(first_disk, t) \subseteq Files
         /\ Range(mk.prereqs[t]) \subseteq Behind(first_disk, t)
         /\ \A p \in Behind(first_disk, t) :
              first_disk[p] = 0 => Behind(first_disk, p) \subseteq Behind(first_disk, t)
<1>1. Range(mk.prereqs[t]) \subseteq Files
  BY MakefileOK, RangeIn DEF TypeOK
<1>2. ASSUME NEW p \in Behind(first_disk, t), first_disk[p] = 0, NEW f \in Behind(first_disk, p)
      PROVE  f \in Behind(first_disk, t)
  <2>1. f \in Files
    BY <1>2 DEF Behind
  <2> SUFFICES ASSUME NEW D \in SUBSET Files, Range(mk.prereqs[t]) \subseteq D,
                      \A q \in D : first_disk[q] = 0 => Range(mk.prereqs[q]) \subseteq D
               PROVE  f \in D
    BY <2>1 DEF Behind
  <2>2. p \in D
    BY <1>2 DEF Behind
  <2> QED BY <1>2, <2>2 DEF Behind
<1> QED BY <1>1, <1>2 DEF Behind

(* m is a bound for what p is made of. *)
Bounds(m, p) == \A f \in Behind(first_disk, p) : first_disk[f] <= m

(* A level at which nothing the goals lead to looks newer than it is. *)
Fits(below) ==
  \A p \in Reached(Related) :
    IF first_disk[p] > 0 THEN below[p].time \in 0 .. first_disk[p]
    ELSE \A m \in Nat : Bounds(m, p) => below[p].time \in 0 .. m

(* What such a level says of the prerequisites of a file that has a bound. *)
LEMMA FitsBelow ==
  ASSUME TypeOK, NothingToDo, NEW below \in Levels, Fits(below),
         NEW t \in Reached(Related), NEW m \in Nat, Bounds(m, t)
  PROVE  \A q \in Range(mk.prereqs[t]) :
           below[q].time \in 0 .. m /\ first_disk[q] \in 0 .. m /\ q \in Reached(Related)
<1> SUFFICES ASSUME NEW q \in Range(mk.prereqs[t])
             PROVE  below[q].time \in 0 .. m /\ first_disk[q] \in 0 .. m /\ q \in Reached(Related)
  OBVIOUS
<1>1. t \in Files /\ q \in Reached(Related) /\ q \in Files
  BY ReachedHolds
<1>2. q \in Behind(first_disk, t) /\ first_disk[q] \in Nat
  BY <1>1, BehindHolds DEF TypeOK
<1>3. first_disk[q] <= m
  BY <1>2 DEF Bounds
<1>4. CASE first_disk[q] > 0
  BY <1>1, <1>2, <1>3, <1>4 DEF Fits
<1>5. CASE first_disk[q] = 0
  <2>1. Bounds(m, q)
    BY <1>1, <1>2, <1>5, BehindHolds DEF Bounds
  <2> QED BY <1>1, <1>2, <1>3, <1>5, <2>1 DEF Fits
<1> QED BY <1>1, <1>2, <1>3, <1>4, <1>5

(* A file that is there is a bound for what it is made of. *)
LEMMA PresentBounds ==
  ASSUME TypeOK, NothingToDo, NEW t \in Reached(Related),
         first_disk[t] > 0 \/ t \in CalledFor
  PROVE  first_disk[t] \in Nat \ {0} /\ Bounds(first_disk[t], t)
<1>1. t \in Files /\ first_disk[t] \in Nat
  BY ReachedHolds DEF TypeOK
<1>2. UpToDate(first_disk, t)
  BY DEF NothingToDo
<1> QED BY <1>1, <1>2 DEF UpToDate, Bounds

LEMMA FitsAbove ==
  ASSUME TypeOK, NothingToDo, NEW below \in Levels, Fits(below)
  PROVE  Fits(EffectiveAbove(mk, first_disk, Now, below))
<1> DEFINE next == EffectiveAbove(mk, first_disk, Now, below)
<1> SUFFICES ASSUME NEW p \in Reached(Related)
             PROVE  IF first_disk[p] > 0 THEN next[p].time \in 0 .. first_disk[p]
                    ELSE \A m \in Nat : Bounds(m, p) => next[p].time \in 0 .. m
  BY DEF Fits
<1>1. p \in Files /\ first_disk[p] \in Nat /\ p \notin mk.phony
  BY ReachedHolds DEF TypeOK, NothingToDo
<1>2. MadeFrom(p) \in Seq(Files) /\ Range(MadeFrom(p)) \subseteq Range(mk.prereqs[p])
  BY <1>1, MakefileOK DEF TypeOK, MadeFrom, Range
<1>3. \A i \in DOMAIN MadeFrom(p) : MadeFrom(p)[i] \in Range(mk.prereqs[p])
  BY <1>2 DEF Range
<1>4. CASE first_disk[p] > 0
  <2> DEFINE newer(q) == below[q].time > first_disk[p]
  <2>1. Bounds(first_disk[p], p)
    BY <1>4, PresentBounds
  <2>2. \A q \in Range(mk.prereqs[p]) : below[q].time \in 0 .. first_disk[p]
    BY <1>1, <2>1, FitsBelow
  <2>3. ~ Found(MadeFrom(p), newer)
    BY <1>1, <1>3, <2>2 DEF Found
  <2>4. next[p].time = IF Found(MadeFrom(p), newer) THEN Now ELSE first_disk[p]
    BY <1>1, <1>4 DEF EffectiveAbove, MadeFrom
  <2> HIDE DEF next, newer
  <2> QED BY <1>1, <1>4, <2>3, <2>4
<1>5. ASSUME first_disk[p] = 0, NEW m \in Nat, Bounds(m, p)
      PROVE  next[p].time \in 0 .. m
  <2> DEFINE S == {below[MadeFrom(p)[i]].time : i \in DOMAIN MadeFrom(p)}
  <2>1. \A q \in Range(mk.prereqs[p]) : below[q].time \in 0 .. m
    BY <1>5, FitsBelow
  <2>2. S \subseteq 0 .. m
    BY <1>3, <2>1
  <2>3. next[p].time = Latest(S)
    BY <1>1, <1>5 DEF EffectiveAbove, MadeFrom
  <2> HIDE DEF next, S
  <2> QED BY <1>5, <2>2, <2>3, LatestBounded
<1> HIDE DEF next
<1> QED BY <1>1, <1>4, <1>5

LEMMA EffectiveFits ==
  ASSUME TypeOK, NothingToDo
  PROVE  /\ EffectiveMtime(mk, first_disk, Now) \in Levels
         /\ Fits(EffectiveMtime(mk, first_disk, Now))
<1> DEFINE L == MaxDepth + 1
<1>1. PICK eff \in [0 .. L -> Levels] :
        /\ eff[0] = [f \in Files |-> [time |-> 0, reads |-> {}]]
        /\ \A n \in 1 .. L : eff[n] = EffectiveAbove(mk, first_disk, Now, eff[n - 1])
        /\ EffectiveMtime(mk, first_disk, Now) = eff[L]
  BY EffectiveSteps DEF TypeOK
<1>2. L \in Nat
  BY DepthAssumption
<1> HIDE DEF L
<1> DEFINE T == {n \in 0 .. L : Fits(eff[n])}
<1>3. 0 \in T
  <2>1. \A p \in Reached(Related) : eff[0][p].time = 0 /\ first_disk[p] \in Nat
    BY <1>1, ReachedHolds DEF TypeOK
  <2>2. Fits(eff[0])
    BY <2>1 DEF Fits
  <2> QED BY <1>2, <2>2
<1>4. ASSUME NEW n \in 1 .. L, n - 1 \in T PROVE n \in T
  <2>1. n - 1 \in 0 .. L /\ n \in 0 .. L
    BY <1>2
  <2>2. eff[n - 1] \in Levels /\ Fits(eff[n - 1])
    BY <1>4, <2>1
  <2>3. Fits(eff[n])
    BY <1>1, <2>2, FitsAbove
  <2> QED BY <2>1, <2>3
<1> HIDE DEF T
<1>5. \A n \in 0 .. L : n \in T
  BY <1>2, <1>3, <1>4, Counting
<1>6. L \in T
  BY <1>2, <1>5
<1>7. L \in 0 .. L
  BY <1>2
<1> QED BY <1>1, <1>6, <1>7 DEF T

(* What is called for, and may only be found up to date.                   *)
Wanted == Reached(Related) \cap CalledFor

LEMMA WantedHolds ==
  ASSUME TypeOK
  PROVE  /\ Wanted \subseteq Reached(Related) /\ Wanted \subseteq Files
         /\ Range(mk.goals) \subseteq Wanted
         /\ \A f \in Reached(Related) :
              /\ Range(mk.order_only[f]) \subseteq Wanted
              /\ mk.siblings[f] \subseteq Wanted
              /\ mk.siblings[f] # {} => Range(mk.prereqs[f]) \subseteq Wanted
<1>1. Wanted \subseteq Reached(Related) /\ Wanted \subseteq Files
  BY ReachedHolds DEF Wanted
<1>2. \A f \in Files : /\ Range(mk.order_only[f]) \subseteq CalledFor
                       /\ mk.siblings[f] \subseteq CalledFor
                       /\ mk.siblings[f] # {} => Range(mk.prereqs[f]) \subseteq CalledFor
  <2> DEFINE grouped == {f \in Files : mk.siblings[f] # {}}
             theirs == UNION {Range(mk.prereqs[f]) \cup mk.siblings[f] : f \in grouped}
             order_only == UNION {Range(mk.order_only[f]) : f \in Files}
  <2>0. CalledFor = Range(mk.goals) \cup order_only \cup theirs
    BY DEF CalledFor
  <2>1. ASSUME NEW f \in Files, mk.siblings[f] # {}
        PROVE  Range(mk.prereqs[f]) \cup mk.siblings[f] \subseteq CalledFor
    <3>1. f \in grouped
      BY <2>1
    <3>2. Range(mk.prereqs[f]) \cup mk.siblings[f] \subseteq theirs
      <4> HIDE DEF grouped
      <4> QED BY <3>1
    <3> HIDE DEF theirs, order_only
    <3> QED BY <2>0, <3>2
  <2>2. \A f \in Files : Range(mk.order_only[f]) \subseteq CalledFor
    BY DEF CalledFor
  <2> QED BY <2>1, <2>2
<1>3. Range(mk.goals) \subseteq CalledFor
  BY DEF CalledFor
<1> QED BY <1>1, <1>2, <1>3, ReachedHolds DEF Wanted

(* The pre-check finds it fresh ... *)
LEMMA FoundFresh ==
  ASSUME TypeOK, NothingToDo, view = first_disk, NEW t \in Wanted
  PROVE  PreCheck(mk, view, Now, t).fresh
<1> DEFINE eff == EffectiveMtime(mk, first_disk, Now)
           newer(p) == \/ p \in mk.phony
                       \/ first_disk[p] = 0 /\ p \notin mk.intermediate
                       \/ first_disk[p] > 0 /\ eff[p].time > first_disk[t]
<1>1. t \in Reached(Related) /\ t \in CalledFor /\ t \in Files
  BY WantedHolds DEF Wanted
<1>2. t \notin mk.phony
  BY <1>1 DEF NothingToDo
<1>3. first_disk[t] \in Nat \ {0} /\ Bounds(first_disk[t], t)
  BY <1>1, PresentBounds
<1>4. \A p \in Range(mk.prereqs[t]) : eff[p].time \in 0 .. first_disk[t] /\ p \in Reached(Related)
  BY <1>1, <1>3, FitsBelow, EffectiveFits
<1>5. \A p \in Reached(Related) :
        p \notin mk.phony /\ (first_disk[p] > 0 \/ p \in mk.intermediate) /\ first_disk[p] \in Nat
  BY ReachedHolds DEF NothingToDo, Required, TypeOK
<1>6. ~ Found(mk.prereqs[t], newer)
  <2>1. \A i \in DOMAIN mk.prereqs[t] : mk.prereqs[t][i] \in Range(mk.prereqs[t])
    BY DEF Range
  <2> HIDE DEF eff
  <2>2. \A p \in Range(mk.prereqs[t]) : ~ newer(p)
    BY <1>3, <1>4, <1>5
  <2> HIDE DEF newer
  <2> QED BY <2>1, <2>2 DEF Found
<1>7. PreCheck(mk, view, Now, t).fresh = ~ Found(mk.prereqs[t], newer)
  <2>1. PreCheck(mk, view, Now, t) = PreCheck(mk, first_disk, Now, t)
    OBVIOUS
  <2> QED BY <1>2, <1>3, <2>1 DEF PreCheck
<1> HIDE DEF newer
<1> QED BY <1>6, <1>7

(* ... and needs_rebuild would too. *)
LEMMA NotStale ==
  ASSUME TypeOK, NothingToDo, view = first_disk, NEW t \in Wanted,
         \A f \in Files : built[f] # "rebuilt"
  PROVE  NeedsRebuild(mk, view, Now, built, t, FALSE).stale = FALSE
<1> DEFINE eff == EffectiveMtime(mk, first_disk, Now)
           newer(p) == IF first_disk[p] > 0 THEN first_disk[p] > first_disk[t]
                       ELSE \/ p \in mk.phony \/ built[p] = "rebuilt"
                            \/ p \notin mk.intermediate
                            \/ eff[p].time > first_disk[t]
<1>1. t \in Reached(Related) /\ t \in CalledFor /\ t \in Files
  BY WantedHolds DEF Wanted
<1>2. first_disk[t] \in Nat \ {0} /\ Bounds(first_disk[t], t)
  BY <1>1, PresentBounds
<1>3. \A p \in Range(mk.prereqs[t]) :
        /\ eff[p].time \in 0 .. first_disk[t] /\ first_disk[p] \in 0 .. first_disk[t]
        /\ p \in Reached(Related)
  BY <1>1, <1>2, FitsBelow, EffectiveFits
<1>4. \A p \in Reached(Related) :
        /\ p \notin mk.phony /\ (first_disk[p] > 0 \/ p \in mk.intermediate)
        /\ built[p] # "rebuilt"
  BY ReachedHolds DEF NothingToDo, Required
<1>5. ~ Found(mk.prereqs[t], newer)
  <2>1. \A i \in DOMAIN mk.prereqs[t] : mk.prereqs[t][i] \in Range(mk.prereqs[t])
    BY DEF Range
  <2> HIDE DEF eff
  <2>2. \A p \in Range(mk.prereqs[t]) : ~ newer(p)
    BY <1>2, <1>3, <1>4
  <2> HIDE DEF newer
  <2> QED BY <2>1, <2>2 DEF Found
<1>6. NeedsRebuild(mk, view, Now, built, t, FALSE).stale = Found(mk.prereqs[t], newer)
  <2>1. NeedsRebuild(mk, view, Now, built, t, FALSE)
          = NeedsRebuild(mk, first_disk, Now, built, t, FALSE)
    OBVIOUS
  <2> QED BY <1>2, <2>1 DEF NeedsRebuild
<1>7. Found(mk.prereqs[t], newer) \in BOOLEAN
  <2> HIDE DEF newer
  <2> QED BY DEF Found
<1> HIDE DEF newer
<1> QED BY <1>5, <1>6, <1>7

(* A frame of such a build. *)
Quiet(f) ==
  /\ f.target \in Wanted /\ f.phase # "single" /\ ~f.rebuilt /\ ~f.failed
  /\ \A list \in {f.agenda} \cup Range(f.others) : \A d \in Range(list) : d.file \in Wanted

(* Nothing has happened, and nothing but what is wanted will be called.    *)
Idle ==
  /\ log = <<>> /\ disk = first_disk
  /\ \A f \in Files : mtime_cache[f] \in {Unread, first_disk[f]}
  /\ failed_targets = {} /\ intermediate_built = {}
  /\ \A f \in Files : built[f] # "rebuilt"
  /\ ret \in {"none", "reused"}
  /\ Range(goals) \subseteq Wanted
  /\ \A f \in Range(stack) : Quiet(f)

(* Whether there is anything to do is settled at the start. *)
LEMMA SameNothing ==
  ASSUME UNCHANGED given
  PROVE  (NothingToDo' <=> NothingToDo) /\ Wanted' = Wanted
<1> USE DEF given
<1>1. \A f : Related(f)' = Related(f)
  BY DEF Related
<1>2. Reached(Related)' = Reached(Related)
  BY <1>1 DEF Reached
<1>3. CalledFor' = CalledFor
  BY DEF CalledFor
<1>4. \A t : UpToDate(first_disk, t)' <=> UpToDate(first_disk, t)
  BY DEF UpToDate, Behind
<1> QED BY <1>2, <1>3, <1>4 DEF NothingToDo, Wanted, Required

LEMMA IdleView ==
  ASSUME TypeOK, Idle
  PROVE  view = first_disk /\ \A R : \A f \in Files : Remembering(R)[f] \in {Unread, first_disk[f]}
<1>1. \A f \in Files : view[f] = first_disk[f]
  BY DEF Idle, view, TypeOK, Unread
<1>2. view = first_disk
  BY <1>1 DEF TypeOK, view
<1> QED BY <1>2 DEF Idle, Remembering

LEMMA CallWanted ==
  ASSUME TypeOK, Idle, NEW t, Calling(t)
  PROVE  t \in Wanted
<1>1. CASE stack = <<>>
  <2>1. Head(goals) \in Range(goals)
    BY <1>1, TailRange DEF TypeOK, Calling
  <2> QED BY <1>1, <2>1 DEF Calling, Idle
<1>2. CASE stack # <<>>
  <2>1. top \in Range(stack) /\ top.agenda \in Seq(Dep)
    BY <1>2, TopFrame DEF TypeOK, Frame
  <2>2. top.agenda # <<>> /\ t = Head(top.agenda).file
    BY <1>2 DEF Calling
  <2>3. Head(top.agenda) \in Range(top.agenda)
    BY <2>1, <2>2, TailRange
  <2> QED BY <2>1, <2>2, <2>3 DEF Idle, Quiet
<1> QED BY <1>1, <1>2

LEMMA PushIdle ==
  ASSUME TypeOK, Idle, NEW frame \in Frame, Push(frame), Quiet(frame),
         \A f \in Files : mtime_cache'[f] \in {Unread, first_disk[f]}
  PROVE  Idle'
<1>1. UNCHANGED <<given, disk, failed_targets, intermediate_built, built, ret, goals, log>>
  BY DEF Push, memo
<1>2. first_disk' = first_disk /\ Wanted' = Wanted
  BY <1>1, SameNothing DEF given
<1>3. Range(stack') = Range(stack) \cup {frame}
  BY AppendRange DEF TypeOK, Push
<1>4. \A f \in Range(stack') : Quiet(f)'
  BY <1>2, <1>3 DEF Idle, Quiet
<1> QED BY <1>1, <1>2, <1>4 DEF Idle

(* What the lists of calls of a wanted target ask for. *)
LEMMA NeedsWanted ==
  ASSUME TypeOK, NEW t \in Reached(Related)
  PROVE  /\ \A d \in Range(OrderOnlyNeeds(t)) : d.file \in Wanted
         /\ mk.siblings[t] # {} =>
              \A d \in Range(Needs(t)) \cup Range(SiblingNeeds(t)) : d.file \in Wanted
<1>1. t \in Files /\ IsMakefile(mk)
  BY ReachedHolds DEF TypeOK
<1>2. \A d \in Range(OrderOnlyNeeds(t)) : d.file \in Range(mk.order_only[t])
  <2>1. mk.order_only[t] \in Seq(Files)
    BY <1>1, MakefileOK
  <2>2. Range(OrderOnlyNeeds(t)) = {[file |-> p, normal |-> FALSE] : p \in Range(mk.order_only[t])}
    BY <2>1, TaggedHolds DEF OrderOnlyNeeds
  <2> QED BY <2>2
<1>3. Range(mk.order_only[t]) \subseteq Wanted
  BY WantedHolds
<1>4. \A d \in Range(Needs(t)) \cup Range(SiblingNeeds(t)) :
        d.file \in Range(mk.prereqs[t]) \cup Range(mk.order_only[t])
  BY <1>1, NeedsAsked
<1>5. mk.siblings[t] # {} => Range(mk.prereqs[t]) \subseteq Wanted
  BY WantedHolds
<1> QED BY <1>2, <1>3, <1>4, <1>5

LEMMA BuildTargetIdle ==
  ASSUME TypeOK, NothingToDo, Idle, NEW t \in Files, BuildTarget(t)
  PROVE  Idle'
<1>1. /\ t \in Wanted /\ t \in Reached(Related) /\ t \in CalledFor
      /\ view = first_disk /\ IsMakefile(mk)
  BY CallWanted, IdleView DEF BuildTarget, Memoized, DropCycle, Leaf,
     EnterFresh, EnterSingle, EnterGroup, Wanted, TypeOK
<1>2. ASSUME UNCHANGED <<given, files, intermediate_built, failed_targets, stack, goals, log>>,
             \A f \in Files : built'[f] # "rebuilt", ret' \in {"none", "reused"}
      PROVE  Idle'
  <2>1. first_disk' = first_disk /\ Wanted' = Wanted
    BY <1>2, SameNothing DEF given
  <2> QED BY <1>2, <2>1 DEF Idle, Quiet, files
<1>3. CASE Memoized(t)
  <2>1. built[t] # NotBuilt /\ Return(built[t])
    BY <1>3 DEF Memoized, Idle
  <2>2. ret' = "reused"
    BY <2>1 DEF Idle, TypeOK, Results, Return
  <2> QED BY <1>2, <1>3, <2>2 DEF Memoized, memo, Idle
<1>4. CASE DropCycle(t)
  BY <1>2, <1>4 DEF DropCycle, Return, Idle, TypeOK
<1>5. CASE Leaf(t)
  <2>1. disk[t] > 0
    BY <1>1, PresentBounds DEF Idle
  <2>2. Record(t, "reused", {}) /\ Return("reused")
    BY <1>5, <2>1 DEF Leaf
  <2>3. \A f \in Files : built'[f] # "rebuilt"
    BY <2>2 DEF Record, Recording, Covering, Idle
  <2> QED BY <1>2, <1>5, <2>2, <2>3 DEF Leaf, Record, Return
<1>6. Range(<<>>) = {}
  BY DEF Range
<1>7. ASSUME NEW frame, Push(frame)
      PROVE  frame \in Frame
  <2>1. stack' = Append(stack, frame) /\ stack \in Seq(Frame) /\ stack' \in Seq(Frame)
    BY <1>7, BuildTargetTypes DEF Push, TypeOK
  <2>2. Len(stack) + 1 \in DOMAIN stack' /\ stack'[Len(stack) + 1] = frame
    BY <2>1
  <2> QED BY <2>1, <2>2
<1>8. CASE EnterFresh(t)
  <2> DEFINE ofDeleted == [i \in DOMAIN mk.prereqs[t] |->
                             IF Skippable(mk, view, mk.prereqs[t][i])
                             THEN OrderOnlyNeeds(mk.prereqs[t][i]) ELSE <<>>]
             others == Append(ofDeleted, OrderOnlyNeeds(t))
             frame == [NewFrame(t, "fresh") EXCEPT !.agenda = <<>>, !.others = others]
  <2>1. Push(frame) /\ \A f \in Files : mtime_cache'[f] \in {Unread, first_disk[f]}
    BY <1>8, IdleView DEF EnterFresh
  <2>2. frame \in Frame
    <3> HIDE DEF frame
    <3> QED BY <1>7, <2>1
  <2>3. mk.prereqs[t] \in Seq(Files)
    BY <1>1, MakefileOK
  <2>4. /\ ofDeleted \in Seq(Seq(Dep))
        /\ \A list \in Range(ofDeleted) : \A d \in Range(list) : d.file \in Wanted
    <3>1. /\ Len(mk.prereqs[t]) \in Nat /\ DOMAIN mk.prereqs[t] = 1 .. Len(mk.prereqs[t])
          /\ \A i \in DOMAIN mk.prereqs[t] :
               mk.prereqs[t][i] \in Files /\ mk.prereqs[t][i] \in Range(mk.prereqs[t])
      BY <2>3 DEF Range
    <3>2. <<>> \in Seq(Dep)
      OBVIOUS
    <3>3. \A p \in Files : OrderOnlyNeeds(p) \in Seq(Dep)
      BY NeedsHold DEF TypeOK
    <3>4. ofDeleted \in [1 .. Len(mk.prereqs[t]) -> Seq(Dep)]
      BY <3>1, <3>2, <3>3
    <3>5. \A p \in Range(mk.prereqs[t]) : \A d \in Range(OrderOnlyNeeds(p)) : d.file \in Wanted
      BY <1>1, ReachedHolds, NeedsWanted
    <3>6. \A i \in DOMAIN mk.prereqs[t] : \A d \in Range(ofDeleted[i]) : d.file \in Wanted
      BY <1>6, <3>1, <3>5
    <3>7. DOMAIN ofDeleted = DOMAIN mk.prereqs[t]
      OBVIOUS
    <3> HIDE DEF ofDeleted
    <3> QED BY <3>1, <3>4, <3>6, <3>7 DEF Range
  <2>5. Range(others) = Range(ofDeleted) \cup {OrderOnlyNeeds(t)}
    <3>1. OrderOnlyNeeds(t) \in Seq(Dep)
      BY NeedsHold DEF TypeOK
    <3> HIDE DEF ofDeleted
    <3> QED BY <2>4, <3>1, AppendRange
  <2>6. /\ frame.target = t /\ frame.agenda = <<>> /\ frame.others = others
        /\ frame.phase = "fresh" /\ ~frame.rebuilt /\ ~frame.failed
    <3> HIDE DEF others
    <3> QED BY DEF NewFrame
  <2> HIDE DEF frame, others
  <2>7. Quiet(frame)
    BY <1>1, <1>6, <2>4, <2>5, <2>6, NeedsWanted DEF Quiet
  <2> QED BY <2>1, <2>2, <2>7, PushIdle
<1>9. CASE EnterSingle(t)
  <2>1. ~ always_make /\ PreCheck(mk, view, Now, t).fresh
    BY <1>1, FoundFresh DEF NothingToDo
  <2> QED BY <1>9, <2>1 DEF EnterSingle
<1>10. CASE EnterGroup(t)
  <2>1. PICK order \in SetToSeqs(SiblingsToBuild(t)) :
               Push([NewFrame(t, "group") EXCEPT !.siblings = order])
    BY <1>10 DEF EnterGroup
  <2> DEFINE frame == [NewFrame(t, "group") EXCEPT !.siblings = order]
  <2>2. /\ frame.target = t /\ frame.agenda = Needs(t) /\ frame.others = <<>>
        /\ frame.phase = "group" /\ ~frame.rebuilt /\ ~frame.failed
    BY DEF NewFrame
  <2>3. mk.siblings[t] # {}
    BY <1>10 DEF EnterGroup, SiblingsToBuild
  <2> HIDE DEF frame
  <2>4. Quiet(frame)
    BY <1>1, <1>6, <2>2, <2>3, NeedsWanted DEF Quiet
  <2>5. Push(frame) /\ UNCHANGED mtime_cache
    BY <1>10, <2>1 DEF EnterGroup, frame
  <2> QED BY <1>7, <2>4, <2>5, PushIdle DEF Idle
<1> QED BY <1>3, <1>4, <1>5, <1>8, <1>9, <1>10 DEF BuildTarget

LEMMA FrameStepIdle ==
  ASSUME TypeOK, StackInv, NothingToDo, Idle, Resume \/ NextList \/ BuildSiblings
  PROVE  Idle'
<1>1. /\ stack # <<>> /\ UNCHANGED <<given, files, memo, goals, log>>
      /\ ret' \in {"none", "reused"}
  BY DEF Resume, NextList, BuildSiblings, Finishing, Listed, Idle
<1>2. /\ top \in Frame /\ top \in Range(stack) /\ Quiet(top)
      /\ top.agenda \in Seq(Dep) /\ top.others \in Seq(Seq(Dep)) /\ top.siblings \in Seq(Files)
  BY <1>1, TopFrame DEF TypeOK, Frame, Idle
<1>3. ASSUME NEW frame, ReplaceTop(frame), Quiet(frame)
      PROVE  Idle'
  <2>1. first_disk' = first_disk /\ Wanted' = Wanted
    BY <1>1, SameNothing DEF given
  <2>2. Range(stack') \subseteq Range(stack) \cup {frame}
    BY <1>1, <1>3, TopFrame DEF TypeOK, ReplaceTop, Range
  <2>3. \A f \in Range(stack') : Quiet(f)'
    BY <1>3, <2>1, <2>2 DEF Idle, Quiet
  <2> QED BY <1>1, <2>1, <2>3 DEF Idle, files, memo
<1>4. CASE Resume
  <2>1. top.agenda # <<>>
    BY <1>1, <1>4 DEF Resume, StackInv, CallPending
  <2>2. Range(Tail(top.agenda)) \subseteq Range(top.agenda)
    BY <1>2, <2>1, TailHolds
  <2> DEFINE frame == [top EXCEPT
               !.agenda  = Tail(@),
               !.rebuilt = @ \/ (Head(top.agenda).normal /\ ret = "rebuilt"),
               !.failed  = @ \/ (Head(top.agenda).normal /\ ret = "error")]
  <2>3. ReplaceTop(frame)
    BY <1>4 DEF Resume
  <2>4. ret # "rebuilt" /\ ret # "error" /\ ~top.rebuilt /\ ~top.failed
    BY <1>2 DEF Idle, Quiet
  <2>5. /\ frame.target = top.target /\ frame.phase = top.phase
        /\ frame.agenda = Tail(top.agenda) /\ frame.others = top.others
        /\ ~frame.rebuilt /\ ~frame.failed
    BY <1>2, <2>4 DEF Frame
  <2> HIDE DEF frame
  <2>6. Quiet(frame)
    BY <1>2, <2>2, <2>5 DEF Quiet
  <2> QED BY <1>3, <2>3, <2>6
<1>5. CASE NextList
  <2> DEFINE frame == [top EXCEPT !.agenda = Head(top.others), !.others = Tail(@)]
  <2>1. ReplaceTop(frame) /\ top.others # <<>>
    BY <1>5 DEF NextList
  <2>2. /\ frame.target = top.target /\ frame.phase = top.phase
        /\ frame.agenda = Head(top.others) /\ frame.others = Tail(top.others)
        /\ frame.rebuilt = top.rebuilt /\ frame.failed = top.failed
    BY <1>2 DEF Frame
  <2>3. Range(top.others) = Range(Tail(top.others)) \cup {Head(top.others)}
    BY <1>2, <2>1, TailHolds
  <2> HIDE DEF frame
  <2>4. Quiet(frame)
    BY <1>2, <2>2, <2>3 DEF Quiet
  <2> QED BY <1>3, <2>1, <2>4
<1>6. CASE BuildSiblings
  <2> DEFINE others == [i \in DOMAIN top.siblings |-> SiblingNeeds(top.siblings[i])]
             frame == [top EXCEPT !.phase = "siblings", !.others = others]
  <2>1. ReplaceTop(frame)
    BY <1>6 DEF BuildSiblings
  <2>2. /\ frame.target = top.target /\ frame.phase = "siblings"
        /\ frame.agenda = top.agenda /\ frame.others = others
        /\ frame.rebuilt = top.rebuilt /\ frame.failed = top.failed
    <3> HIDE DEF others
    <3> QED BY <1>2 DEF Frame
  <2>3. ASSUME NEW s \in Range(top.siblings)
        PROVE  \A d \in Range(SiblingNeeds(s)) : d.file \in Wanted
    <3>1. top.target \in Reached(Related) /\ top.target \in Files
      BY <1>2, ReachedHolds DEF Quiet, Wanted
    <3>2. s \in mk.siblings[top.target]
      BY <1>2 DEF StackInv, GroupFrames, FrameGroup
    <3>3. s \in Reached(Related) /\ mk.siblings[s] # {}
      BY <3>1, <3>2, ReachedHolds DEF TypeOK, IsMakefile
    <3> QED BY <3>3, NeedsWanted
  <2>4. \A list \in Range(others) : \A d \in Range(list) : d.file \in Wanted
    BY <2>3 DEF Range
  <2> HIDE DEF frame, others
  <2>5. Quiet(frame)
    BY <1>2, <2>2, <2>4 DEF Quiet
  <2> QED BY <1>3, <2>1, <2>5
<1> QED BY <1>4, <1>5, <1>6

(* No recipe is decided on. *)
LEMMA DecidedAgainst ==
  ASSUME TypeOK, StackInv, NothingToDo, Idle, Deciding
  PROVE  Decision.stale = FALSE
<1>1. stack # <<>>
  BY DEF Deciding, Finishing, Listed
<1>2. Quiet(top) /\ top \in Frame /\ FrameGroup(top)
  BY <1>1, TopFrame DEF TypeOK, Idle, StackInv, GroupFrames
<1>3. top.target \in Reached(Related) /\ top.target \in Wanted /\ ~top.rebuilt
  BY <1>2 DEF Quiet, Wanted
<1>4. view = first_disk /\ \A f \in Files : built[f] # "rebuilt"
  BY IdleView DEF Idle
<1>5. top.rebuilt = FALSE
  BY <1>2, <1>3 DEF Frame
<1>6. \A t \in Wanted : NeedsRebuild(mk, view, Now, built, t, FALSE).stale = FALSE
  BY <1>4, NotStale
<1>7. \A i \in DOMAIN top.siblings : top.siblings[i] \in Wanted
  BY <1>2, <1>3, WantedHolds DEF FrameGroup, Range
<1>8. ~always_make /\ top.target \notin mk.phony
  BY <1>3 DEF NothingToDo
<1> DEFINE stale(s) == NeedsRebuild(mk, view, Now, built, s, FALSE).stale
<1>9. ~ Found(top.siblings, stale)
  BY <1>6, <1>7 DEF Found
<1>10. NeedsRebuild(mk, view, Now, built, top.target, top.rebuilt).stale = FALSE
  BY <1>3, <1>5, <1>6
<1>11. Decision.stale = Found(top.siblings, stale)
  <2> HIDE DEF stale
  <2> QED BY <1>8, <1>10 DEF Decision, stale
<1>12. Found(top.siblings, stale) \in BOOLEAN
  BY DEF Found
<1> HIDE DEF stale
<1> QED BY <1>9, <1>11, <1>12

(* A frame ends with nothing done. *)
LEMMA EndsIdle ==
  ASSUME TypeOK, StackInv, NothingToDo, Idle, Ends
  PROVE  Idle'
<1>1. stack # <<>>
  BY EndsPop
<1>2. Quiet(top)
  BY <1>1, TopFrame DEF TypeOK, Idle
<1>3. FinishFresh \/ Skip
  <2>1. ~ Abandon
    BY DEF Abandon, MustStop, Idle
  <2>2. ~ FailPrereqs
    BY <1>2 DEF FailPrereqs, Quiet
  <2>3. ~ NoRecipe
    BY <1>2 DEF NoRecipe, Finishing, Quiet
  <2>4. ~ RunEmpty /\ ~ RunRecipe /\ ~ RecipeFails
    BY DecidedAgainst DEF RunEmpty, RunRecipe, RecipeFails
  <2> QED BY <2>1, <2>2, <2>3, <2>4 DEF Ends
<1>4. /\ \E S : Pop("reused", S)
      /\ UNCHANGED <<given, disk, goals, log, intermediate_built>>
      /\ \A f \in Files : mtime_cache'[f] \in {Unread, first_disk[f]}
  <2>1. CASE FinishFresh
    BY <2>1 DEF FinishFresh, files, Idle
  <2>2. CASE Skip
    BY <2>2, IdleView DEF Skip
  <2> QED BY <1>3, <2>1, <2>2
<1>5. PICK S : Pop("reused", S)
  BY <1>4
<1>6. /\ UNCHANGED failed_targets /\ ret' = "reused"
      /\ \A f \in Files : built'[f] # "rebuilt"
  BY <1>5 DEF Pop, Record, Recording, Covering, Return, Idle
<1>7. Range(stack') \subseteq Range(stack)
  BY <1>1, <1>5, TopFrame DEF TypeOK, Pop, Range
<1>8. first_disk' = first_disk /\ Wanted' = Wanted
  BY <1>4, SameNothing DEF given
<1> QED BY <1>4, <1>6, <1>7, <1>8 DEF Idle, Quiet

LEMMA GoalStepIdle ==
  ASSUME TypeOK, CallPending, NothingToDo, Idle, NextGoal \/ GoalFails \/ Finish
  PROVE  Idle'
<1>1. CASE NextGoal
  <2>1. goals # <<>>
    BY <1>1 DEF NextGoal, CallPending
  <2>2. Range(goals') \subseteq Range(goals)
    BY <1>1, <2>1, TailHolds DEF TypeOK, NextGoal
  <2>3. first_disk' = first_disk /\ Wanted' = Wanted
    BY <1>1, SameNothing DEF NextGoal, given
  <2> QED BY <1>1, <2>2, <2>3 DEF NextGoal, Idle, Quiet, files, memo
<1>2. CASE GoalFails \/ Finish
  <2>1. PICK result : End(result) /\ UNCHANGED <<goals, errors>>
    BY <1>2 DEF GoalFails, Finish
  <2>2. intermediate_built' = {} /\ disk' = disk
    BY <2>1 DEF End, Idle, TypeOK
  <2>3. first_disk' = first_disk /\ Wanted' = Wanted
    BY <2>1, SameNothing DEF End, given
  <2> QED BY <2>1, <2>2, <2>3 DEF End, Idle, Quiet
<1> QED BY <1>1, <1>2

IdleInv == NothingToDo => Idle

LEMMA InitIdle == Init => IdleInv
<1> SUFFICES ASSUME Init PROVE Idle
  BY DEF IdleInv
<1>1. TypeOK
  BY InitTypes
<1>2. Range(stack) = {}
  BY DEF Init, Range
<1>3. Range(goals) \subseteq Wanted
  BY <1>1, WantedHolds DEF Init
<1>4. /\ log = <<>> /\ disk = first_disk /\ failed_targets = {} /\ intermediate_built = {}
      /\ \A f \in Files : mtime_cache[f] = Unread /\ built[f] = NotBuilt
      /\ ret = "none"
  BY DEF Init
<1>5. NotBuilt # "rebuilt"
  BY DEF NotBuilt
<1> QED BY <1>2, <1>3, <1>4, <1>5 DEF Idle

LEMMA GivenStays ==
  ASSUME Next
  PROVE  UNCHANGED given
BY DEF Next, BuildTarget, Memoized, DropCycle, Leaf, EnterFresh, EnterSingle, EnterGroup, Push,
   Resume, Abandon, NextList, FinishFresh, FailPrereqs, NoRecipe, BuildSiblings, Skip,
   RunEmpty, RunRecipe, RecipeFails, NextGoal, GoalFails, Finish, End

LEMMA NextIdle ==
  ASSUME TypeOK, StackInv, IdleInv, Next
  PROVE  IdleInv'
<1>1. UNCHANGED given
  BY GivenStays
<1>2. CASE ~ NothingToDo
  BY <1>1, <1>2, SameNothing DEF IdleInv
<1>3. CASE NothingToDo
  <2>1. Idle
    BY <1>3 DEF IdleInv
  <2> QED BY <1>3, <2>1, NextCases, BuildTargetIdle, FrameStepIdle, EndsIdle, GoalStepIdle
        DEF IdleInv, StackInv
<1> QED BY <1>2, <1>3

LEMMA StutterIdle == IdleInv /\ UNCHANGED vars => IdleInv'
<1> SUFFICES ASSUME IdleInv, UNCHANGED vars PROVE IdleInv'
  OBVIOUS
<1>1. UNCHANGED <<given, files, memo, stack, goals, ret, log>>
  BY DEF vars, calls
<1>2. (NothingToDo' <=> NothingToDo) /\ Wanted' = Wanted /\ first_disk' = first_disk
  BY <1>1, SameNothing DEF given
<1> QED BY <1>1, <1>2 DEF IdleInv, Idle, Quiet, files, memo

(* A build that has nothing to do runs no recipe: the walk, the pre-check,  *)
(* needs_rebuild and effective_mtime, to whatever depth it looks, agree.    *)
THEOREM NothingDone == Spec => []NullBuild
<1>1. IInv /\ IdleInv /\ [Next]_vars => IdleInv'
  BY NextIdle, StutterIdle DEF IInv
<1>2. IdleInv => NullBuild
  BY DEF IdleInv, Idle, NullBuild
<1> QED BY <1>1, <1>2, InitIdle, Invariant, PTL DEF Spec
-----------------------------------------------------------------------------
(* What the build leaves is up to date.                                    *)

(* The targets of the recipes run. *)
Ran == {log[i].target : i \in DOMAIN log}

(* The files that were not older than what they need, and these than what  *)
(* they need, down to the sources: no recipe of theirs is to run.          *)
Closed(D) ==
  \A f \in D : /\ f \notin mk.phony /\ first_disk[f] > 0
               /\ \A p \in Range(mk.prereqs[f]) : p \in D /\ first_disk[p] <= first_disk[f]

Sound == IF always_make THEN {} ELSE UNION {D \in SUBSET Files : Closed(D)}

LEMMA SoundHolds ==
  /\ Sound \subseteq Files
  /\ \A f \in Sound :
       /\ ~always_make /\ f \notin mk.phony /\ first_disk[f] > 0
       /\ \A p \in Range(mk.prereqs[f]) : p \in Sound /\ first_disk[p] <= first_disk[f]
BY DEF Sound, Closed

LEMMA SoundGrows ==
  ASSUME NEW f \in Files, ~always_make, f \notin mk.phony, first_disk[f] > 0,
         \A p \in Range(mk.prereqs[f]) : p \in Sound /\ first_disk[p] <= first_disk[f]
  PROVE  f \in Sound
<1> DEFINE D == Sound \cup {f}
<1>1. D \in SUBSET Files
  BY SoundHolds
<1>2. Closed(D)
  BY SoundHolds DEF Closed
<1>3. f \in D
  OBVIOUS
<1> HIDE DEF D
<1> QED BY <1>1, <1>2, <1>3 DEF Sound

(* Which builds are plain, and what is sound, is settled at the start.     *)
LEMMA SamePlain ==
  ASSUME UNCHANGED given
  PROVE  (Plain' <=> Plain) /\ Sound' = Sound
<1> USE DEF given
<1>1. Plain' <=> Plain
  BY DEF Plain, OwnOutput, SelfMaking, NoHoles, NoPhonyFiles, Ungrouped, Shallow
<1>2. \A D : Closed(D)' <=> Closed(D)
  BY DEF Closed
<1>3. Sound' = Sound
  BY <1>2 DEF Sound
<1> QED BY <1>1, <1>3

(* The times of one more level of effective_mtime. *)
LEMMA AboveTimes ==
  ASSUME TypeOK, NEW v \in [Files -> Nat], NEW below \in Levels, NEW f \in Files
  PROVE  LET time == EffectiveAbove(mk, v, Now, below)[f].time
             needed == Range(mk.prereqs[f])
         IN  /\ v[f] > 0 => time \in {v[f], Now}
             /\ v[f] > 0 /\ time # Now => \A p \in needed : below[p].time <= v[f]
             /\ v[f] = 0 /\ f \in mk.phony => time = Now
             /\ v[f] = 0 /\ f \notin mk.phony => \A p \in needed : below[p].time <= time
<1> DEFINE next == EffectiveAbove(mk, v, Now, below)
           newer(p) == below[p].time > v[f]
           S == {below[MadeFrom(f)[i]].time : i \in DOMAIN MadeFrom(f)}
<1>1. MadeFrom(f) = mk.prereqs[f] /\ mk.prereqs[f] \in Seq(Files)
  BY DEF TypeOK, IsMakefile, MadeFrom
<1>2. next[f].time = IF v[f] > 0 THEN IF Found(MadeFrom(f), newer) THEN Now ELSE v[f]
                     ELSE IF f \in mk.phony THEN Now ELSE Latest(S)
  BY DEF EffectiveAbove, MadeFrom
<1>3. \A p \in Range(mk.prereqs[f]) :
        /\ \E i \in DOMAIN MadeFrom(f) : MadeFrom(f)[i] = p
        /\ p \in Files /\ below[p].time \in Nat
  BY <1>1, RangeIn DEF Range, Levels
<1>4. v[f] \in Nat
  OBVIOUS
<1>5. ~ Found(MadeFrom(f), newer) => \A p \in Range(mk.prereqs[f]) : below[p].time <= v[f]
  <2>1. ~ Found(MadeFrom(f), newer) => \A p \in Range(mk.prereqs[f]) : ~ newer(p)
    <3> HIDE DEF newer
    <3> QED BY <1>3 DEF Found
  <2> QED BY <1>3, <1>4, <2>1
<1>6. \A p \in Range(mk.prereqs[f]) : below[p].time <= Latest(S)
  <2> DEFINE g == [p \in Files |-> below[p].time]
  <2>1. g \in [Files -> Nat]
    BY DEF Levels
  <2>2. PICK m \in Nat : \A i \in DOMAIN MadeFrom(f) : g[MadeFrom(f)[i]] \in 0 .. m
    <3> HIDE DEF g
    <3> QED BY <1>1, <2>1, TimesBounded
  <2>3. \A i \in DOMAIN MadeFrom(f) : g[MadeFrom(f)[i]] = below[MadeFrom(f)[i]].time
    BY <1>1
  <2>4. S \subseteq 0 .. m
    BY <2>2, <2>3
  <2>5. \A p \in Range(mk.prereqs[f]) : below[p].time \in S
    BY <1>3
  <2> HIDE DEF S, g
  <2> QED BY <2>4, <2>5, LatestBounded
<1> HIDE DEF next, newer, S
<1> QED BY <1>2, <1>4, <1>5, <1>6 DEF next

(* The times believed: those of the start, or later, and none to come. *)
Believed ==
  /\ Start <= clock
  /\ \A f \in Files : (view[f] = first_disk[f] \/ view[f] > Start) /\ view[f] <= clock

(* effective_mtime never answers less than the time of a file that is      *)
(* there.                                                                  *)
LEMMA EffectiveAtLeast ==
  ASSUME TypeOK, Believed, NEW below \in Levels, NEW f \in Files
  PROVE  view[f] <= EffectiveAbove(mk, view, Now, below)[f].time
<1> DEFINE next == EffectiveAbove(mk, view, Now, below)
<1>1. view \in [Files -> Nat]
  BY CacheTypes
<1>2. next \in Levels
  BY <1>1, AboveTypes
<1>3. view[f] \in Nat /\ next[f].time \in Nat /\ clock \in Nat /\ view[f] <= clock
  BY <1>1, <1>2 DEF Levels, Believed, TypeOK
<1>4. view[f] > 0 => next[f].time \in {view[f], Now}
  BY <1>1, AboveTimes
<1> HIDE DEF next
<1>5. view[f] <= next[f].time
  BY <1>3, <1>4 DEF Now
<1> QED BY <1>5 DEF next

(* It is there, and so is what it needs. *)
Firm(p) ==
  first_disk[p] > 0 /\ \A q \in Range(mk.prereqs[p]) : first_disk[q] > 0 \/ q \in mk.phony

(* What makes the answer of effective_mtime right, level by level. *)
Tells(time, rank, n) ==
  \A p \in Files : rank[p] < n /\ Firm(p) /\ time[p].time <= Start
                     => p \in Sound /\ time[p].time = first_disk[p]

LEMMA TellsAbove ==
  ASSUME TypeOK, Plain, ~always_make, Believed, NEW n \in Nat \ {0}, NEW below \in Levels,
         n > 1 => \A q \in Files : view[q] <= below[q].time,
         n > 1 => \A q \in mk.phony : view[q] = 0 => below[q].time = Now,
         NEW rank \in [Files -> Nat],
         \A f \in Files : \A p \in Range(mk.prereqs[f]) : rank[p] < rank[f],
         Tells(below, rank, n - 1)
  PROVE  Tells(EffectiveAbove(mk, view, Now, below), rank, n)
<1> DEFINE next == EffectiveAbove(mk, view, Now, below)
<1> SUFFICES ASSUME NEW p \in Files, rank[p] < n, Firm(p), next[p].time <= Start
             PROVE  p \in Sound /\ next[p].time = first_disk[p]
  BY DEF Tells
<1>1. /\ view \in [Files -> Nat] /\ first_disk \in [Files -> Nat]
      /\ clock \in Nat /\ Start \in Nat /\ Start <= clock
  BY CacheTypes, TimesAssumption DEF TypeOK, Believed
<1>2. /\ Now \in Nat /\ Now > Start /\ view[p] \in Nat
      /\ first_disk[p] \in Nat \ {0} /\ rank[p] \in Nat
  BY <1>1 DEF Now, Firm
<1>3. view[p] > 0 /\ (view[p] = first_disk[p] \/ view[p] > Start)
  BY <1>1, <1>2 DEF Believed
<1>4. /\ next[p].time \in {view[p], Now}
      /\ next[p].time # Now => \A q \in Range(mk.prereqs[p]) : below[q].time <= view[p]
  BY <1>1, <1>3, AboveTimes
<1> HIDE DEF next
<1>5. next[p].time = view[p] /\ view[p] = first_disk[p] /\ view[p] <= Start
  BY <1>1, <1>2, <1>3, <1>4
<1>6. \A q \in Range(mk.prereqs[p]) : below[q].time <= first_disk[p]
  BY <1>1, <1>2, <1>4, <1>5
<1>7. p \notin mk.phony
  BY <1>2 DEF Plain, NoPhonyFiles
<1>8. ASSUME NEW q \in Range(mk.prereqs[p])
      PROVE  q \in Sound /\ first_disk[q] <= first_disk[p]
  <2>1. q \in Files
    BY MakefileOK, RangeIn DEF TypeOK
  <2>2. rank[q] < rank[p] /\ rank[q] \in Nat
    BY <2>1
  <2>3. n > 1 /\ rank[q] < n - 1
    BY <1>2, <2>2
  <2>4. below[q].time \in Nat /\ below[q].time <= Start
    <3>1. below[q].time \in Nat
      BY <2>1 DEF Levels
    <3> QED BY <1>1, <1>2, <1>5, <1>6, <3>1
  <2>5. q \notin mk.phony
    <3> SUFFICES ASSUME q \in mk.phony PROVE FALSE
      OBVIOUS
    <3>1. view[q] \in Nat /\ (view[q] = 0 \/ view[q] > Start)
      BY <1>1, <2>1 DEF Plain, NoPhonyFiles, Believed
    <3>2. view[q] = 0 => below[q].time > Start
      BY <1>2, <2>3
    <3>3. view[q] <= below[q].time
      BY <2>1, <2>3
    <3> QED BY <1>1, <2>4, <3>1, <3>2, <3>3
  <2>6. first_disk[q] > 0
    BY <2>5 DEF Firm
  <2>7. Firm(q)
    <3>1. p \in mk.ruled
      <4>1. Range(<<>>) = {}
        BY DEF Range
      <4> QED BY <4>1 DEF TypeOK, IsMakefile
    <3> QED BY <1>2, <2>6, <3>1 DEF Plain, NoHoles, Firm
  <2> QED BY <1>6, <2>1, <2>3, <2>4, <2>7 DEF Tells
<1>9. p \in Sound
  BY <1>2, <1>7, <1>8, SoundGrows
<1> QED BY <1>5, <1>9 DEF next

(* What the deepest answer says, when chains are not longer than it looks. *)
LEMMA EffectiveTells ==
  ASSUME TypeOK, Plain, ~always_make, Believed
  PROVE  LET eff == EffectiveMtime(mk, view, Now)
         IN  /\ eff \in Levels
             /\ \A f \in Files : view[f] <= eff[f].time
             /\ \A f \in Files : \A p \in Range(mk.prereqs[f]) :
                  Firm(p) /\ eff[p].time <= Start => p \in Sound /\ eff[p].time = first_disk[p]
             /\ \A f \in Files : \A p \in Range(mk.prereqs[f]) :
                  view[p] = 0 /\ p \notin mk.phony =>
                    \A q \in Range(mk.prereqs[p]) : view[q] <= eff[p].time
<1> DEFINE L == MaxDepth + 1
<1>1. view \in [Files -> Nat]
  BY DEF TypeOK, view, Unread
<1>2. PICK eff \in [0 .. L -> Levels] :
        /\ \A n \in 1 .. L : eff[n] = EffectiveAbove(mk, view, Now, eff[n - 1])
        /\ EffectiveMtime(mk, view, Now) = eff[L]
  BY <1>1, EffectiveSteps
<1>3. PICK rank \in [Files -> 0 .. L] :
        \A f \in Files : \A p \in Range(mk.prereqs[f]) : rank[p] < rank[f]
  BY DEF Plain, Shallow
<1>4. L \in Nat \ {0} /\ L \in 0 .. L
  BY DepthAssumption
<1> HIDE DEF L
<1>5. \A n \in 1 .. L : eff[n - 1] \in Levels
  <2>1. \A n \in 1 .. L : n - 1 \in 0 .. L
    BY <1>4
  <2> QED BY <2>1
<1>6. \A n \in 1 .. L : \A f \in Files : view[f] <= eff[n][f].time
  BY <1>2, <1>5, EffectiveAtLeast
<1>7. \A n \in 1 .. L : \A f \in mk.phony : view[f] = 0 => eff[n][f].time = Now
  <2>1. mk.phony \subseteq Files
    BY DEF TypeOK, IsMakefile
  <2> QED BY <1>1, <1>2, <1>5, <2>1, AboveTimes
<1>8. rank \in [Files -> Nat]
  BY <1>4
<1> DEFINE T == {n \in 0 .. L : Tells(eff[n], rank, n)}
<1>9. 0 \in T
  <2>1. \A p \in Files : ~(rank[p] < 0)
    BY <1>8
  <2> QED BY <1>4, <2>1 DEF Tells
<1>10. ASSUME NEW n \in 1 .. L, n - 1 \in T PROVE n \in T
  <2>1. n \in Nat \ {0} /\ n \in 0 .. L /\ (n > 1 => n - 1 \in 1 .. L)
    BY <1>4
  <2>2. eff[n - 1] \in Levels /\ Tells(eff[n - 1], rank, n - 1)
    BY <1>5, <1>10
  <2>3. /\ n > 1 => \A q \in Files : view[q] <= eff[n - 1][q].time
        /\ n > 1 => \A q \in mk.phony : view[q] = 0 => eff[n - 1][q].time = Now
    BY <1>6, <1>7, <2>1
  <2>4. Tells(EffectiveAbove(mk, view, Now, eff[n - 1]), rank, n)
    BY <1>3, <1>8, <2>1, <2>2, <2>3, TellsAbove
  <2>5. Tells(eff[n], rank, n)
    BY <1>2, <2>4
  <2> QED BY <2>1, <2>5
<1> HIDE DEF T
<1>11. \A n \in 0 .. L : n \in T
  BY <1>4, <1>9, <1>10, Counting
<1>12. Tells(eff[L], rank, L)
  BY <1>4, <1>11 DEF T
<1>13. L \in 1 .. L /\ eff[L] \in Levels
  BY <1>4
<1>14. ASSUME NEW f \in Files, NEW p \in Range(mk.prereqs[f])
       PROVE  p \in Files /\ rank[p] < L
  <2>1. p \in Files /\ rank[p] < rank[f] /\ rank[f] \in 0 .. L
    BY <1>3, MakefileOK, RangeIn DEF TypeOK
  <2> QED BY <1>4, <1>8, <2>1
<1>15. \A f \in Files : \A p \in Range(mk.prereqs[f]) :
         Firm(p) /\ eff[L][p].time <= Start => p \in Sound /\ eff[L][p].time = first_disk[p]
  BY <1>12, <1>14 DEF Tells
<1>16. ASSUME NEW f \in Files, NEW p \in Range(mk.prereqs[f]), view[p] = 0, p \notin mk.phony,
              NEW q \in Range(mk.prereqs[p])
       PROVE  view[q] <= eff[L][p].time
  <2>1. p \in Files /\ q \in Files
    BY <1>14
  <2>2. rank[q] \in Nat /\ rank[q] < rank[p] /\ rank[p] \in Nat /\ rank[p] < L
    BY <1>3, <1>8, <1>14, <2>1
  <2>3. L - 1 \in 1 .. L
    BY <1>4, <2>2
  <2>4. eff[L - 1] \in Levels /\ eff[L] = EffectiveAbove(mk, view, Now, eff[L - 1])
    BY <1>2, <1>5, <1>13
  <2>5. eff[L - 1][q].time <= eff[L][p].time
    BY <1>1, <1>16, <2>1, <2>4, AboveTimes
  <2>6. view[q] <= eff[L - 1][q].time
    BY <1>6, <2>1, <2>3
  <2>7. view[q] \in Nat /\ eff[L - 1][q].time \in Nat /\ eff[L][p].time \in Nat
    BY <1>1, <1>13, <2>1, <2>4 DEF Levels
  <2> QED BY <2>5, <2>6, <2>7
<1> QED BY <1>2, <1>6, <1>13, <1>15, <1>16

(* What the pre-check finds fresh is sound ... *)
LEMMA FreshSound ==
  ASSUME TypeOK, Plain, ~always_make, Believed, NEW t \in mk.ruled,
         view[t] = first_disk[t], first_disk[t] <= Start, PreCheck(mk, view, Now, t).fresh
  PROVE  t \in Sound
<1> DEFINE eff == EffectiveMtime(mk, view, Now)
           newer(p) == \/ p \in mk.phony
                       \/ view[p] = 0 /\ p \notin mk.intermediate
                       \/ view[p] > 0 /\ eff[p].time > view[t]
<1>1. /\ t \in Files /\ view \in [Files -> Nat] /\ first_disk \in [Files -> Nat] /\ Start \in Nat
  BY CacheTypes, TimesAssumption DEF TypeOK, IsMakefile
<1>2. t \notin mk.phony /\ view[t] # 0 /\ ~ Found(mk.prereqs[t], newer)
  <2>1. CASE t \in mk.phony \/ view[t] = 0
    BY <2>1 DEF PreCheck
  <2>2. CASE ~ (t \in mk.phony \/ view[t] = 0)
    <3>1. PreCheck(mk, view, Now, t).fresh = ~ Found(mk.prereqs[t], newer)
      BY <2>2 DEF PreCheck
    <3> HIDE DEF newer
    <3> QED BY <2>2, <3>1
  <2> QED BY <2>1, <2>2
<1>3. \A p \in Range(mk.prereqs[t]) : p \in Files /\ ~ newer(p)
  <2>1. \A p \in Range(mk.prereqs[t]) : ~ newer(p)
    <3> HIDE DEF newer
    <3> QED BY <1>2 DEF Found, Range
  <2> HIDE DEF newer
  <2> QED BY <1>1, <2>1, MakefileOK, RangeIn DEF TypeOK
<1>4. /\ eff \in Levels /\ \A f \in Files : view[f] <= eff[f].time
      /\ \A p \in Range(mk.prereqs[t]) :
           Firm(p) /\ eff[p].time <= Start => p \in Sound /\ eff[p].time = first_disk[p]
  BY <1>1, EffectiveTells
<1>5. ASSUME NEW p \in Range(mk.prereqs[t])
      PROVE  p \in Sound /\ first_disk[p] <= first_disk[t]
  <2>1. p \in Files /\ view[p] \in Nat /\ first_disk[p] \in Nat
    BY <1>1, <1>3
  <2>2. view[p] = 0 => p \in mk.intermediate
    BY <1>3
  <2>3. view[p] > 0 => ~ (eff[p].time > view[t])
    BY <1>3
  <2>4. view[p] = first_disk[p] \/ view[p] > Start
    BY <2>1 DEF Believed
  <2>5. eff[p].time \in Nat /\ view[p] <= eff[p].time
    BY <1>4, <2>1 DEF Levels
  <2>6. p \in mk.intermediate => first_disk[p] > 0
    BY <1>1, <1>2 DEF Plain, NoHoles
  <2> HIDE DEF eff
  <2>7. view[p] > 0
    BY <1>1, <2>1, <2>2, <2>4, <2>6
  <2>8. eff[p].time <= first_disk[t] /\ eff[p].time <= Start
    BY <1>1, <2>3, <2>5, <2>7
  <2>9. first_disk[p] > 0
    BY <1>1, <2>1, <2>4, <2>5, <2>7, <2>8
  <2>10. Firm(p)
    BY <1>1, <1>2, <2>9 DEF Plain, NoHoles, Firm
  <2> QED BY <1>4, <2>8, <2>10
<1>6. first_disk[t] > 0
  BY <1>1, <1>2
<1> QED BY <1>1, <1>2, <1>5, <1>6, SoundGrows

(* ... and what is sound, needs_rebuild does not find stale. *)
LEMMA SoundNotStale ==
  ASSUME TypeOK, NEW t \in Sound, \A f \in Sound : view[f] = first_disk[f]
  PROVE  NeedsRebuild(mk, view, Now, built, t, FALSE).stale = FALSE
<1> DEFINE eff == EffectiveMtime(mk, view, Now)
           newer(p) == IF view[p] > 0 THEN view[p] > view[t]
                       ELSE \/ p \in mk.phony \/ built[p] = "rebuilt"
                            \/ p \notin mk.intermediate
                            \/ eff[p].time > view[t]
<1>1. t \in Files /\ first_disk[t] \in Nat \ {0} /\ view[t] = first_disk[t]
  BY SoundHolds DEF TypeOK
<1>2. ASSUME NEW p \in Range(mk.prereqs[t]) PROVE ~ newer(p)
  <2>1. p \in Sound /\ first_disk[p] <= first_disk[t]
    BY SoundHolds
  <2>2. view[p] = first_disk[p] /\ first_disk[p] \in Nat \ {0}
    BY <2>1, SoundHolds DEF TypeOK
  <2> QED BY <1>1, <2>1, <2>2
<1>3. ~ Found(mk.prereqs[t], newer)
  <2> HIDE DEF newer
  <2> QED BY <1>2 DEF Found, Range
<1>4. NeedsRebuild(mk, view, Now, built, t, FALSE).stale = Found(mk.prereqs[t], newer)
  BY <1>1 DEF NeedsRebuild
<1>5. Found(mk.prereqs[t], newer) \in BOOLEAN
  <2> HIDE DEF newer
  <2> QED BY DEF Found
<1> HIDE DEF newer
<1> QED BY <1>3, <1>4, <1>5

(* What needs_rebuild knows of a target it does not find stale. *)
LEMMA NotStaleHolds ==
  ASSUME TypeOK, NEW t \in Files, NEW any \in BOOLEAN,
         ~ NeedsRebuild(mk, view, Now, built, t, any).stale
  PROVE  /\ any = FALSE /\ view[t] > 0
         /\ \A p \in Range(mk.prereqs[t]) :
              /\ view[p] <= view[t]
              /\ view[p] = 0 => /\ p \notin mk.phony
                                /\ EffectiveMtime(mk, view, Now)[p].time <= view[t]
<1> DEFINE eff == EffectiveMtime(mk, view, Now)
           newer(p) == IF view[p] > 0 THEN view[p] > view[t]
                       ELSE \/ p \in mk.phony \/ built[p] = "rebuilt"
                            \/ p \notin mk.intermediate
                            \/ eff[p].time > view[t]
<1>1. view \in [Files -> Nat]
  BY CacheTypes
<1>2. any = FALSE /\ view[t] # 0 /\ ~ Found(mk.prereqs[t], newer)
  <2>1. CASE any = TRUE \/ view[t] = 0
    BY <2>1 DEF NeedsRebuild
  <2>2. CASE any = FALSE /\ view[t] # 0
    <3>1. NeedsRebuild(mk, view, Now, built, t, any).stale = Found(mk.prereqs[t], newer)
      BY <2>2 DEF NeedsRebuild
    <3> HIDE DEF newer
    <3> QED BY <2>2, <3>1
  <2> QED BY <2>1, <2>2
<1>3. ASSUME NEW p \in Range(mk.prereqs[t]) PROVE ~ newer(p)
  <2> HIDE DEF newer
  <2> QED BY <1>2 DEF Found, Range
<1>4. eff \in Levels
  <2>1. PICK all \in [0 .. MaxDepth + 1 -> Levels] : eff = all[MaxDepth + 1]
    BY <1>1, EffectiveSteps
  <2>2. MaxDepth + 1 \in 0 .. MaxDepth + 1
    BY DepthAssumption
  <2> HIDE DEF eff
  <2> QED BY <2>1, <2>2
<1>5. ASSUME NEW p \in Range(mk.prereqs[t])
      PROVE  /\ view[p] <= view[t]
             /\ view[p] = 0 => p \notin mk.phony /\ eff[p].time <= view[t]
  <2>1. p \in Files
    BY MakefileOK, RangeIn DEF TypeOK
  <2>2. view[p] \in Nat /\ view[t] \in Nat /\ eff[p].time \in Nat
    BY <1>1, <1>4, <2>1 DEF Levels
  <2>3. /\ view[p] > 0 => ~ (view[p] > view[t])
        /\ ~ (view[p] > 0) => p \notin mk.phony /\ ~ (eff[p].time > view[t])
    BY <1>3
  <2> HIDE DEF eff
  <2> QED BY <2>2, <2>3
<1>6. view[t] > 0
  BY <1>1, <1>2
<1> QED BY <1>2, <1>5, <1>6

(* While no recipe of theirs has run, files and what is remembered of them *)
(* are as they were; what a recipe has made is later than that, and a      *)
(* target that failed is remembered as it was.                             *)
Times ==
  /\ Start <= clock
  /\ \A f \in Files : first_disk[f] <= Start /\ disk[f] <= clock /\ mtime_cache[f] <= clock
  /\ \A f \in Files \ Ran : disk[f] = first_disk[f] /\ mtime_cache[f] \in {Unread, first_disk[f]}
  /\ \A f \in Ran \ mk.phony : built[f] # NotBuilt => disk[f] > Start
  /\ ~always_make => \A f \in Files : view[f] = first_disk[f] \/ view[f] > Start

(* Nothing that is sound is made, ... *)
SoundLeft == \A f \in Sound : f \notin failed_targets /\ built[f] # "rebuilt" /\ f \notin Ran

SoundAnswer ==
  pc = "return" /\ stack # <<>> /\ Head(top.agenda).file \in Sound => ret = "reused"

(* ... neither by its own frame nor because of what it needs; and only     *)
(* what is sound is found fresh.  What is not has been looked at.          *)
Steady(f) ==
  /\ f.phase \in {"fresh", "single"} /\ f.siblings = <<>>
  /\ f.target \in Sound => ~f.rebuilt /\ ~f.failed
  /\ f.phase = "fresh" => f.target \in Sound
  /\ f.phase = "single" /\ ~always_make /\ f.target \notin mk.phony
       => mtime_cache[f.target] # Unread
  /\ \A list \in {f.agenda} \cup Range(f.others) : \A d \in Range(list) :
       d.normal => d.file \in Range(mk.prereqs[f.target])

SteadyFrames == \A f \in Range(stack) : Steady(f)

NotedRan == intermediate_built \subseteq Ran \cap mk.intermediate

(* What is built is sound, or all it needs is built. *)
PrereqsBuilt ==
  \A f \in Files : built[f] # NotBuilt =>
    f \in Sound \/ \A p \in Range(mk.prereqs[f]) : built[p] # NotBuilt

(* f is not older than what it needs, nor, where that is not there or may  *)
(* be deleted, than what it is made of.                                    *)
OldUnder(f) ==
  /\ disk[f] > 0
  /\ \A p \in Range(mk.prereqs[f]) :
       p \in mk.phony \/ /\ disk[p] <= disk[f]
                         /\ disk[p] = 0 \/ p \in Ran =>
                              \A q \in Range(mk.prereqs[p]) : disk[q] <= disk[f]

Settled ==
  \A f \in Files \ (Sound \cup mk.phony) :
    built[f] # NotBuilt /\ mk.recipe[f] = "cmd" => OldUnder(f)

(* The goals done with are built, unless an error is noted.                *)
GoalsMet ==
  /\ stack # <<>> => stack[1].target = Head(goals)
  /\ pc = "return" /\ stack = <<>> /\ ret # "error" => built[Head(goals)] # NotBuilt
  /\ ~errors => \A g \in Range(mk.goals) : g \in Range(goals) \/ built[g] # NotBuilt

Promised ==
  /\ Times /\ SoundLeft /\ SoundAnswer /\ SteadyFrames
  /\ NotedRan /\ PrereqsBuilt /\ Settled /\ GoalsMet

(* A plain build under way that has cut no cycle. *)
PlainWalk == Plain /\ circular_dropped = {} /\ outcome = "none"

PromiseInv == PlainWalk => Promised

Working == IInv /\ PlainWalk /\ Promised

(* The state of the frame at the top. *)
LEMMA TopSteady ==
  ASSUME Working, stack # <<>>
  PROVE  /\ top \in Frame /\ top \in Range(stack) /\ Steady(top)
         /\ top.target \in Files /\ top.target \in building
         /\ top.target \notin Ran /\ top.target \notin failed_targets
         /\ built[top.target] = NotBuilt
         /\ mk.siblings[top.target] = {} /\ top.siblings = <<>> /\ Range(top.siblings) = {}
<1>1. /\ top \in Frame /\ top \in Range(stack) /\ Len(stack) \in DOMAIN stack
      /\ top = stack[Len(stack)]
  BY TopFrame DEF Working, IInv, TypeOK
<1>2. Steady(top)
  BY <1>1 DEF Working, Promised, SteadyFrames
<1>3. top.target \in Files /\ top.target \in building
  BY <1>1 DEF Frame, building
<1>4. top.target \notin failed_targets /\ built[top.target] = NotBuilt
  BY <1>3 DEF Working, PlainWalk, IInv, StackInv, RequestChain
<1>5. top.target \notin Ran
  BY <1>3 DEF Working, IInv, LogInv, LogMet, Ran
<1>6. mk.siblings[top.target] = {}
  BY <1>3 DEF Working, PlainWalk, Plain, Ungrouped
<1>7. top.siblings = <<>> /\ Range(top.siblings) = {}
  BY <1>2 DEF Steady, Range
<1> QED BY <1>1, <1>2, <1>3, <1>4, <1>5, <1>6, <1>7

(* What is believed. *)
LEMMA WorkingView ==
  ASSUME Working
  PROVE  /\ view \in [Files -> Nat]
         /\ ~always_make => Believed
         /\ \A f \in Files : view[f] <= clock
         /\ \A f \in Files \ failed_targets : view[f] = disk[f]
         /\ \A f \in Files \ Ran : view[f] = first_disk[f]
         /\ \A f \in Sound : view[f] = first_disk[f] /\ f \notin Ran
<1>1. view \in [Files -> Nat] /\ clock \in Nat
  BY DEF Working, IInv, TypeOK, view, Unread
<1>2. \A f \in Files : view[f] <= clock
  BY DEF Working, Promised, Times, view
<1>3. ~always_make => Believed
  BY <1>2 DEF Working, Promised, Times, Believed
<1>4. \A f \in Files \ failed_targets : view[f] = disk[f]
  <2>1. CacheFresh /\ OwnOutput /\ outcome = "none"
    BY DEF Working, IInv, EndInv, PlainWalk, Plain
  <2> QED BY <2>1 DEF CacheFresh, view
<1>5. \A f \in Files \ Ran : view[f] = first_disk[f]
  BY DEF Working, Promised, Times, view
<1>6. \A f \in Sound : view[f] = first_disk[f] /\ f \notin Ran
  BY <1>5, SoundHolds DEF Working, Promised, SoundLeft
<1> QED BY <1>1, <1>2, <1>3, <1>4, <1>5, <1>6

(* A step that runs no recipe. *)
NoneRun ==
  /\ UNCHANGED <<disk, clock, log>>
  /\ UNCHANGED mtime_cache \/ \E R : mtime_cache' = Remembering(R)

LEMMA StepRuns ==
  ASSUME Next, outcome' = "none"
  PROVE  NoneRun \/ (Ends /\ (RunRecipe \/ RecipeFails))
<1> USE DEF given, files, memo, NoneRun
<1>1. CASE \E t \in Files : BuildTarget(t)
  <2>1. PICK t \in Files : BuildTarget(t)
    BY <1>1
  <2>2. CASE Memoized(t) \/ DropCycle(t) \/ Leaf(t)
    BY <2>2 DEF Memoized, DropCycle, Leaf
  <2>3. CASE EnterFresh(t)
    BY <2>3 DEF EnterFresh, Push
  <2>4. CASE EnterSingle(t)
    BY <2>4 DEF EnterSingle, Push
  <2>5. CASE EnterGroup(t)
    BY <2>5 DEF EnterGroup, Push
  <2> QED BY <2>1, <2>2, <2>3, <2>4, <2>5 DEF BuildTarget
<1>2. CASE Resume \/ NextList \/ BuildSiblings
  BY <1>2 DEF Resume, NextList, BuildSiblings
<1>3. CASE Abandon \/ FinishFresh \/ FailPrereqs \/ NoRecipe
  BY <1>3 DEF Abandon, FinishFresh, FailPrereqs, NoRecipe
<1>4. CASE Skip \/ RunEmpty
  BY <1>4 DEF Skip, RunEmpty
<1>5. CASE RunRecipe \/ RecipeFails
  BY <1>5 DEF Ends
<1>6. CASE NextGoal
  BY <1>6 DEF NextGoal
<1>7. CASE GoalFails \/ Finish
  BY <1>7 DEF GoalFails, Finish, End
<1> QED BY <1>1, <1>2, <1>3, <1>4, <1>5, <1>6, <1>7 DEF Next

LEMMA RanTypes ==
  ASSUME Next, TypeOK, CallPending
  PROVE  Ran \subseteq Files /\ Ran' \subseteq Files
<1>1. Ran \subseteq Files
  BY NeedsAreFiles DEF Ran
<1>2. TypeOK'
  BY NextTypes
<1>3. \A i \in DOMAIN log' : log'[i].target \in Files
  <2>1. Range(log') \subseteq [target : Files, ok : BOOLEAN]
    BY <1>2, RangeIn DEF TypeOK
  <2> QED BY <2>1 DEF Range
<1> QED BY <1>1, <1>3 DEF Ran

(* The recipe that runs. *)
LEMMA RanGrows ==
  ASSUME TypeOK, NEW t, NEW ok, Logged(t, ok)
  PROVE  Ran' = Ran \cup {t}
<1> DEFINE n == Len(log)
<1>1. /\ n \in Nat /\ DOMAIN log = 1 .. n /\ DOMAIN log' = 1 .. n + 1
      /\ \A i \in 1 .. n : log'[i] = log[i]
      /\ log'[n + 1].target = t
  BY DEF Logged, TypeOK
<1> HIDE DEF n
<1>2. \A i \in 1 .. n + 1 : i \in 1 .. n \/ i = n + 1
  BY <1>1
<1>3. Ran' \subseteq Ran \cup {t}
  BY <1>1, <1>2 DEF Ran
<1>4. \A i \in 1 .. n : i \in 1 .. n + 1
  BY <1>1
<1>5. n + 1 \in 1 .. n + 1
  BY <1>1
<1>6. Ran \subseteq Ran'
  BY <1>1, <1>4 DEF Ran
<1>7. t \in Ran'
  BY <1>1, <1>5 DEF Ran
<1> QED BY <1>3, <1>6, <1>7

(* A recipe that has failed is not one of a target that is built, and that *)
(* stays so.                                                               *)
LEMMA RanBuilt ==
  ASSUME Working, Next, circular_dropped' = {}
  PROVE  /\ \A f \in failed_targets' : built'[f] = NotBuilt
         /\ \A f \in failed_targets : built[f] = NotBuilt
         /\ \A f \in Ran : built'[f] # NotBuilt => built[f] # NotBuilt
<1>1. FailuresKnown' /\ MemoGrows
  BY FailuresStep, NextStack DEF Working, IInv, LogInv
<1>2. \A f \in Files : mk.siblings[f] = {}
  BY DEF Working, PlainWalk, Plain, Ungrouped
<1>3. failed_targets \subseteq failed_targets' /\ mk' = mk
  BY <1>1 DEF MemoGrows
<1>4. failed_targets' \subseteq Files
  BY NextTypes DEF Working, IInv, StackInv, TypeOK
<1>5. \A f \in failed_targets' : built'[f] = NotBuilt
  BY <1>1, <1>2, <1>3, <1>4 DEF FailuresKnown
<1>6. \A f \in failed_targets : built[f] = NotBuilt
  BY <1>2, <1>3, <1>4 DEF FailuresKnown, Working, IInv, LogInv, PlainWalk
<1>7. \A f \in Ran : Met(f)
  BY DEF Working, IInv, LogInv, LogMet, Ran
<1> QED BY <1>3, <1>5, <1>6, <1>7 DEF Met

(* A recipe leaves the other files alone. *)
LEMMA RecipeFiles ==
  ASSUME Working, Ends, RunRecipe \/ RecipeFails
  PROVE  LET t == top.target
         IN  /\ stack # <<>> /\ t \in Files /\ Ran' = Ran \cup {t} /\ clock' = Now /\ Deciding
             /\ mk.recipe[t] = "cmd" /\ Decision.stale
             /\ \A f \in Files \ {t} : /\ disk'[f] = disk[f]
                                       /\ mtime_cache'[f] \in {mtime_cache[f], view[f]}
             /\ RunRecipe => /\ disk'[t] = IF t \in mk.writes[t] THEN Now ELSE disk[t]
                             /\ mtime_cache'[t] = Unread
             /\ RecipeFails => /\ disk'[t] \in {Now, disk[t], 0}
                               /\ t \in mk.phony => disk'[t] \in {Now, disk[t]}
                               /\ mtime_cache'[t] \in {mtime_cache[t], view[t]}
<1> DEFINE t == top.target
<1>1. stack # <<>> /\ Deciding /\ clock' = Now /\ mk.recipe[t] = "cmd" /\ Decision.stale
  BY EndsPop DEF Working, IInv, RunRecipe, RecipeFails
<1>2. t \in Files
  BY <1>1, TopSteady
<1>3. Ran' = Ran \cup {t}
  BY RanGrows DEF Working, IInv, RunRecipe, RecipeFails
<1>4. mk.writes[t] \subseteq {t} /\ disk \in [Files -> Nat]
  BY <1>2 DEF Working, PlainWalk, Plain, OwnOutput, IInv, TypeOK
<1>5. \A W : \A f \in Files : Touching(W)[f] = IF f \in W THEN Now ELSE disk[f]
  BY DEF Touching
<1>6. \A R : \A f \in Files : Remembering(R)[f] \in {mtime_cache[f], view[f]}
  BY DEF Remembering
<1>7. CASE RunRecipe
  <2>1. /\ disk' = Touching(mk.writes[t])
        /\ mtime_cache' = Evicting(Remembering(Decision.reads), t)
    BY <1>7 DEF RunRecipe
  <2>2. \A f \in Files : mtime_cache'[f] = IF f = t THEN Unread ELSE Remembering(Decision.reads)[f]
    BY <1>2, <2>1 DEF Evicting, Remembering
  <2>3. ~ RecipeFails
    <3>1. RecipeFails => t \in failed_targets' /\ t \notin failed_targets
      BY <1>1, TopSteady DEF RecipeFails, Pop, Record
    <3>2. RunRecipe => failed_targets' = failed_targets
      BY DEF RunRecipe, Pop, Record
    <3> QED BY <1>7, <3>1, <3>2
  <2>4. \A f \in Files \ {t} : /\ disk'[f] = disk[f]
                               /\ mtime_cache'[f] \in {mtime_cache[f], view[f]}
    BY <1>4, <1>5, <1>6, <2>1, <2>2
  <2>5. /\ disk'[t] = IF t \in mk.writes[t] THEN Now ELSE disk[t]
        /\ mtime_cache'[t] = Unread
    BY <1>2, <1>5, <2>1, <2>2
  <2> QED BY <1>1, <1>2, <1>3, <1>7, <2>3, <2>4, <2>5
<1>8. CASE RecipeFails
  <2>1. PICK W \in {{}, mk.writes[t]} :
          disk' = IF mk.delete_on_error /\ t \notin mk.phony
                  THEN [Touching(W) EXCEPT ![t] = 0] ELSE Touching(W)
    BY <1>8 DEF RecipeFails
  <2>2. mtime_cache' = Remembering(Decision.reads) /\ t \in failed_targets' /\ t \notin failed_targets
    BY <1>1, <1>8, TopSteady DEF RecipeFails, Pop, Record
  <2>3. ~ RunRecipe
    <3>1. RunRecipe => failed_targets' = failed_targets
      BY DEF RunRecipe, Pop, Record
    <3> QED BY <2>2, <3>1
  <2>4. \A f \in Files : disk'[f] = IF f = t /\ mk.delete_on_error /\ t \notin mk.phony
                                    THEN 0 ELSE Touching(W)[f]
    BY <2>1 DEF Touching
  <2>5. \A f \in Files \ {t} : /\ disk'[f] = disk[f]
                               /\ mtime_cache'[f] \in {mtime_cache[f], view[f]}
    BY <1>4, <1>5, <1>6, <2>2, <2>4
  <2>6. /\ disk'[t] \in {Now, disk[t], 0}
        /\ t \in mk.phony => disk'[t] \in {Now, disk[t]}
        /\ mtime_cache'[t] \in {mtime_cache[t], view[t]}
    BY <1>2, <1>5, <1>6, <2>2, <2>4
  <2> QED BY <1>1, <1>2, <1>3, <1>8, <2>3, <2>5, <2>6
<1> QED BY <1>7, <1>8

(* Times, for one file. *)
TimesOf(f) ==
  /\ disk[f] <= clock /\ mtime_cache[f] <= clock
  /\ f \notin Ran => disk[f] = first_disk[f] /\ mtime_cache[f] \in {Unread, first_disk[f]}
  /\ f \in Ran \ mk.phony /\ built[f] # NotBuilt => disk[f] > Start
  /\ ~always_make => view[f] = first_disk[f] \/ view[f] > Start

LEMMA TimesSame ==
  ASSUME Working, Next, circular_dropped' = {}, NEW f \in Files,
         disk'[f] = disk[f], mtime_cache'[f] \in {mtime_cache[f], view[f]},
         clock' \in {clock, Now}, f \in Ran' => f \in Ran, Ran \subseteq Ran'
  PROVE  TimesOf(f)'
<1>1. UNCHANGED given /\ clock \in Nat /\ clock <= clock'
  <2>1. clock \in Nat
    BY DEF Working, IInv, TypeOK
  <2> QED BY <2>1, GivenStays DEF Now
<1>2. /\ view[f] \in Nat /\ view[f] <= clock /\ disk[f] \in Nat /\ disk[f] <= clock
      /\ mtime_cache[f] \in Nat \cup {-1} /\ mtime_cache[f] <= clock
      /\ view[f] = IF mtime_cache[f] = -1 THEN disk[f] ELSE mtime_cache[f]
  BY WorkingView DEF Working, IInv, TypeOK, Promised, Times, view, Unread
<1>3. view'[f] = IF mtime_cache'[f] = -1 THEN disk'[f] ELSE mtime_cache'[f]
  BY DEF view, Unread
<1>4. view'[f] = view[f]
  BY <1>2, <1>3
<1>5. disk'[f] <= clock' /\ mtime_cache'[f] <= clock'
  <2>1. mtime_cache'[f] \in Nat \cup {-1} /\ mtime_cache'[f] <= clock
    BY <1>2
  <2>2. clock' \in Nat
    BY <1>1 DEF Now
  <2> QED BY <1>1, <1>2, <2>1, <2>2
<1>6. f \notin Ran' => disk'[f] = first_disk'[f] /\ mtime_cache'[f] \in {Unread, first_disk'[f]}
  BY <1>1, WorkingView DEF Working, Promised, Times, given
<1>7. f \in Ran' \ mk'.phony /\ built'[f] # NotBuilt => disk'[f] > Start
  BY <1>1, RanBuilt DEF Working, Promised, Times, given
<1>8. ~always_make' => view'[f] = first_disk'[f] \/ view'[f] > Start
  BY <1>1, <1>4 DEF Working, Promised, Times, given
<1> QED BY <1>5, <1>6, <1>7, <1>8 DEF TimesOf

LEMMA TimesRecipe ==
  ASSUME Working, Next, circular_dropped' = {}, Ends, RunRecipe \/ RecipeFails,
         NEW t, t = top.target
  PROVE  TimesOf(t)'
<1>1. /\ stack # <<>> /\ t \in Files /\ Ran' = Ran \cup {t} /\ clock' = Now /\ Deciding
      /\ mk.recipe[t] = "cmd"
      /\ RunRecipe => /\ disk'[t] = IF t \in mk.writes[t] THEN Now ELSE disk[t]
                      /\ mtime_cache'[t] = Unread
      /\ RecipeFails => /\ disk'[t] \in {Now, disk[t], 0}
                        /\ t \in mk.phony => disk'[t] \in {Now, disk[t]}
                        /\ mtime_cache'[t] \in {mtime_cache[t], view[t]}
  BY RecipeFiles
<1>2. /\ UNCHANGED given /\ clock \in Nat /\ Now = clock + 1 /\ Start \in Nat /\ Start <= clock
      /\ first_disk[t] \in Nat /\ first_disk[t] <= Start
  BY <1>1, GivenStays, TimesAssumption DEF Working, IInv, TypeOK, Now, Promised, Times
<1>3. /\ Steady(top) /\ t \notin Ran /\ t \notin failed_targets
      /\ top.phase = "single"
  BY <1>1, TopSteady DEF Deciding, Finishing, Steady
<1>4. /\ disk[t] = first_disk[t] /\ view[t] = first_disk[t]
      /\ mtime_cache[t] \in {-1, first_disk[t]}
      /\ ~always_make /\ t \notin mk.phony => mtime_cache[t] # -1
  BY <1>1, <1>3, WorkingView DEF Working, Promised, Times, Steady, Unread
<1>5. view'[t] = IF mtime_cache'[t] = -1 THEN disk'[t] ELSE mtime_cache'[t]
  BY <1>1 DEF view, Unread
<1>6. t \in Ran'
  BY <1>1
<1>7. CASE RunRecipe
  <2>1. t \notin mk.phony => t \in mk.writes[t]
    BY <1>1 DEF Working, PlainWalk, Plain, SelfMaking
  <2>2. disk'[t] \in {Now, first_disk[t]} /\ (t \notin mk.phony => disk'[t] = Now)
    BY <1>1, <1>4, <1>7, <2>1
  <2>3. mtime_cache'[t] = -1 /\ view'[t] = disk'[t]
    BY <1>1, <1>5, <1>7 DEF Unread
  <2>4. disk'[t] \in Nat /\ disk'[t] <= clock' /\ mtime_cache'[t] <= clock'
    BY <1>1, <1>2, <2>2, <2>3
  <2>5. t \notin mk.phony => disk'[t] > Start
    BY <1>2, <2>2
  <2>6. view'[t] = first_disk[t] \/ view'[t] > Start
    BY <1>2, <2>2, <2>3
  <2> QED BY <1>2, <1>6, <2>4, <2>5, <2>6 DEF TimesOf, given
<1>8. CASE RecipeFails
  <2>1. /\ disk'[t] \in {Now, first_disk[t], 0}
        /\ t \in mk.phony => disk'[t] \in {Now, first_disk[t]}
        /\ mtime_cache'[t] \in {-1, first_disk[t]}
        /\ ~always_make /\ t \notin mk.phony => mtime_cache'[t] # -1
    BY <1>1, <1>2, <1>4, <1>8
  <2>2. disk'[t] \in Nat /\ disk'[t] <= clock' /\ mtime_cache'[t] <= clock'
    BY <1>1, <1>2, <2>1
  <2>3. built'[t] = NotBuilt
    <3>1. t \in failed_targets'
      BY <1>8 DEF RecipeFails, Pop, Record
    <3> QED BY <3>1, RanBuilt
  <2>4. ~always_make => view'[t] = first_disk[t] \/ view'[t] > Start
    BY <1>2, <1>5, <2>1
  <2> QED BY <1>2, <1>6, <2>2, <2>3, <2>4 DEF TimesOf, given
<1> QED BY <1>7, <1>8

LEMMA NextTimes ==
  ASSUME Working, Next, circular_dropped' = {}, outcome' = "none"
  PROVE  Times'
<1>1. UNCHANGED given /\ Start \in Nat /\ clock \in Nat /\ Start <= clock
      /\ \A f \in Files : first_disk[f] <= Start
  BY GivenStays, TimesAssumption DEF Working, IInv, TypeOK, Promised, Times
<1>2. Ran' \subseteq Files
  BY RanTypes DEF Working, IInv, StackInv
<1>3. CASE NoneRun
  <2>1. Ran' = Ran /\ clock' = clock
    BY <1>3 DEF NoneRun, Ran
  <2>2. ASSUME NEW f \in Files PROVE TimesOf(f)'
    <3>1. mtime_cache'[f] \in {mtime_cache[f], view[f]}
      BY <1>3 DEF NoneRun, Remembering
    <3> QED BY <1>3, <2>1, <3>1, TimesSame DEF NoneRun
  <2> QED BY <1>1, <1>2, <2>1, <2>2 DEF Times, TimesOf, given
<1>4. CASE Ends /\ (RunRecipe \/ RecipeFails)
  <2> DEFINE t == top.target
  <2>1. /\ Ran' = Ran \cup {t} /\ clock' = Now
        /\ \A f \in Files \ {t} : /\ disk'[f] = disk[f]
                                  /\ mtime_cache'[f] \in {mtime_cache[f], view[f]}
    BY <1>4, RecipeFiles
  <2>2. ASSUME NEW f \in Files PROVE TimesOf(f)'
    <3>1. CASE f = t
      BY <1>4, <3>1, TimesRecipe
    <3>2. CASE f # t
      BY <2>1, <3>2, TimesSame
    <3> QED BY <3>1, <3>2
  <2>3. Start <= clock'
    BY <1>1, <2>1 DEF Now
  <2> QED BY <1>1, <1>2, <2>2, <2>3 DEF Times, TimesOf, given
<1> QED BY <1>3, <1>4, StepRuns

(* What a frame's target needs is built when the frame has called it all   *)
(* and nothing has failed.                                                 *)
LEMMA NeedsBuilt ==
  ASSUME TypeOK, StackInv, Listed, top.phase = "single", ~top.failed
  PROVE  \A p \in Range(mk.prereqs[top.target]) : built[p] # NotBuilt
<1>1. stack # <<>> /\ top.agenda = <<>>
  BY DEF Listed
<1>2. top \in Frame /\ top \in Range(stack) /\ top.target \in Files
  BY <1>1, TopFrame DEF TypeOK, Frame
<1>3. Waits(top) = {}
  BY <1>1 DEF Waits, Range
<1>4. ASSUME NEW p \in Range(mk.prereqs[top.target]) PROVE built[p] # NotBuilt
  <2> DEFINE need == [file |-> p, normal |-> TRUE]
  <2>1. need \in Range(Needs(top.target))
    BY <1>2, NeedsHold DEF TypeOK
  <2>2. built[need.file] # NotBuilt
    BY <1>2, <1>3, <2>1 DEF StackInv, Progress, FrameProgress
  <2> QED BY <2>2
<1> QED BY <1>4

(* A sound target is found up to date, ... *)
LEMMA SoundSpared ==
  ASSUME Working, Deciding, top.target \in Sound
  PROVE  Decision.stale = FALSE
<1> DEFINE stale(s) == NeedsRebuild(mk, view, Now, built, s, FALSE).stale
<1>1. stack # <<>>
  BY DEF Deciding, Finishing, Listed
<1>2. Steady(top) /\ top \in Frame /\ DOMAIN top.siblings = {}
  BY <1>1, TopSteady
<1>3. top.rebuilt = FALSE
  BY <1>2 DEF Steady, Frame
<1>4. NeedsRebuild(mk, view, Now, built, top.target, top.rebuilt).stale = FALSE
  BY <1>3, SoundNotStale, WorkingView DEF Working, IInv
<1>5. ~always_make /\ top.target \notin mk.phony
  BY SoundHolds
<1>6. Decision.stale = Found(top.siblings, stale)
  <2> HIDE DEF stale
  <2> QED BY <1>4, <1>5 DEF Decision, stale
<1>7. Found(top.siblings, stale) = FALSE
  <2> HIDE DEF stale
  <2> QED BY <1>2 DEF Found
<1> HIDE DEF stale
<1> QED BY <1>6, <1>7

(* ... and one that is found up to date has been tested. *)
LEMMA SparedTested ==
  ASSUME ~ Decision.stale
  PROVE  /\ ~always_make /\ top.target \notin mk.phony
         /\ ~ NeedsRebuild(mk, view, Now, built, top.target, top.rebuilt).stale
<1>1. ~always_make /\ top.target \notin mk.phony
  BY DEF Decision
<1> DEFINE own == NeedsRebuild(mk, view, Now, built, top.target, top.rebuilt)
<1>2. own.stale => Decision = own
  <2> HIDE DEF own
  <2> QED BY <1>1 DEF Decision, own
<1> HIDE DEF own
<1>3. ~ own.stale
  BY <1>2
<1> QED BY <1>1, <1>3 DEF own

(* What a frame that ends says of its target. *)
LEMMA EndsPlain ==
  ASSUME Working, Ends
  PROVE  LET t == top.target
         IN  \E r \in Results \cup {"error"} :
               /\ Pop(r, {})
               /\ t \in Sound => r = "reused" /\ ~RunRecipe /\ ~RecipeFails
               /\ RunRecipe => r = "rebuilt"
               /\ r # "error" /\ t \notin Sound =>
                    \A p \in Range(mk.prereqs[t]) : built[p] # NotBuilt
               /\ r # "error" /\ t \notin Sound \cup mk.phony /\ mk.recipe[t] = "cmd" =>
                    RunRecipe \/ Skip
<1> DEFINE t == top.target
<1>1. stack # <<>>
  BY EndsPop DEF Working, IInv
<1>2. /\ Steady(top) /\ top \in Frame /\ Range(top.siblings) = {}
      /\ top.phase \in {"fresh", "single"} /\ CoveredByFailure = {}
  BY <1>1, TopSteady DEF Steady, CoveredByFailure
<1>3. ASSUME Deciding \/ NoRecipe
      PROVE  \A p \in Range(mk.prereqs[t]) : built[p] # NotBuilt
  <2>1. Listed /\ top.phase = "single" /\ ~top.failed
    BY <1>2, <1>3 DEF Deciding, NoRecipe, Finishing
  <2> QED BY <2>1, NeedsBuilt DEF Working, IInv
<1>4. Results = {"reused", "rebuilt"}
  BY DEF Results
<1>5. ~ (RunRecipe /\ t \in Sound) /\ ~ (RecipeFails /\ t \in Sound)
  BY SoundSpared DEF RunRecipe, RecipeFails
<1>6. RunRecipe => Pop("rebuilt", {})
  BY <1>2 DEF RunRecipe
<1>7. \A r : Pop(r, {}) => ret' = r
  BY DEF Pop, Return
<1>8. CASE Abandon
  <2>1. Pop("error", {})
    BY <1>2, <1>8 DEF Abandon
  <2>2. t \notin Sound
    <3> SUFFICES ASSUME t \in Sound PROVE FALSE
      OBVIOUS
    <3>1. pc = "return" /\ ret = "error" /\ Head(top.agenda).normal /\ top.agenda # <<>>
      BY <1>1, <1>8 DEF Abandon, MustStop, Working, IInv, StackInv, CallPending
    <3>2. Head(top.agenda) \in Range(top.agenda)
      BY <1>2, <3>1, TailRange DEF Frame
    <3>3. Head(top.agenda).file \in Range(mk.prereqs[t])
      BY <1>2, <3>1, <3>2 DEF Steady
    <3>4. Head(top.agenda).file \in Sound
      BY <3>3, SoundHolds
    <3> QED BY <1>1, <3>1, <3>4 DEF Working, Promised, SoundAnswer
  <2>3. ~ RunRecipe
    BY <1>6, <1>7, <2>1
  <2> QED BY <2>1, <2>2, <2>3
<1>9. CASE FinishFresh
  <2>1. Pop("reused", {}) /\ t \in Sound
    BY <1>2, <1>9 DEF FinishFresh, Finishing, Steady
  <2> QED BY <1>4, <1>5, <2>1
<1>10. CASE FailPrereqs
  <2>1. Pop("error", {}) /\ t \notin Sound
    BY <1>2, <1>10 DEF FailPrereqs, Steady
  <2>2. ~ RunRecipe
    BY <1>6, <1>7, <2>1
  <2> QED BY <2>1, <2>2
<1>11. CASE NoRecipe
  <2>1. PICK r \in Results : Pop(r, {}) /\ (t \in Sound => r = "reused")
    <3>1. t \in Sound => ~top.rebuilt
      BY <1>2 DEF Steady
    <3> QED BY <1>4, <1>11, <3>1 DEF NoRecipe
  <2>2. mk.recipe[t] = "none" /\ ~ RunRecipe
    BY <1>11 DEF NoRecipe, RunRecipe
  <2> QED BY <1>3, <1>5, <1>11, <2>1, <2>2
<1>12. CASE Skip
  <2>1. Pop("reused", {}) /\ Deciding
    BY <1>2, <1>12 DEF Skip
  <2>2. ~ RunRecipe
    BY <1>6, <1>7, <2>1
  <2> QED BY <1>3, <1>4, <1>5, <1>12, <2>1, <2>2
<1>13. CASE RunEmpty
  <2>1. Pop("reused", {}) /\ Deciding /\ mk.recipe[t] # "cmd"
    BY <1>2, <1>13 DEF RunEmpty
  <2>2. ~ RunRecipe
    BY <1>6, <1>7, <2>1
  <2> QED BY <1>3, <1>4, <1>5, <2>1, <2>2
<1>14. CASE RunRecipe
  <2>1. Pop("rebuilt", {}) /\ Deciding
    BY <1>2, <1>14 DEF RunRecipe
  <2> QED BY <1>3, <1>4, <1>5, <1>14, <2>1
<1>15. CASE RecipeFails
  <2>1. Pop("error", {}) /\ t \notin Sound
    BY <1>2, <1>5, <1>15 DEF RecipeFails
  <2>2. ~ RunRecipe
    BY <1>6, <1>7, <2>1
  <2> QED BY <2>1, <2>2
<1> QED BY <1>8, <1>9, <1>10, <1>11, <1>12, <1>13, <1>14, <1>15 DEF Ends

(* A step that leaves the memo and the files alone. *)
LEMMA SameMemo ==
  ASSUME Working, UNCHANGED <<given, disk, built, failed_targets, intermediate_built, log>>
  PROVE  SoundLeft' /\ NotedRan' /\ PrereqsBuilt' /\ Settled'
<1>1. UNCHANGED <<mk, Sound, Ran>>
  BY SamePlain DEF given, Ran
<1> QED BY <1>1 DEF Working, Promised, SoundLeft, NotedRan, PrereqsBuilt, Settled, OldUnder

(* What is remembered of a file stays so. *)
LEMMA Remembered ==
  ASSUME TypeOK, NEW f \in Files, mtime_cache[f] # Unread,
         mtime_cache'[f] \in {mtime_cache[f], view[f]}
  PROVE  mtime_cache'[f] # Unread
BY DEF view

LEMMA SteadyKept ==
  ASSUME TypeOK, UNCHANGED given, NEW f \in Frame, Steady(f),
         mtime_cache'[f.target] \in {mtime_cache[f.target], view[f.target]}
  PROVE  Steady(f)'
<1>1. UNCHANGED <<mk, always_make, Sound>>
  BY SamePlain DEF given
<1>2. f.target \in Files
  BY DEF Frame
<1>3. mtime_cache[f.target] # Unread => mtime_cache'[f.target] # Unread
  BY <1>2, Remembered
<1> QED BY <1>1, <1>3 DEF Steady

(* A call answered at once. *)
LEMMA AnswerPromise ==
  ASSUME Working, NEW t \in Files, Memoized(t) \/ Leaf(t)
  PROVE  /\ SoundLeft' /\ SoundAnswer' /\ SteadyFrames'
         /\ NotedRan' /\ PrereqsBuilt' /\ Settled' /\ GoalsMet'
<1>1. /\ UNCHANGED <<given, files, intermediate_built, stack, goals, errors, log>>
      /\ Calling(t) /\ pc' = "return"
      /\ t \in Sound => ret' = "reused"
      /\ ret' # "error" => built'[t] # NotBuilt
      /\ \A f \in Files : \/ built'[f] = built[f]
                          \/ f = t /\ built'[f] = "reused" /\ t \notin mk.ruled
      /\ \/ failed_targets' = failed_targets
         \/ failed_targets' = failed_targets \cup {t} /\ t \notin Sound
  <2>1. CASE Memoized(t)
    <3>1. t \in Sound => t \notin failed_targets /\ built[t] # "rebuilt"
      BY DEF Working, Promised, SoundLeft
    <3>2. built[t] \in {"reused", "rebuilt", NotBuilt}
      BY DEF Working, IInv, TypeOK, Results
    <3> QED BY <2>1, <3>1, <3>2 DEF Memoized, Return, memo
  <2>2. CASE Leaf(t)
    <3> DEFINE r == IF disk[t] > 0 \/ t \in mk.phony THEN "reused" ELSE "error"
    <3>1. /\ UNCHANGED <<given, files, intermediate_built, stack, goals, errors, log>>
          /\ Calling(t) /\ Record(t, r, {}) /\ Return(r) /\ t \notin mk.ruled
      BY <2>2 DEF Leaf
    <3>2. t \in Sound => r = "reused"
      BY SoundHolds DEF Working, Promised, Times, SoundLeft
    <3>3. Covering(built, {}) = built /\ built \in [Files -> Results \cup {NotBuilt}]
      BY DEF Covering, Working, IInv, TypeOK
    <3>4. /\ built' = Recording(built, t, r)
          /\ failed_targets' = IF r = "error" THEN failed_targets \cup {t} ELSE failed_targets
      BY <3>1, <3>3 DEF Record
    <3>5. CASE r = "error"
      BY <3>1, <3>2, <3>4, <3>5 DEF Recording, Return
    <3>6. CASE r = "reused"
      <4>1. built' = [built EXCEPT ![t] = "reused"] /\ failed_targets' = failed_targets
        BY <3>4, <3>6 DEF Recording
      <4>2. built'[t] = "reused" /\ \A f \in Files : f # t => built'[f] = built[f]
        BY <3>3, <4>1
      <4> QED BY <3>1, <3>6, <4>1, <4>2 DEF Return, NotBuilt
    <3> HIDE DEF r
    <3>7. r \in {"error", "reused"}
      BY DEF r
    <3> QED BY <3>5, <3>6, <3>7
  <2> QED BY <2>1, <2>2
<1>2. UNCHANGED <<mk, always_make, Sound, Ran, top>>
  BY <1>1, SamePlain DEF given, Ran, top
<1>3. t \notin mk.ruled => Range(mk.prereqs[t]) = {} /\ mk.recipe[t] = "none"
  <2>1. Range(<<>>) = {}
    BY DEF Range
  <2> QED BY <2>1 DEF Working, IInv, TypeOK, IsMakefile
<1>4. \A f \in Files : built[f] # NotBuilt => built'[f] # NotBuilt
  BY <1>1 DEF NotBuilt
<1>5. SoundLeft'
  BY <1>1, <1>2, SoundHolds DEF Working, Promised, SoundLeft
<1>6. SoundAnswer'
  BY <1>1, <1>2 DEF SoundAnswer, Calling
<1>7. SteadyFrames'
  <2>1. stack \in Seq(Frame) /\ TypeOK
    BY DEF Working, IInv, TypeOK
  <2>2. \A f \in Range(stack) : Steady(f) /\ f \in Frame
    BY <2>1, RangeIn DEF Working, Promised, SteadyFrames
  <2>3. \A f \in Range(stack) : Steady(f)'
    BY <1>1, <2>1, <2>2, SteadyKept DEF files
  <2> QED BY <1>1, <2>3 DEF SteadyFrames
<1>8. NotedRan'
  BY <1>1, <1>2 DEF Working, Promised, NotedRan
<1>9. PrereqsBuilt'
  <2>1. \A f \in Files : Range(mk.prereqs[f]) \subseteq Files
    BY MakefileOK, RangeIn DEF Working, IInv, TypeOK
  <2> QED BY <1>1, <1>2, <1>3, <1>4, <2>1 DEF Working, Promised, PrereqsBuilt
<1>10. Settled'
  BY <1>1, <1>2, <1>3 DEF Working, Promised, Settled, OldUnder, files
<1>11. GoalsMet'
  <2>1. mk.goals \in Seq(Files) /\ Range(mk.goals) \subseteq Files
    BY MakefileOK, RangeIn DEF Working, IInv, TypeOK
  <2> QED BY <1>1, <1>2, <1>4, <2>1 DEF Working, Promised, GoalsMet, Calling
<1> QED BY <1>5, <1>6, <1>7, <1>8, <1>9, <1>10, <1>11

(* A target is entered. *)
LEMMA PushPromise ==
  ASSUME Working, NEW t \in Files, NEW frame, Calling(t), Push(frame), frame.target = t,
         Steady(frame)', \A f \in Files : mtime_cache'[f] \in {mtime_cache[f], view[f]}
  PROVE  /\ SoundLeft' /\ SoundAnswer' /\ SteadyFrames'
         /\ NotedRan' /\ PrereqsBuilt' /\ Settled' /\ GoalsMet'
<1>1. /\ UNCHANGED <<given, disk, built, failed_targets, intermediate_built, goals, errors, log>>
      /\ stack' = Append(stack, frame) /\ pc' = "call"
  BY DEF Push, memo
<1>2. SoundLeft' /\ NotedRan' /\ PrereqsBuilt' /\ Settled'
  BY <1>1, SameMemo
<1>3. SoundAnswer'
  BY <1>1 DEF SoundAnswer
<1>4. stack \in Seq(Frame) /\ TypeOK
  BY DEF Working, IInv, TypeOK
<1>5. SteadyFrames'
  <2>1. Range(stack') \subseteq Range(stack) \cup {frame}
    <3>1. /\ Len(stack) \in Nat /\ DOMAIN stack = 1 .. Len(stack)
          /\ DOMAIN stack' = 1 .. Len(stack) + 1
          /\ \A i \in 1 .. Len(stack) : stack'[i] = stack[i]
          /\ stack'[Len(stack) + 1] = frame
      BY <1>1, <1>4
    <3> QED BY <3>1 DEF Range
  <2>2. \A f \in Range(stack) : f \in Frame /\ f.target \in Files /\ Steady(f)
    BY <1>4, RangeIn DEF Working, Promised, SteadyFrames, Frame
  <2>3. \A f \in Range(stack) : Steady(f)'
    BY <1>1, <1>4, <2>2, SteadyKept
  <2> QED BY <2>1, <2>3 DEF SteadyFrames
<1>6. stack'[1].target = Head(goals)
  <2>1. CASE stack = <<>>
    <3>1. stack'[1] = frame
      BY <1>1, <2>1
    <3> QED BY <2>1, <3>1 DEF Calling
  <2>2. CASE stack # <<>>
    <3>1. stack'[1] = stack[1]
      BY <1>1, <1>4, <2>2
    <3> QED BY <2>2, <3>1 DEF Working, Promised, GoalsMet
  <2> QED BY <2>1, <2>2
<1>7. GoalsMet'
  BY <1>1, <1>6 DEF Working, Promised, GoalsMet, given
<1> QED BY <1>2, <1>3, <1>5, <1>7

LEMMA EnterPromise ==
  ASSUME Working, NEW t \in Files, EnterFresh(t) \/ EnterSingle(t)
  PROVE  /\ SoundLeft' /\ SoundAnswer' /\ SteadyFrames'
         /\ NotedRan' /\ PrereqsBuilt' /\ Settled' /\ GoalsMet'
<1>1. /\ Calling(t) /\ Unmet(t) /\ t \in mk.ruled /\ IsMakefile(mk)
      /\ UNCHANGED given
  BY DEF EnterFresh, EnterSingle, Push, Working, IInv, TypeOK
<1>2. UNCHANGED <<mk, always_make, Sound>>
  BY <1>1, SamePlain DEF given
<1>3. /\ \A R : \A f \in Files : Remembering(R)[f] = IF f \in R THEN view[f] ELSE mtime_cache[f]
      /\ view \in [Files -> Nat]
  BY WorkingView DEF Remembering
<1>4. t \notin Ran /\ view[t] = first_disk[t] /\ first_disk[t] <= Start
  <2>1. t \notin Ran
    BY <1>1 DEF Working, IInv, LogInv, LogMet, Met, Unmet, Ran
  <2> QED BY <2>1, WorkingView DEF Working, Promised, Times
<1>5. CASE EnterFresh(t)
  <2> DEFINE ofDeleted == [i \in DOMAIN mk.prereqs[t] |->
                             IF Skippable(mk, view, mk.prereqs[t][i])
                             THEN OrderOnlyNeeds(mk.prereqs[t][i]) ELSE <<>>]
             others == Append(ofDeleted, OrderOnlyNeeds(t))
  <2>1. PICK frame : frame = [NewFrame(t, "fresh") EXCEPT !.agenda = <<>>, !.others = others]
    OBVIOUS
  <2>2. Push(frame) /\ \A f \in Files : mtime_cache'[f] \in {mtime_cache[f], view[f]}
    BY <1>3, <1>5, <2>1 DEF EnterFresh
  <2>3. mk.prereqs[t] \in Seq(Files)
    BY <1>1, MakefileOK
  <2>4. \A p \in Files : /\ OrderOnlyNeeds(p) \in Seq(Dep)
                         /\ \A d \in Range(OrderOnlyNeeds(p)) : d.normal = FALSE
    <3>1. \A p \in Files : mk.order_only[p] \in Seq(Files)
      BY <1>1, MakefileOK
    <3>2. \A p \in Files :
            Range(OrderOnlyNeeds(p)) = {[file |-> q, normal |-> FALSE] : q \in Range(mk.order_only[p])}
      BY <3>1, TaggedHolds DEF OrderOnlyNeeds
    <3> QED BY <1>1, <3>2, NeedsHold
  <2>5. /\ ofDeleted \in Seq(Seq(Dep))
        /\ \A list \in Range(ofDeleted) : \A d \in Range(list) : d.normal = FALSE
    <3>1. /\ Len(mk.prereqs[t]) \in Nat /\ DOMAIN mk.prereqs[t] = 1 .. Len(mk.prereqs[t])
          /\ \A i \in DOMAIN mk.prereqs[t] : mk.prereqs[t][i] \in Files
      BY <2>3
    <3>2. <<>> \in Seq(Dep) /\ Range(<<>>) = {}
      BY DEF Range
    <3>3. ofDeleted \in [1 .. Len(mk.prereqs[t]) -> Seq(Dep)]
      BY <2>4, <3>1, <3>2
    <3>4. \A i \in DOMAIN mk.prereqs[t] : \A d \in Range(ofDeleted[i]) : d.normal = FALSE
      BY <2>4, <3>1, <3>2
    <3>5. DOMAIN ofDeleted = DOMAIN mk.prereqs[t]
      OBVIOUS
    <3> HIDE DEF ofDeleted
    <3> QED BY <3>1, <3>3, <3>4, <3>5 DEF Range
  <2>6. Range(others) = Range(ofDeleted) \cup {OrderOnlyNeeds(t)}
    <3> HIDE DEF ofDeleted
    <3> QED BY <2>4, <2>5, AppendRange
  <2>7. /\ frame.target = t /\ frame.agenda = <<>> /\ frame.others = others
        /\ frame.phase = "fresh" /\ frame.siblings = <<>> /\ ~frame.rebuilt /\ ~frame.failed
    <3> HIDE DEF others
    <3> QED BY <2>1 DEF NewFrame
  <2> HIDE DEF others
  <2>8. t \in Sound
    <3>1. ~always_make /\ PreCheck(mk, view, Now, t).fresh
      BY <1>5 DEF EnterFresh
    <3>2. TypeOK /\ Plain /\ Believed
      BY <3>1, WorkingView DEF Working, IInv, PlainWalk
    <3> QED BY <1>1, <1>4, <3>1, <3>2, FreshSound
  <2>9. \A list \in {frame.agenda} \cup Range(frame.others) : \A d \in Range(list) : d.normal = FALSE
    <3>1. Range(<<>>) = {}
      BY DEF Range
    <3> QED BY <2>4, <2>5, <2>6, <2>7, <3>1
  <2>10. Steady(frame)'
    BY <1>2, <2>7, <2>8, <2>9 DEF Steady
  <2> QED BY <1>1, <2>2, <2>7, <2>10, PushPromise
<1>6. CASE EnterSingle(t)
  <2>1. PICK frame : frame = NewFrame(t, "single")
    OBVIOUS
  <2>2. Push(frame) /\ \A f \in Files : mtime_cache'[f] \in {mtime_cache[f], view[f]}
    BY <1>3, <1>6, <2>1 DEF EnterSingle
  <2>3. ~always_make /\ t \notin mk.phony => mtime_cache'[t] # Unread
    <3> SUFFICES ASSUME ~always_make, t \notin mk.phony PROVE mtime_cache'[t] # Unread
      OBVIOUS
    <3>1. mtime_cache' = Remembering(PreCheck(mk, view, Now, t).reads)
      BY <1>6 DEF EnterSingle
    <3>2. t \in PreCheck(mk, view, Now, t).reads
      BY DEF PreCheck
    <3>3. view[t] \in Nat
      BY <1>3
    <3> QED BY <1>3, <3>1, <3>2, <3>3 DEF Unread
  <2>4. /\ frame.target = t /\ frame.agenda = Needs(t) /\ frame.others = <<>>
        /\ frame.phase = "single" /\ frame.siblings = <<>> /\ ~frame.rebuilt /\ ~frame.failed
    BY <2>1 DEF NewFrame
  <2>5. \A list \in {frame.agenda} \cup Range(frame.others) : \A d \in Range(list) :
          d.normal => d.file \in Range(mk.prereqs[t])
    <3>1. Range(<<>>) = {}
      BY DEF Range
    <3>2. \A d \in Range(Needs(t)) : d.normal => d.file \in Range(mk.prereqs[t])
      BY <1>1, NeedsHold
    <3> QED BY <2>4, <3>1, <3>2
  <2>6. Steady(frame)'
    BY <1>2, <2>3, <2>4, <2>5 DEF Steady
  <2> QED BY <1>1, <2>2, <2>4, <2>6, PushPromise
<1> QED BY <1>5, <1>6

(* The top frame goes on with its lists. *)
LEMMA ReplacePromise ==
  ASSUME Working, stack # <<>>, NEW frame, ReplaceTop(frame), frame.target = top.target,
         Steady(frame), pc' = "call", UNCHANGED <<given, files, memo, goals, errors, log>>
  PROVE  /\ SoundLeft' /\ SoundAnswer' /\ SteadyFrames'
         /\ NotedRan' /\ PrereqsBuilt' /\ Settled' /\ GoalsMet'
<1>1. UNCHANGED <<given, disk, mtime_cache, built, failed_targets, intermediate_built, log>>
  BY DEF files, memo
<1>2. SoundLeft' /\ NotedRan' /\ PrereqsBuilt' /\ Settled'
  BY <1>1, SameMemo
<1>3. SoundAnswer'
  BY DEF SoundAnswer
<1>4. /\ stack \in Seq(Frame) /\ Len(stack) \in DOMAIN stack /\ DOMAIN stack = 1 .. Len(stack)
      /\ top = stack[Len(stack)] /\ 1 \in DOMAIN stack
  BY TopFrame DEF Working, IInv, TypeOK
<1>5. /\ DOMAIN stack' = DOMAIN stack /\ stack'[Len(stack)] = frame
      /\ \A i \in DOMAIN stack : i # Len(stack) => stack'[i] = stack[i]
  BY <1>4 DEF ReplaceTop
<1>6. SteadyFrames'
  <2>1. Range(stack') \subseteq Range(stack) \cup {frame}
    BY <1>4, <1>5 DEF Range
  <2>2. \A f \in Range(stack) \cup {frame} : Steady(f)
    BY DEF Working, Promised, SteadyFrames
  <2>3. UNCHANGED <<mk, always_make, Sound, mtime_cache>>
    BY <1>1, SamePlain DEF given
  <2>4. \A f \in Range(stack) \cup {frame} : Steady(f)'
    BY <2>2, <2>3 DEF Steady
  <2> QED BY <2>1, <2>4 DEF SteadyFrames
<1>7. GoalsMet'
  <2>1. stack'[1].target = stack[1].target
    BY <1>4, <1>5
  <2> QED BY <2>1 DEF Working, Promised, GoalsMet, given, memo
<1> QED BY <1>2, <1>3, <1>6, <1>7

LEMMA FrameStepPromise ==
  ASSUME Working, Resume \/ NextList \/ BuildSiblings
  PROVE  /\ SoundLeft' /\ SoundAnswer' /\ SteadyFrames'
         /\ NotedRan' /\ PrereqsBuilt' /\ Settled' /\ GoalsMet'
<1>1. stack # <<>> /\ UNCHANGED <<given, files, memo, goals, errors, log>>
  BY DEF Resume, NextList, BuildSiblings, Finishing, Listed
<1>2. top \in Frame /\ Steady(top)
  BY <1>1, TopSteady
<1>3. CASE Resume
  <2> DEFINE d == Head(top.agenda)
             rebuilt == top.rebuilt \/ (d.normal /\ ret = "rebuilt")
             failed == top.failed \/ (d.normal /\ ret = "error")
  <2>1. PICK frame : frame = [top EXCEPT !.agenda = Tail(@), !.rebuilt = rebuilt, !.failed = failed]
    OBVIOUS
  <2>2. ReplaceTop(frame) /\ pc = "return" /\ pc' = "call"
    BY <1>3, <2>1 DEF Resume
  <2>3. top.agenda \in Seq(Dep) /\ top.agenda # <<>>
    BY <1>1, <1>2, <2>2 DEF Working, IInv, StackInv, CallPending, Frame
  <2>4. Range(Tail(top.agenda)) \subseteq Range(top.agenda) /\ d \in Range(top.agenda)
    BY <2>3, TailHolds
  <2>5. top.target \in Sound => ~rebuilt /\ ~failed
    <3> SUFFICES ASSUME top.target \in Sound, d.normal PROVE ret = "reused"
      BY <1>2 DEF Steady
    <3>1. d.file \in Range(mk.prereqs[top.target])
      BY <1>2, <2>4 DEF Steady
    <3>2. d.file \in Sound
      BY <3>1, SoundHolds
    <3> QED BY <1>1, <2>2, <3>2 DEF Working, Promised, SoundAnswer
  <2>6. /\ frame.target = top.target /\ frame.agenda = Tail(top.agenda)
        /\ frame.rebuilt = rebuilt /\ frame.failed = failed
        /\ frame.others = top.others /\ frame.phase = top.phase /\ frame.siblings = top.siblings
    BY <1>2, <2>1 DEF Frame
  <2> HIDE DEF d, rebuilt, failed
  <2>7. \A list \in {frame.agenda} \cup Range(frame.others) : \A e \in Range(list) :
          e.normal => e.file \in Range(mk.prereqs[frame.target])
    BY <1>2, <2>4, <2>6 DEF Steady
  <2>8. Steady(frame)
    BY <1>2, <2>5, <2>6, <2>7 DEF Steady
  <2> QED BY <1>1, <2>2, <2>6, <2>8, ReplacePromise
<1>4. CASE NextList
  <2>1. PICK frame : frame = [top EXCEPT !.agenda = Head(top.others), !.others = Tail(@)]
    OBVIOUS
  <2>2. ReplaceTop(frame) /\ pc' = "call" /\ top.others # <<>>
    BY <1>4, <2>1 DEF NextList, Listed
  <2>3. top.others \in Seq(Seq(Dep))
    BY <1>2 DEF Frame
  <2>4. Range(top.others) = Range(Tail(top.others)) \cup {Head(top.others)}
    BY <2>2, <2>3, TailHolds
  <2>5. /\ frame.target = top.target /\ frame.agenda = Head(top.others)
        /\ frame.rebuilt = top.rebuilt /\ frame.failed = top.failed
        /\ frame.others = Tail(top.others) /\ frame.phase = top.phase
        /\ frame.siblings = top.siblings
    BY <1>2, <2>1 DEF Frame
  <2>6. {frame.agenda} \cup Range(frame.others) = Range(top.others)
    BY <2>4, <2>5
  <2>7. Steady(frame)
    BY <1>2, <2>5, <2>6 DEF Steady
  <2> QED BY <1>1, <2>2, <2>5, <2>7, ReplacePromise
<1>5. ~ BuildSiblings
  BY <1>2 DEF BuildSiblings, Finishing, Steady
<1> QED BY <1>3, <1>4, <1>5

(* The next goal. *)
LEMMA GoalPromise ==
  ASSUME Working, NextGoal
  PROVE  /\ SoundLeft' /\ SoundAnswer' /\ SteadyFrames'
         /\ NotedRan' /\ PrereqsBuilt' /\ Settled' /\ GoalsMet'
<1>1. /\ UNCHANGED <<given, disk, mtime_cache, built, failed_targets, intermediate_built, stack, log>>
      /\ pc = "return" /\ pc' = "call" /\ stack = <<>>
      /\ goals' = Tail(goals) /\ errors' = (errors \/ ret = "error")
  BY DEF NextGoal, files, memo
<1>2. SoundLeft' /\ NotedRan' /\ PrereqsBuilt' /\ Settled'
  BY <1>1, SameMemo
<1>3. SoundAnswer'
  BY <1>1 DEF SoundAnswer
<1>4. SteadyFrames'
  <2>1. Range(stack') = {}
    BY <1>1 DEF Range
  <2> QED BY <2>1 DEF SteadyFrames
<1>5. GoalsMet'
  <2>1. Range(goals) = Range(Tail(goals)) \cup {Head(goals)}
    <3>1. goals \in Seq(Files) /\ goals # <<>>
      BY <1>1 DEF Working, IInv, TypeOK, StackInv, CallPending
    <3> QED BY <3>1, TailHolds
  <2> QED BY <1>1, <2>1 DEF Working, Promised, GoalsMet, given
<1> QED BY <1>2, <1>3, <1>4, <1>5

(* A target that is built, or found up to date, when it is not sound. *)
LEMMA SkipSettles ==
  ASSUME Working, Skip, NEW t, t = top.target, t \notin Sound,
         \A p \in Range(mk.prereqs[t]) : built[p] # NotBuilt
  PROVE  OldUnder(t)
<1>1. Deciding /\ ~ Decision.stale /\ stack # <<>>
  BY DEF Skip, Deciding, Finishing, Listed
<1>2. /\ TypeOK /\ Plain /\ Working /\ t \in Files /\ t \notin Ran /\ t \notin failed_targets
      /\ top.rebuilt \in BOOLEAN
  BY <1>1, TopSteady DEF Working, IInv, PlainWalk, Frame
<1>3. /\ ~always_make /\ t \notin mk.phony
      /\ ~ NeedsRebuild(mk, view, Now, built, t, top.rebuilt).stale
  BY <1>1, SparedTested
<1> DEFINE eff == EffectiveMtime(mk, view, Now)
<1>4. /\ view[t] > 0
      /\ \A p \in Range(mk.prereqs[t]) :
           /\ view[p] <= view[t]
           /\ view[p] = 0 => p \notin mk.phony /\ eff[p].time <= view[t]
  BY <1>2, <1>3, NotStaleHolds
<1>5. /\ eff \in Levels
      /\ \A p \in Range(mk.prereqs[t]) :
           view[p] = 0 /\ p \notin mk.phony =>
             \A q \in Range(mk.prereqs[p]) : view[q] <= eff[p].time
  <2>1. Believed
    BY <1>3, WorkingView
  <2> QED BY <1>2, <1>3, <2>1, EffectiveTells
<1> HIDE DEF eff
<1>6. \A f \in Files : built[f] # NotBuilt => view[f] = disk[f]
  <2>1. \A f \in failed_targets : built[f] = NotBuilt
    <3>1. FailuresKnown /\ failed_targets \subseteq Files
      BY DEF Working, IInv, TypeOK, LogInv
    <3> QED BY <3>1 DEF Working, PlainWalk, Plain, Ungrouped, FailuresKnown
  <2> QED BY <2>1, WorkingView
<1>7. view[t] = disk[t] /\ disk[t] = first_disk[t] /\ first_disk[t] <= Start
  BY <1>2, WorkingView DEF Promised, Times, Working
<1>8. /\ \A f \in Files : Range(mk.prereqs[f]) \subseteq Files
      /\ view \in [Files -> Nat] /\ first_disk \in [Files -> Nat] /\ Start \in Nat
  BY <1>2, MakefileOK, RangeIn, WorkingView, TimesAssumption DEF TypeOK
<1>9. ASSUME NEW p \in Range(mk.prereqs[t]), p \notin mk.phony
      PROVE  /\ disk[p] <= disk[t]
             /\ disk[p] = 0 \/ p \in Ran => \A q \in Range(mk.prereqs[p]) : disk[q] <= disk[t]
  <2>1. p \in Files /\ built[p] # NotBuilt /\ view[p] = disk[p]
    BY <1>2, <1>6, <1>8
  <2>2. disk[p] <= disk[t] /\ disk[p] \in Nat
    BY <1>4, <1>7, <1>8, <2>1
  <2>3. p \notin Ran
    <3>1. p \in Ran => disk[p] > Start
      BY <1>9, <2>1 DEF Working, Promised, Times
    <3> QED BY <1>2, <1>7, <1>8, <2>2, <3>1
  <2>4. ASSUME disk[p] = 0, NEW q \in Range(mk.prereqs[p]) PROVE disk[q] <= disk[t]
    <3>1. p \notin Sound
      BY <2>1, <2>3, <2>4, SoundHolds DEF Working, Promised, Times
    <3>2. q \in Files /\ built[q] # NotBuilt /\ view[q] = disk[q]
      BY <1>6, <1>8, <2>1, <3>1 DEF Working, Promised, PrereqsBuilt
    <3>3. view[q] <= eff[p].time /\ eff[p].time <= view[t]
      BY <1>4, <1>5, <1>9, <2>1, <2>4
    <3>4. view[q] \in Nat /\ eff[p].time \in Nat /\ view[t] \in Nat
      BY <1>2, <1>5, <1>8, <2>1, <3>2 DEF Levels
    <3> QED BY <1>7, <3>2, <3>3, <3>4
  <2> QED BY <2>2, <2>3, <2>4
<1> QED BY <1>4, <1>7, <1>9 DEF OldUnder

LEMMA RecipeSettles ==
  ASSUME Working, Next, circular_dropped' = {}, outcome' = "none", Ends, RunRecipe,
         NEW t, t = top.target, t \notin mk.phony
  PROVE  OldUnder(t)'
<1>1. /\ t \in Files /\ disk'[t] = (IF t \in mk.writes[t] THEN Now ELSE disk[t]) /\ clock' = Now
      /\ mk.recipe[t] = "cmd" /\ UNCHANGED mk
  BY RecipeFiles, GivenStays DEF given
<1>2. t \in mk.writes[t]
  BY <1>1 DEF Working, PlainWalk, Plain, SelfMaking
<1>3. \A f \in Files : disk'[f] <= disk'[t]
  BY <1>1, <1>2, NextTimes DEF Times
<1>4. disk'[t] > 0
  BY <1>1, <1>2 DEF Working, IInv, TypeOK, Now
<1>5. \A f \in Files : Range(mk.prereqs[f]) \subseteq Files
  BY MakefileOK, RangeIn DEF Working, IInv, TypeOK
<1> QED BY <1>1, <1>3, <1>4, <1>5 DEF OldUnder

(* The end of a frame leaves what is settled. *)
LEMMA SettledStays ==
  ASSUME Working, Next, circular_dropped' = {}, outcome' = "none", Ends,
         NEW f \in Files, f \notin Sound, built[f] # NotBuilt, OldUnder(f)
  PROVE  OldUnder(f)'
<1>1. UNCHANGED mk
  BY GivenStays DEF given
<1>2. CASE NoneRun
  BY <1>1, <1>2 DEF NoneRun, OldUnder, Ran
<1>3. CASE RunRecipe \/ RecipeFails
  <2> DEFINE t == top.target
  <2>1. /\ Ran' = Ran \cup {t} /\ t \in Files /\ stack # <<>>
        /\ \A g \in Files \ {t} : disk'[g] = disk[g]
    BY <1>3, RecipeFiles
  <2>2. t \notin Sound /\ built[t] = NotBuilt
    BY <1>3, <2>1, EndsPlain, TopSteady
  <2>3. \A g \in Files : Range(mk.prereqs[g]) \subseteq Files
    BY MakefileOK, RangeIn DEF Working, IInv, TypeOK
  <2>4. ASSUME NEW p \in Range(mk.prereqs[f])
        PROVE  p \in Files \ {t} /\ built[p] # NotBuilt
    BY <2>2, <2>3 DEF Working, Promised, PrereqsBuilt
  <2>5. ASSUME NEW p \in Range(mk.prereqs[f]), NEW q \in Range(mk.prereqs[p])
        PROVE  q \in Files \ {t}
    <3>1. p \in Files /\ q \in Files /\ built[p] # NotBuilt
      BY <2>3, <2>4
    <3>2. CASE p \in Sound
      BY <2>2, <3>1, <3>2, SoundHolds
    <3>3. CASE p \notin Sound
      BY <2>2, <3>1, <3>3 DEF Working, Promised, PrereqsBuilt
    <3> QED BY <3>2, <3>3
  <2>6. f # t
    BY <2>2
  <2> HIDE DEF t
  <2> QED BY <1>1, <2>1, <2>4, <2>5, <2>6 DEF OldUnder
<1> QED BY <1>2, <1>3, StepRuns

(* A frame ends. *)
LEMMA EndsMemo ==
  ASSUME Working, Next, circular_dropped' = {}, outcome' = "none", Ends, NEW t, t = top.target
  PROVE  \E r \in Results \cup {"error"} :
           /\ t \in Files /\ built[t] = NotBuilt /\ Pop(r, {}) /\ stack # <<>>
           /\ UNCHANGED <<given, mk, always_make, Sound, goals, errors>>
           /\ failed_targets' = failed_targets \cup (IF r = "error" THEN {t} ELSE {})
           /\ \A p \in Files : p # t => built'[p] = built[p]
           /\ r = "error" => built'[t] = NotBuilt
           /\ r # "error" => built'[t] = r
           /\ t \in Sound => r = "reused" /\ Ran' = Ran
           /\ Ran' = Ran \/ Ran' = Ran \cup {t}
           /\ r # "error" /\ t \notin Sound =>
                \A p \in Range(mk.prereqs[t]) : built[p] # NotBuilt
           /\ r # "error" /\ t \notin Sound \cup mk.phony /\ mk.recipe[t] = "cmd" => OldUnder(t)'
<1>1. stack # <<>> /\ UNCHANGED <<goals, errors>> /\ UNCHANGED given
  BY EndsPop DEF Working, IInv
<1>2. UNCHANGED <<mk, always_make, Sound>>
  BY <1>1, SamePlain DEF given
<1>3. PICK r \in Results \cup {"error"} :
        /\ Pop(r, {})
        /\ t \in Sound => r = "reused" /\ ~RunRecipe /\ ~RecipeFails
        /\ r # "error" /\ t \notin Sound => \A p \in Range(mk.prereqs[t]) : built[p] # NotBuilt
        /\ r # "error" /\ t \notin Sound \cup mk.phony /\ mk.recipe[t] = "cmd" => RunRecipe \/ Skip
  BY EndsPlain
<1>4. t \in Files /\ built[t] = NotBuilt /\ built \in [Files -> Results \cup {NotBuilt}]
  BY <1>1, TopSteady DEF Working, IInv, TypeOK
<1>5. failed_targets' = failed_targets \cup (IF r = "error" THEN {t} ELSE {})
  BY <1>3 DEF Pop, Record
<1>6. built' = IF r = "error" THEN built ELSE [built EXCEPT ![t] = r]
  <2>1. Covering(built, {}) = built
    BY <1>4 DEF Covering
  <2> QED BY <1>3, <2>1 DEF Pop, Record, Recording
<1>7. Ran' = Ran \/ Ran' = Ran \cup {t}
  BY RecipeFiles, StepRuns DEF NoneRun, Ran
<1>8. ~RunRecipe /\ ~RecipeFails => Ran' = Ran
  BY StepRuns DEF NoneRun, Ran
<1>9. ASSUME r # "error", t \notin Sound \cup mk.phony, mk.recipe[t] = "cmd"
      PROVE  OldUnder(t)'
  <2>1. CASE RunRecipe
    BY <1>9, <2>1, RecipeSettles
  <2>2. CASE Skip
    <3>1. OldUnder(t)
      BY <1>3, <1>9, <2>2, SkipSettles
    <3>2. UNCHANGED <<disk, log, mk>>
      BY <1>2, <2>2 DEF Skip
    <3> QED BY <3>1, <3>2 DEF OldUnder, Ran
  <2> QED BY <1>3, <1>9, <2>1, <2>2
<1>10. /\ \A p \in Files : p # t => built'[p] = built[p]
       /\ r = "error" => built'[t] = NotBuilt
       /\ r # "error" => built'[t] = r
  BY <1>4, <1>6
<1>11. t \in Sound => r = "reused" /\ Ran' = Ran
  BY <1>3, <1>8
<1> QED BY <1>1, <1>2, <1>3, <1>4, <1>5, <1>7, <1>9, <1>10, <1>11

LEMMA EndsPromise ==
  ASSUME Working, Next, circular_dropped' = {}, outcome' = "none", Ends
  PROVE  /\ SoundLeft' /\ SoundAnswer' /\ SteadyFrames'
         /\ NotedRan' /\ PrereqsBuilt' /\ Settled' /\ GoalsMet'
<1>1. PICK t : t = top.target
  OBVIOUS
<1>2. PICK r \in Results \cup {"error"} :
        /\ t \in Files /\ built[t] = NotBuilt /\ Pop(r, {}) /\ stack # <<>>
        /\ UNCHANGED <<given, mk, always_make, Sound, goals, errors>>
        /\ failed_targets' = failed_targets \cup (IF r = "error" THEN {t} ELSE {})
        /\ \A p \in Files : p # t => built'[p] = built[p]
        /\ r = "error" => built'[t] = NotBuilt
        /\ r # "error" => built'[t] = r
        /\ t \in Sound => r = "reused" /\ Ran' = Ran
        /\ Ran' = Ran \/ Ran' = Ran \cup {t}
        /\ r # "error" /\ t \notin Sound =>
             \A p \in Range(mk.prereqs[t]) : built[p] # NotBuilt
        /\ r # "error" /\ t \notin Sound \cup mk.phony /\ mk.recipe[t] = "cmd" => OldUnder(t)'
  BY <1>1, EndsMemo
<1>3. /\ r # NotBuilt /\ NotBuilt # "reused" /\ pc' = "return" /\ ret' = r
      /\ \A f \in Files : Range(mk.prereqs[f]) \subseteq Files
      /\ Sound \subseteq Files /\ mk.goals \in Seq(Files) /\ Range(mk.goals) \subseteq Files
  BY <1>2, MakefileOK, RangeIn, SoundHolds
     DEF Results, NotBuilt, Pop, Return, Working, IInv, TypeOK
<1>4. \A p \in Files : built[p] # NotBuilt => built'[p] # NotBuilt
  BY <1>2, <1>3
<1>5. SoundLeft'
  BY <1>2, <1>3 DEF Working, Promised, SoundLeft
<1> DEFINE n == Len(stack)
<1>6. /\ n \in Nat \ {0} /\ DOMAIN stack = 1 .. n /\ stack[n].target = t /\ stack \in Seq(Frame)
      /\ stack' \in Seq(Frame) /\ Len(stack') = n - 1 /\ DOMAIN stack' = 1 .. n - 1
      /\ \A i \in 1 .. n - 1 : stack'[i] = stack[i]
  BY <1>1, <1>2, TopFrame DEF Working, IInv, TypeOK, Pop
<1> HIDE DEF n
<1>7. ASSUME NEW i \in 1 .. n - 1
      PROVE  /\ stack[i].target # t /\ stack[i] \in Frame /\ stack[i] \in Range(stack)
             /\ Head(stack[i].agenda).file = stack[i + 1].target
  <2>1. i \in DOMAIN stack /\ i + 1 \in DOMAIN stack /\ n \in DOMAIN stack /\ i # n
    BY <1>6
  <2> QED BY <1>6, <2>1 DEF Working, IInv, StackInv, RequestChain, Range
<1>8. SoundAnswer'
  <2> SUFFICES ASSUME stack' # <<>>, Head(top'.agenda).file \in Sound PROVE r = "reused"
    BY <1>2, <1>3 DEF SoundAnswer
  <2>1. n - 1 \in 1 .. n - 1
    BY <1>6, EmptySeq
  <2>2. top' = stack[n - 1] /\ stack[n - 1 + 1] = stack[n]
    BY <1>6, <2>1 DEF top, Last
  <2>3. Head(top'.agenda).file = t
    BY <1>6, <1>7, <2>1, <2>2
  <2> QED BY <1>2, <2>3
<1>9. SteadyFrames'
  <2>1. \A f \in Files \ {t} : mtime_cache'[f] \in {mtime_cache[f], view[f]}
    BY <1>1, RecipeFiles, StepRuns DEF NoneRun, Remembering
  <2>2. ASSUME NEW f \in Range(stack') PROVE Steady(f)'
    <3>1. PICK i \in 1 .. n - 1 : f = stack[i]
      BY <1>6 DEF Range
    <3>2. f \in Frame /\ Steady(f) /\ f.target \in Files \ {t}
      BY <1>7, <3>1 DEF Working, Promised, SteadyFrames, Frame
    <3> QED BY <1>2, <2>1, <3>2, SteadyKept DEF Working, IInv
  <2> QED BY <2>2 DEF SteadyFrames
<1>10. NotedRan'
  <2>1. CASE RunRecipe
    <3>1. Ran' = Ran \cup {t}
      BY <1>1, <2>1, RecipeFiles
    <3>2. intermediate_built' = intermediate_built
          \/ (t \in mk.intermediate /\ intermediate_built' = intermediate_built \cup {t})
      BY <1>1, <2>1 DEF RunRecipe
    <3> QED BY <1>2, <3>1, <3>2 DEF Working, Promised, NotedRan
  <2>2. CASE ~ RunRecipe
    <3>1. UNCHANGED intermediate_built
      BY <2>2 DEF Ends, Abandon, FinishFresh, FailPrereqs, NoRecipe, Skip, RunEmpty, RecipeFails
    <3> QED BY <1>2, <3>1 DEF Working, Promised, NotedRan
  <2> QED BY <2>1, <2>2
<1>11. PrereqsBuilt'
  BY <1>2, <1>3, <1>4 DEF Working, Promised, PrereqsBuilt
<1>12. Settled'
  <2> SUFFICES ASSUME NEW f \in Files, f \notin Sound, f \notin mk.phony,
                      built'[f] # NotBuilt, mk.recipe[f] = "cmd"
               PROVE  OldUnder(f)'
    BY <1>2 DEF Settled
  <2>1. CASE f = t
    BY <1>2, <2>1
  <2>2. CASE f # t
    <3>1. built[f] # NotBuilt
      BY <1>2, <2>2
    <3>2. OldUnder(f)
      BY <3>1 DEF Working, Promised, Settled
    <3> QED BY <3>1, <3>2, SettledStays
  <2> QED BY <2>1, <2>2
<1>13. GoalsMet'
  <2>1. stack' # <<>> => stack'[1] = stack[1]
    <3>1. stack' # <<>> => 1 \in 1 .. n - 1
      BY <1>6, EmptySeq
    <3> QED BY <1>6, <3>1
  <2>2. stack' = <<>> => n = 1
    BY <1>6
  <2>3. stack[1].target = Head(goals)
    BY <1>2 DEF Working, Promised, GoalsMet
  <2>4. stack' = <<>> /\ r # "error" => built'[Head(goals)] # NotBuilt
    BY <1>2, <1>3, <1>6, <2>2, <2>3
  <2>5. ~errors => \A g \in Range(mk.goals) : g \in Range(goals) \/ built'[g] # NotBuilt
    BY <1>3, <1>4 DEF Working, Promised, GoalsMet
  <2> QED BY <1>2, <1>3, <2>1, <2>3, <2>4, <2>5 DEF GoalsMet
<1> QED BY <1>5, <1>8, <1>9, <1>10, <1>11, <1>12, <1>13

LEMMA NextPromise ==
  ASSUME IInv, PromiseInv, Next
  PROVE  PromiseInv'
<1> SUFFICES ASSUME PlainWalk' PROVE Promised'
  BY DEF PromiseInv
<1>1. circular_dropped' = {} /\ outcome' = "none"
  BY DEF PlainWalk
<1>2. Working
  <2>1. Plain
    BY GivenStays, SamePlain DEF PlainWalk
  <2>2. circular_dropped = {}
    BY <1>1, NextStack DEF IInv, MemoGrows
  <2>3. outcome = "none"
    BY EndStep DEF IInv, EndInv
  <2> QED BY <2>1, <2>2, <2>3 DEF PromiseInv, Working, PlainWalk
<1>3. Times'
  BY <1>1, <1>2, NextTimes
<1>4. SoundLeft' /\ SoundAnswer' /\ SteadyFrames' /\ NotedRan' /\ PrereqsBuilt' /\ Settled' /\ GoalsMet'
  <2>1. CASE \E t \in Files : BuildTarget(t)
    <3>1. PICK t \in Files : BuildTarget(t)
      BY <2>1
    <3>2. ~ DropCycle(t)
      BY <1>1 DEF DropCycle
    <3>3. ~ EnterGroup(t)
      <4>1. SiblingsToBuild(t) = {}
        BY <1>2 DEF Working, PlainWalk, Plain, Ungrouped, SiblingsToBuild
      <4> QED BY <4>1 DEF EnterGroup
    <3> QED BY <1>2, <3>1, <3>2, <3>3, AnswerPromise, EnterPromise DEF BuildTarget
  <2>2. CASE Resume \/ NextList \/ BuildSiblings
    BY <1>2, <2>2, FrameStepPromise
  <2>3. CASE Ends
    BY <1>1, <1>2, <2>3, EndsPromise
  <2>4. CASE NextGoal
    BY <1>2, <2>4, GoalPromise
  <2>5. CASE GoalFails \/ Finish
    <3>1. outcome' \in {"error", "ok"}
      BY <2>5 DEF GoalFails, Finish, End
    <3> QED BY <1>1, <3>1
  <2> QED BY <2>1, <2>2, <2>3, <2>4, <2>5, NextCases
<1> QED BY <1>3, <1>4 DEF Promised

LEMMA InitPromise == Init => PromiseInv
<1> SUFFICES ASSUME Init PROVE Promised
  BY DEF PromiseInv
<1>1. /\ log = <<>> /\ disk = first_disk /\ clock = Start
      /\ failed_targets = {} /\ intermediate_built = {} /\ stack = <<>>
      /\ \A f \in Files : mtime_cache[f] = Unread /\ built[f] = NotBuilt
      /\ goals = mk.goals /\ pc = "call"
      /\ first_disk \in [Files -> InitialTimes]
  BY DEF Init
<1>2. Ran = {} /\ Range(stack) = {} /\ Sound \subseteq Files
  BY <1>1, SoundHolds DEF Ran, Range
<1>3. Start \in Nat /\ InitialTimes \subseteq 0 .. Start
  BY TimesAssumption
<1>4. \A f \in Files : first_disk[f] \in 0 .. Start
  BY <1>1, <1>3
<1>5. Times
  <2>1. \A f \in Files : first_disk[f] <= Start /\ disk[f] <= clock /\ mtime_cache[f] <= clock
    BY <1>1, <1>3, <1>4 DEF Unread
  <2>2. \A f \in Files : view[f] = first_disk[f]
    BY <1>1 DEF view
  <2> QED BY <1>1, <1>2, <1>3, <2>1, <2>2 DEF Times
<1>6. NotBuilt # "rebuilt"
  BY DEF NotBuilt
<1> QED BY <1>1, <1>2, <1>5, <1>6 DEF Promised, SoundLeft, SoundAnswer, SteadyFrames, NotedRan,
                                     PrereqsBuilt, Settled, GoalsMet

LEMMA StutterPromise == PromiseInv /\ UNCHANGED vars => PromiseInv'
<1> SUFFICES ASSUME PromiseInv, UNCHANGED vars, PlainWalk' PROVE Promised'
  BY DEF PromiseInv
<1>1. UNCHANGED <<given, mk, always_make, first_disk, disk, clock, mtime_cache, built, failed_targets,
                  circular_dropped, intermediate_built, stack, goals, errors, pc, ret, log, outcome>>
  BY DEF vars, given, files, memo, calls
<1>2. (Plain' <=> Plain) /\ UNCHANGED <<Sound, Ran, view, top>>
  BY <1>1, SamePlain DEF Ran, view, top
<1>3. Promised
  BY <1>1, <1>2 DEF PromiseInv, PlainWalk
<1>4. Times' /\ SoundLeft' /\ SoundAnswer' /\ NotedRan' /\ PrereqsBuilt' /\ GoalsMet'
  BY <1>1, <1>2, <1>3 DEF Promised, Times, SoundLeft, SoundAnswer, NotedRan, PrereqsBuilt, GoalsMet
<1>5. SteadyFrames' /\ Settled'
  BY <1>1, <1>2, <1>3 DEF Promised, SteadyFrames, Steady, Settled, OldUnder
<1> QED BY <1>4, <1>5 DEF Promised

(* All that the goals need is built or sound when the goals are done with. *)
LEMMA BelowKnown ==
  ASSUME Working, goals = <<>>, ~errors
  PROVE  \A t \in Below : t \in Files /\ (built[t] # NotBuilt \/ t \in Sound)
<1> DEFINE D == {f \in Files : built[f] # NotBuilt} \cup Sound
<1>1. /\ \A f \in Files : Range(mk.prereqs[f]) \subseteq Files
      /\ Range(mk.goals) \subseteq Files /\ Range(goals) = {}
  BY MakefileOK, RangeIn DEF Working, IInv, TypeOK, Range
<1>2. D \subseteq Files /\ Range(mk.goals) \subseteq D
  BY <1>1, SoundHolds DEF Working, Promised, GoalsMet
<1>3. \A d \in D : Range(mk.prereqs[d]) \subseteq D
  BY <1>1, SoundHolds DEF Working, Promised, PrereqsBuilt
<1> HIDE DEF D
<1>4. Below \subseteq D
  BY <1>2, <1>3 DEF Below, Reached
<1> QED BY <1>2, <1>4 DEF D

(* The end of a build that succeeds. *)
LEMMA FinishUpToDate ==
  ASSUME Working, goals = <<>>, ~errors, End("ok"), NEW t \in Below,
         t \notin mk.phony, t \notin mk.intermediate, mk.recipe[t] = "cmd"
  PROVE  NotOlder(disk', t)
<1>1. /\ \A f \in Files : Range(mk.prereqs[f]) \subseteq Files
      /\ disk \in [Files -> Nat] /\ first_disk \in [Files -> Nat]
  BY MakefileOK, RangeIn DEF Working, IInv, TypeOK
<1>2. t \in Files /\ (built[t] # NotBuilt \/ t \in Sound)
  BY BelowKnown
<1>3. \A f \in Files : disk'[f] = disk[f] \/ (disk'[f] = 0 /\ f \in Ran /\ f \in mk.intermediate)
  BY DEF End, Working, Promised, NotedRan
<1>4. disk'[t] = disk[t] /\ disk[t] \in Nat
  BY <1>1, <1>2, <1>3
<1>5. \A f \in Files : disk[f] \in Nat /\ disk'[f] <= disk[f]
  BY <1>1, <1>3
<1>6. CASE t \in Sound
  <2>1. \A f \in Sound : disk'[f] = first_disk[f] /\ first_disk[f] > 0 /\ f \in Files
    BY <1>3, SoundHolds DEF Working, Promised, Times, SoundLeft
  <2>2. \A p \in Range(mk.prereqs[t]) : p \in Sound /\ first_disk[p] <= first_disk[t]
    BY <1>6, SoundHolds
  <2>3. \A p \in Range(mk.prereqs[t]) : disk'[p] <= disk'[t] /\ disk'[p] # 0
    BY <1>1, <1>6, <2>1, <2>2
  <2> QED BY <1>6, <2>1, <2>3 DEF NotOlder
<1>7. CASE t \notin Sound
  <2>1. OldUnder(t)
    BY <1>2, <1>7 DEF Working, Promised, Settled
  <2>2. ASSUME NEW p \in Range(mk.prereqs[t]), p \notin mk.phony
        PROVE  /\ disk'[p] <= disk'[t]
               /\ disk'[p] = 0 => \A q \in Range(mk.prereqs[p]) : disk'[q] <= disk'[t]
    <3>1. p \in Files /\ disk[p] <= disk[t]
      BY <1>1, <1>2, <2>1, <2>2 DEF OldUnder
    <3>2. disk'[p] <= disk'[t]
      BY <1>1, <1>3, <1>4, <3>1
    <3>3. ASSUME disk'[p] = 0, NEW q \in Range(mk.prereqs[p])
          PROVE  disk'[q] <= disk'[t]
      <4>1. disk[p] = 0 \/ p \in Ran
        BY <1>3, <3>1, <3>3
      <4>2. q \in Files /\ disk[q] <= disk[t]
        BY <1>1, <2>1, <2>2, <3>1, <4>1 DEF OldUnder
      <4> QED BY <1>1, <1>3, <1>4, <4>2
    <3> QED BY <3>2, <3>3
  <2>3. disk'[t] > 0
    BY <1>4, <2>1 DEF OldUnder
  <2> QED BY <2>2, <2>3 DEF NotOlder
<1> QED BY <1>6, <1>7

LEMMA NextUpToDate ==
  ASSUME IInv, PromiseInv, Next
  PROVE  UpToDateAtEnd'
<1> SUFFICES ASSUME outcome' = "ok", Plain', circular_dropped' = {}, NEW t \in Below',
                    t \notin mk'.phony, t \notin mk'.intermediate, mk'.recipe[t] = "cmd"
             PROVE  NotOlder(disk, t)'
  BY DEF UpToDateAtEnd
<1>1. UNCHANGED <<given, mk>> /\ Plain
  BY GivenStays, SamePlain DEF given
<1>2. outcome = "none" /\ outcome' # outcome
  BY EndStep DEF IInv, EndInv
<1>3. Finish
  <2>1. ~ GoalFails
    BY DEF GoalFails, End
  <2>2. ~ \E u \in Files : BuildTarget(u)
    BY <1>2 DEF BuildTarget, Memoized, DropCycle, Leaf, EnterFresh, EnterSingle, EnterGroup, Push
  <2>3. ~ (Resume \/ NextList \/ BuildSiblings \/ NextGoal)
    BY <1>2 DEF Resume, NextList, BuildSiblings, NextGoal
  <2>4. ~ Ends
    BY <1>2, EndsPop DEF IInv
  <2> QED BY <2>1, <2>2, <2>3, <2>4, NextCases
<1>4. goals = <<>> /\ End(IF errors THEN "error" ELSE "ok")
  BY <1>3 DEF Finish
<1>5. ~errors /\ End("ok") /\ circular_dropped = {}
  BY <1>4 DEF End
<1>6. Working
  BY <1>1, <1>2, <1>5 DEF PromiseInv, Working, PlainWalk
<1>7. Below' = Below
  BY <1>1 DEF Below, Reached
<1>8. NotOlder(disk', t)
  BY <1>1, <1>4, <1>5, <1>6, <1>7, FinishUpToDate
<1> QED BY <1>1, <1>8 DEF NotOlder

LEMMA StutterUpToDate == UpToDateAtEnd /\ UNCHANGED vars => UpToDateAtEnd'
<1> SUFFICES ASSUME UpToDateAtEnd, UNCHANGED vars PROVE UpToDateAtEnd'
  OBVIOUS
<1>1. UNCHANGED <<given, mk, disk, outcome, circular_dropped>>
  BY DEF vars, given, files, memo
<1>2. (Plain' <=> Plain) /\ Below' = Below
  BY <1>1, SamePlain DEF Below, Reached
<1> QED BY <1>1, <1>2 DEF UpToDateAtEnd, NotOlder

(* A build that returns success leaves up to date all that its goals need: *)
(* the targets made, those needs_rebuild spared on the times it remembered,*)
(* and those below a target the pre-check found fresh, which the walk did  *)
(* not visit.  The premises name what the code does not promise.           *)
THEOREM LeftUpToDate == Spec => []UpToDateAtEnd
<1>1. IInv /\ PromiseInv /\ [Next]_vars => PromiseInv'
  BY NextPromise, StutterPromise
<1>2. Init => UpToDateAtEnd
  BY DEF Init, UpToDateAtEnd
<1>3. IInv /\ PromiseInv /\ UpToDateAtEnd /\ [Next]_vars => UpToDateAtEnd'
  BY NextUpToDate, StutterUpToDate
<1> QED BY <1>1, <1>2, <1>3, InitPromise, Invariant, PTL DEF Spec
=============================================================================
