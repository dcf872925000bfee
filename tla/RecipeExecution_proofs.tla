----------------------- MODULE RecipeExecution_proofs -----------------------
(***************************************************************************)
(* Theorems about the execution of a recipe, for every recipe, of any      *)
(* length and with any prefixes, and every setting of the options.         *)
(***************************************************************************)
EXTENDS RecipeExecution, SequenceFacts

Recipe == IF job.parallel THEN Rejoined(job.lines) ELSE job.lines

Asks(line) == line.calls_make \/ \E s \in DOMAIN line.subs : "+" \in line.subs[s].prefix

(* A command stands in a line of the makefile; must: in one that asks to   *)
(* be run even with -n.                                                    *)
Written(command, must) ==
  \E k \in DOMAIN job.lines :
    /\ \E s \in DOMAIN job.lines[k].subs : job.lines[k].subs[s].command = command
    /\ must => Asks(job.lines[k])

(* What the executor goes by tells of each command where it stands ...     *)
Faithful(due) ==
  IF job.one_shell THEN due.run = ~job.dry_run
  ELSE Written(due.command, job.dry_run /\ due.run) /\ (job.dry_run => ~due.silent)

(* ... and so does the output.                                             *)
Founded(e) ==
  e.what \in Ends =>
    IF job.one_shell THEN ~job.dry_run
    ELSE e.command # Nothing /\ Written(e.command, job.dry_run)

AskingInv ==
  /\ \A due \in Range(todo) : Faithful(due)
  /\ \A e \in Range(output) : Founded(e)
  /\ job.dry_run => disk = cached \/ \E e \in Range(output) : e.what \in Ends

(* What a worker has of the lines, and that nothing has happened before    *)
(* the loop begins.                                                        *)
BeforeInv ==
  /\ phase \in {"planned", "queued"} => lines = Rejoined(job.lines)
  /\ phase \in {"start", "planned", "queued"} =>
       output = <<>> /\ ~any_cmd_ran /\ cached = disk /\ disk # "new"
  /\ phase \in {"start", "planned", "queued", "done"} => todo = <<>>
  /\ phase = "running" => ~job.touch

Failed == \E e \in Range(output) : e.what = "failed"

(* The target and its remembered time, while the recipe runs and after.    *)
TargetInv ==
  /\ Failed => /\ Done({"error"})
               /\ job.delete_on_error /\ ~job.precious /\ ~job.phony => disk = "absent"
  /\ disk = "absent" => cached \in {"absent", "unread"} \/ (Failed /\ ~job.precious)
  /\ phase = "running" /\ ~any_cmd_ran => cached = disk
  /\ CachedTimeRight

Shown == Named(Events({"echo"}))
ToShow == Select(Named(todo), Commands)
Subs == FlattenSeq([k \in DOMAIN job.lines |-> job.lines[k].subs])
AllShown == Select(Named(Subs), Commands)

(* With -n what has been shown and what is still to be shown are all the   *)
(* commands of the recipe, in order.                                       *)
ShowInv ==
  job.dry_run /\ ~job.silent /\ ~job.one_shell /\ ~job.touch /\ verdict # "error" =>
    CASE phase = "running" -> Shown \o ToShow = AllShown
      [] phase = "done" -> Shown = AllShown
      [] OTHER -> TRUE

IInv == TypeOK /\ BeforeInv /\ AskingInv /\ TargetInv /\ ShowInv
-----------------------------------------------------------------------------
(* The commands of a list.                                                 *)

LEMMA NamedAppend ==
  ASSUME NEW A, NEW C, \A a \in A : a.command \in C, NEW seq \in Seq(A), NEW e \in A
  PROVE  /\ Named(seq) \in Seq(C) /\ Len(Named(seq)) = Len(seq)
         /\ Named(Append(seq, e)) = Append(Named(seq), e.command)
<1> DEFINE longer == Append(seq, e)
           L == Len(seq)
           names == Named(seq)
<1>1. /\ L \in Nat /\ DOMAIN seq = 1 .. L /\ \A k \in 1 .. L : seq[k] \in A
      /\ longer \in Seq(A) /\ DOMAIN longer = 1 .. L + 1
      /\ longer[L + 1] = e /\ \A k \in 1 .. L : longer[k] = seq[k]
  OBVIOUS
<1>2. names = [k \in 1 .. L |-> seq[k].command]
  BY <1>1 DEF Named
<1> HIDE DEF L
<1>3. names \in [1 .. L -> C]
  BY <1>1, <1>2
<1>4. names \in Seq(C) /\ Len(names) = L
  BY <1>1, <1>3
<1>5. Named(longer) = [k \in 1 .. L + 1 |-> longer[k].command]
  BY <1>1 DEF Named
<1> HIDE DEF longer, names
<1>6. Append(names, e.command) = [k \in 1 .. L + 1 |-> IF k = L + 1 THEN e.command ELSE names[k]]
  BY <1>1, <1>4
<1>7. \A k \in 1 .. L + 1 : longer[k].command = IF k = L + 1 THEN e.command ELSE names[k]
  BY <1>1, <1>2
<1>8. Named(longer) = Append(names, e.command)
  BY <1>5, <1>6, <1>7
<1> QED BY <1>4, <1>8 DEF longer, names, L

LEMMA NamedType ==
  ASSUME NEW A, NEW C, \A a \in A : a.command \in C, NEW seq \in Seq(A)
  PROVE  /\ Named(seq) \in Seq(C) /\ Len(Named(seq)) = Len(seq)
         /\ \A k \in 1 .. Len(seq) : Named(seq)[k] = seq[k].command
<1>1. DOMAIN seq = 1 .. Len(seq) /\ Len(seq) \in Nat /\ \A k \in 1 .. Len(seq) : seq[k] \in A
  OBVIOUS
<1>2. Named(seq) = [k \in 1 .. Len(seq) |-> seq[k].command]
  BY <1>1 DEF Named
<1> DEFINE names == Named(seq)
<1>3. names \in [1 .. Len(seq) -> C]
  BY <1>1, <1>2
<1> HIDE DEF names
<1>4. names \in Seq(C) /\ Len(names) = Len(seq)
  BY <1>1, <1>3
<1> QED BY <1>2, <1>4 DEF names

LEMMA NamedConcat ==
  ASSUME NEW A, NEW C, \A a \in A : a.command \in C, NEW s \in Seq(A), NEW t \in Seq(A)
  PROVE  Named(s \o t) = Named(s) \o Named(t)
<1> DEFINE T == {u \in Seq(A) : Named(s \o u) = Named(s) \o Named(u)}
<1>1. <<>> \in T
  <2>1. s \o <<>> = s /\ <<>> \in Seq(A)
    OBVIOUS
  <2>2. Named(<<>>) = <<>>
    BY DEF Named
  <2>3. \A a \in Seq(C) : a \o <<>> = a
    OBVIOUS
  <2>4. Named(s) \o <<>> = Named(s)
    BY <2>3, NamedType
  <2>5. Named(s \o <<>>) = Named(s) \o Named(<<>>)
    BY <2>1, <2>2, <2>4
  <2> QED BY <2>1, <2>5
<1>2. ASSUME NEW u \in Seq(A), NEW e \in A, u \in T PROVE Append(u, e) \in T
  <2>1. s \o Append(u, e) = Append(s \o u, e) /\ s \o u \in Seq(A) /\ Append(u, e) \in Seq(A)
    OBVIOUS
  <2>2. \A v \in Seq(A) : /\ Named(v) \in Seq(C)
                          /\ Named(Append(v, e)) = Append(Named(v), e.command)
    BY NamedAppend
  <2>3. \A a, b \in Seq(C), c \in C : a \o Append(b, c) = Append(a \o b, c)
    <3>1. ASSUME NEW a \in Seq(C), NEW b \in Seq(C), NEW c \in C
          PROVE  a \o Append(b, c) = Append(a \o b, c)
      BY ConcatAppend
    <3> QED BY <3>1
  <2>4. Named(s) \o Append(Named(u), e.command) = Append(Named(s) \o Named(u), e.command)
    BY <2>2, <2>3, Zenon
  <2>5. Named(s \o u) = Named(s) \o Named(u)
    BY <1>2
  <2>6. Named(Append(s \o u, e)) = Append(Named(s \o u), e.command)
    BY <2>1, <2>2, Zenon
  <2>7. Named(Append(u, e)) = Append(Named(u), e.command)
    BY <2>2, Zenon
  <2>8. Named(s \o Append(u, e)) = Named(s) \o Named(Append(u, e))
    BY <2>1, <2>4, <2>5, <2>6, <2>7, Zenon
  <2> QED BY <2>1, <2>8
<1>3. t \in T
  <2> HIDE DEF T
  <2> QED BY <1>1, <1>2, SequenceInduction
<1> QED BY <1>3

(* Choosing commands and choosing what has them is the same.               *)
LEMMA NamedSelect ==
  ASSUME NEW A, NEW seq \in Seq(A), NEW S, NEW D, \A a \in A : a \in S <=> a.command \in D
  PROVE  Named(Select(seq, S)) = Select(Named(seq), D)
<1> DEFINE C == {a.command : a \in A}
<1>0. \A a \in A : a.command \in C
  OBVIOUS
<1> HIDE DEF C
<1> DEFINE T == {u \in Seq(A) : Named(Select(u, S)) = Select(Named(u), D)}
<1>1. <<>> \in T
  <2>1. Named(<<>>) = <<>> /\ <<>> \in Seq(A)
    BY DEF Named
  <2>2. Named(Select(<<>>, S)) = Select(Named(<<>>), D)
    BY <2>1, SelectEmpty
  <2> QED BY <2>1, <2>2
<1>2. ASSUME NEW u \in Seq(A), NEW e \in A, u \in T PROVE Append(u, e) \in T
  <2>1. Select(Append(u, e), S) = IF e \in S THEN Append(Select(u, S), e) ELSE Select(u, S)
    BY SelectAppend
  <2>2. \A v \in Seq(A) : /\ Named(v) \in Seq(C)
                          /\ Named(Append(v, e)) = Append(Named(v), e.command)
    BY <1>0, NamedAppend
  <2>3. ASSUME NEW v \in Seq(C), NEW c \in C
        PROVE  Select(Append(v, c), D) = IF c \in D THEN Append(Select(v, D), c) ELSE Select(v, D)
    BY SelectAppend
  <2>4. Select(u, S) \in Seq(A) /\ Append(u, e) \in Seq(A)
    BY SelectType
  <2>5. Named(Select(u, S)) = Select(Named(u), D)
    BY <1>2
  <2>6. Named(u) \in Seq(C) /\ e.command \in C
    BY <1>0, <2>2
  <2>7. Select(Named(Append(u, e)), D)
          = IF e.command \in D THEN Append(Select(Named(u), D), e.command)
            ELSE Select(Named(u), D)
    <3>1. Select(Append(Named(u), e.command), D)
            = IF e.command \in D THEN Append(Select(Named(u), D), e.command)
              ELSE Select(Named(u), D)
      BY <2>3, <2>6, Zenon
    <3> QED BY <2>2, <3>1
  <2>8. Named(Append(Select(u, S), e)) = Append(Named(Select(u, S)), e.command)
    BY <2>2, <2>4, Zenon
  <2>9. Named(Select(Append(u, e), S)) = Select(Named(Append(u, e)), D)
    <3>1. CASE e \in S
      BY <2>1, <2>5, <2>7, <2>8, <3>1
    <3>2. CASE e \notin S
      BY <2>1, <2>5, <2>7, <3>2
    <3> QED BY <3>1, <3>2
  <2> QED BY <2>4, <2>9
<1>3. seq \in T
  <2> HIDE DEF T
  <2> QED BY <1>1, <1>2, SequenceInduction
<1> QED BY <1>3

(* Joining lists joins their commands.                                     *)
LEMMA NamedFlatten ==
  ASSUME NEW A, NEW C, \A a \in A : a.command \in C, NEW seqs \in Seq(Seq(A))
  PROVE  Named(FlattenSeq(seqs)) = FlattenSeq([k \in DOMAIN seqs |-> Named(seqs[k])])
<1> DEFINE L == Len(seqs)
           named == [k \in DOMAIN seqs |-> Named(seqs[k])]
<1>1. L \in Nat /\ DOMAIN seqs = 1 .. L /\ \A k \in 1 .. L : seqs[k] \in Seq(A)
  OBVIOUS
<1>2. \A v \in Seq(A) : Named(v) \in Seq(C)
  BY NamedType
<1> HIDE DEF L
<1>3. named \in [1 .. L -> Seq(C)]
  BY <1>1, <1>2
<1>4. \A k \in 1 .. L : named[k] = Named(seqs[k])
  BY <1>1
<1> HIDE DEF named
<1>5. named \in Seq(Seq(C)) /\ Len(named) = L
  BY <1>1, <1>3
<1>6. PICK f : Joins(f, seqs, A) /\ FlattenSeq(seqs) = f[L]
  BY FlattenJoins DEF L
<1>7. PICK g : Joins(g, named, C) /\ FlattenSeq(named) = g[L]
  BY <1>5, FlattenJoins
<1>8. /\ f \in [0 .. L -> Seq(A)] /\ f[0] = <<>>
      /\ \A n \in 1 .. L : f[n] = f[n - 1] \o seqs[n]
  BY <1>6 DEF Joins, L
<1>9. /\ g[0] = <<>> /\ \A n \in 1 .. L : g[n] = g[n - 1] \o named[n]
  BY <1>5, <1>7 DEF Joins
<1> DEFINE T == {n \in 0 .. L : Named(f[n]) = g[n]}
<1>10. 0 \in T
  <2>1. Named(<<>>) = <<>>
    BY DEF Named
  <2> QED BY <1>1, <1>8, <1>9, <2>1
<1>11. ASSUME NEW n \in 1 .. L, n - 1 \in T PROVE n \in T
  <2>1. n \in 0 .. L /\ n - 1 \in 0 .. L /\ Named(f[n - 1]) = g[n - 1]
    BY <1>1, <1>11
  <2>2. f[n - 1] \in Seq(A) /\ seqs[n] \in Seq(A)
    BY <1>1, <1>8, <2>1
  <2>3. ASSUME NEW s \in Seq(A), NEW t \in Seq(A) PROVE Named(s \o t) = Named(s) \o Named(t)
    BY NamedConcat
  <2>4. Named(f[n - 1] \o seqs[n]) = Named(f[n - 1]) \o Named(seqs[n])
    BY <2>2, <2>3, Zenon
  <2>5. Named(f[n]) = g[n]
    BY <1>4, <1>8, <1>9, <2>1, <2>4
  <2> QED BY <2>1, <2>5
<1>12. \A n \in 0 .. L : n \in T
  <2> HIDE DEF T
  <2> QED BY <1>1, <1>10, <1>11, Counting
<1>13. L \in 0 .. L
  BY <1>1
<1> QED BY <1>6, <1>7, <1>12, <1>13 DEF named
-----------------------------------------------------------------------------
(* What is read of a recipe.                                               *)

Lines(recipe) ==
  /\ recipe \in Seq(Line)
  /\ \A k \in DOMAIN recipe : /\ recipe[k].subs # <<>>
                              /\ recipe[k].own \subseteq recipe[k].subs[1].prefix

(* The worker's lines: the same commands, with the same prefixes, and no   *)
(* more calls of make than there were.                                     *)
Alike(recipe, other) ==
  /\ DOMAIN recipe = DOMAIN other
  /\ \A k \in DOMAIN recipe : /\ recipe[k].subs = other[k].subs
                              /\ recipe[k].calls_make => other[k].calls_make

LEMMA JobOK ==
  ASSUME IsJob(job)
  PROVE  /\ Lines(job.lines)
         /\ job.parallel \in BOOLEAN /\ job.touch \in BOOLEAN /\ job.dry_run \in BOOLEAN
         /\ job.silent \in BOOLEAN /\ job.one_shell \in BOOLEAN
         /\ job.ignore_errors \in BOOLEAN
BY DEF IsJob, Lines

(* The parts of a line. *)
LEMMA LineParts ==
  ASSUME NEW recipe, Lines(recipe), NEW k \in DOMAIN recipe
  PROVE  /\ recipe[k] \in Line
         /\ recipe[k].own \subseteq recipe[k].subs[1].prefix /\ recipe[k].own \subseteq Flags
         /\ recipe[k].calls_make \in BOOLEAN
         /\ recipe[k].subs \in Seq(SubLine) /\ recipe[k].subs # <<>>
         /\ 1 \in DOMAIN recipe[k].subs
         /\ \A s \in DOMAIN recipe[k].subs :
              /\ recipe[k].subs[s] \in SubLine
              /\ recipe[k].subs[s].prefix \subseteq Flags
              /\ recipe[k].subs[s].command \in Commands \cup {Nothing}
<1>1. recipe[k] \in Line
  BY DEF Lines
<1>2. /\ recipe[k].subs \in Seq(SubLine)
      /\ recipe[k].own \subseteq Flags /\ recipe[k].calls_make \in BOOLEAN
  BY <1>1 DEF Line
<1> DEFINE subs == recipe[k].subs
<1>3. subs # <<>> /\ recipe[k].own \subseteq subs[1].prefix
  BY DEF Lines
<1>4. 1 \in DOMAIN subs /\ \A s \in DOMAIN subs : subs[s] \in SubLine
  <2> HIDE DEF subs
  <2>1. subs \in Seq(SubLine)
    BY <1>2 DEF subs
  <2> QED BY <1>3, <2>1
<1>5. \A sub \in SubLine : sub.prefix \subseteq Flags /\ sub.command \in Commands \cup {Nothing}
  BY DEF SubLine
<1> QED BY <1>1, <1>2, <1>3, <1>4, <1>5

LEMMA RejoinedLines ==
  ASSUME NEW recipe, Lines(recipe)
  PROVE  /\ Lines(Rejoined(recipe)) /\ Alike(Rejoined(recipe), recipe)
         /\ Rejoined(recipe) = <<>> <=> recipe = <<>>
<1> DEFINE L == Len(recipe)
           copy == Rejoined(recipe)
<1>1. recipe \in Seq(Line) /\ L \in Nat /\ DOMAIN recipe = 1 .. L
  BY DEF Lines
<1> HIDE DEF L
<1>2. \A k \in 1 .. L :
        /\ recipe[k] \in Line
        /\ recipe[k].subs[1] \in SubLine /\ recipe[k].subs[1].prefix \subseteq Flags
        /\ recipe[k].subs # <<>>
  BY <1>1, LineParts
<1>3. copy = [k \in 1 .. L |-> [recipe[k] EXCEPT !.own = recipe[k].subs[1].prefix,
                                                 !.calls_make = FALSE]]
  BY <1>1 DEF Rejoined
<1>4. \A k \in 1 .. L : /\ copy[k] \in Line
                        /\ copy[k].own = recipe[k].subs[1].prefix /\ copy[k].subs = recipe[k].subs
                        /\ ~copy[k].calls_make
  BY <1>2, <1>3 DEF Line
<1>5. copy \in [1 .. L -> Line]
  BY <1>3, <1>4
<1> HIDE DEF copy
<1>6. copy \in Seq(Line) /\ DOMAIN copy = 1 .. L /\ Len(copy) = L
  BY <1>1, <1>5
<1>7. Lines(copy)
  BY <1>2, <1>4, <1>6 DEF Lines
<1>8. Alike(copy, recipe)
  BY <1>1, <1>4, <1>6 DEF Alike
<1>9. copy = <<>> <=> recipe = <<>>
  BY <1>1, <1>6 DEF L
<1> QED BY <1>7, <1>8, <1>9 DEF copy

LEMMA FlaggedType ==
  ASSUME IsJob(job), NEW line, line.calls_make \in BOOLEAN, NEW sub \in SubLine
  PROVE  Flagged(line, sub) \in Due /\ Flagged(line, sub).command = sub.command
<1>1. sub.command \in Commands \cup {Nothing}
  BY DEF SubLine
<1> QED BY <1>1, JobOK DEF Flagged, Due

FlagLine(line) == [s \in DOMAIN line.subs |-> Flagged(line, line.subs[s])]

(* Line by line. *)
LEMMA SubLinesAre ==
  ASSUME IsJob(job), NEW recipe, Lines(recipe)
  PROVE  LET lists == [k \in DOMAIN recipe |-> FlagLine(recipe[k])]
         IN  /\ SubLines(recipe) = FlattenSeq(lists)
             /\ lists \in Seq(Seq(Due)) /\ DOMAIN lists = DOMAIN recipe
             /\ \A k \in DOMAIN lists :
                  /\ lists[k] = FlagLine(recipe[k])
                  /\ Named(lists[k]) = Named(recipe[k].subs)
<1> DEFINE L == Len(recipe)
           lists == [k \in DOMAIN recipe |-> FlagLine(recipe[k])]
<1>1. recipe \in Seq(Line) /\ L \in Nat /\ DOMAIN recipe = 1 .. L
  BY DEF Lines
<1>2. SubLines(recipe) = FlattenSeq(lists)
  BY DEF SubLines, FlagLine
<1> HIDE DEF L
<1>3. ASSUME NEW k \in 1 .. L
      PROVE  FlagLine(recipe[k]) \in Seq(Due) /\ Named(FlagLine(recipe[k])) = Named(recipe[k].subs)
  <2> DEFINE subs == recipe[k].subs
             flagged == FlagLine(recipe[k])
             N == Len(subs)
  <2>1. subs \in Seq(SubLine) /\ recipe[k].calls_make \in BOOLEAN
    BY <1>1, LineParts
  <2>2. flagged = [s \in DOMAIN subs |-> Flagged(recipe[k], subs[s])]
    BY DEF FlagLine
  <2> HIDE DEF subs, flagged
  <2>3. N \in Nat /\ DOMAIN subs = 1 .. N /\ \A s \in 1 .. N : subs[s] \in SubLine
    BY <2>1
  <2>4. \A s \in 1 .. N : /\ Flagged(recipe[k], subs[s]) \in Due
                          /\ Flagged(recipe[k], subs[s]).command = subs[s].command
    BY <2>1, <2>3, FlaggedType
  <2> HIDE DEF N
  <2>5. flagged \in [1 .. N -> Due] /\ DOMAIN flagged = 1 .. N
    BY <2>2, <2>3, <2>4
  <2>6. flagged \in Seq(Due)
    BY <2>3, <2>5
  <2>7. Named(flagged) = Named(subs)
    BY <2>2, <2>3, <2>4, <2>5 DEF Named
  <2> QED BY <2>6, <2>7 DEF flagged, subs
<1>4. lists \in [1 .. L -> Seq(Due)] /\ \A k \in 1 .. L : lists[k] = FlagLine(recipe[k])
  BY <1>1, <1>3
<1> HIDE DEF lists
<1>5. lists \in Seq(Seq(Due)) /\ DOMAIN lists = 1 .. L
  BY <1>1, <1>4
<1> QED BY <1>1, <1>2, <1>3, <1>4, <1>5 DEF lists

LEMMA WholeScriptIs ==
  ASSUME IsJob(job), NEW recipe, Lines(recipe), recipe # <<>>
  PROVE  WholeScript(recipe) = <<>> \/ \E due \in Due : /\ WholeScript(recipe) = <<due>>
                                                         /\ due.run = ~job.dry_run
<1> DEFINE first == recipe[1].subs[1].prefix
           due == [command |-> Script, silent |-> "@" \in first,
                   ignore |-> "-" \in first \/ job.ignore_errors, run |-> ~job.dry_run]
<1>1. due \in Due /\ due.run = ~job.dry_run
  BY JobOK DEF Due
<1>2. WholeScript(recipe) = <<>> \/ WholeScript(recipe) = <<due>>
  BY DEF WholeScript
<1> HIDE DEF due
<1> QED BY <1>1, <1>2

LEMMA ReadingType ==
  ASSUME IsJob(job), NEW recipe, Lines(recipe)
  PROVE  Reading(recipe) \in Seq(Due)
<1>1. CASE recipe = <<>>
  BY <1>1 DEF Reading
<1>2. CASE recipe # <<>> /\ job.one_shell
  <2>1. Reading(recipe) = WholeScript(recipe)
    BY <1>2 DEF Reading
  <2>2. CASE WholeScript(recipe) = <<>>
    BY <2>1, <2>2
  <2>3. CASE WholeScript(recipe) # <<>>
    <3>1. PICK due \in Due : WholeScript(recipe) = <<due>>
      BY <1>2, <2>3, WholeScriptIs
    <3> QED BY <2>1, <3>1
  <2> QED BY <2>2, <2>3
<1>3. CASE recipe # <<>> /\ ~job.one_shell
  <2>1. Reading(recipe) = SubLines(recipe)
    BY <1>3 DEF Reading
  <2>2. PICK lists \in Seq(Seq(Due)) : SubLines(recipe) = FlattenSeq(lists)
    BY SubLinesAre
  <2> QED BY <2>1, <2>2, FlattenHolds
<1> QED BY <1>1, <1>2, <1>3

(* Every command that is read is one of the makefile's. *)
LEMMA ReadingFaithful ==
  ASSUME IsJob(job), NEW recipe, Lines(recipe), Alike(recipe, job.lines),
         NEW due \in Range(Reading(recipe))
  PROVE  Faithful(due)
<1>0. recipe # <<>>
  BY DEF Reading, Range
<1>1. CASE job.one_shell
  <2>1. Reading(recipe) = WholeScript(recipe)
    BY <1>0, <1>1 DEF Reading
  <2>2. PICK script \in Due : WholeScript(recipe) = <<script>> /\ script.run = ~job.dry_run
    BY <1>0, <2>1, WholeScriptIs DEF Range
  <2>3. due = script
    BY <2>1, <2>2 DEF Range
  <2> QED BY <1>1, <2>2, <2>3 DEF Faithful
<1>2. CASE ~job.one_shell
  <2>1. Reading(recipe) = SubLines(recipe)
    BY <1>0, <1>2 DEF Reading
  <2>2. PICK lists \in Seq(Seq(Due)) :
          /\ SubLines(recipe) = FlattenSeq(lists) /\ DOMAIN lists = DOMAIN recipe
          /\ \A k \in DOMAIN lists : lists[k] = FlagLine(recipe[k])
    BY SubLinesAre
  <2>3. PICK k \in DOMAIN recipe : due \in Range(FlagLine(recipe[k]))
    BY <2>1, <2>2, FlattenHolds
  <2>4. PICK s \in DOMAIN recipe[k].subs : due = Flagged(recipe[k], recipe[k].subs[s])
    BY <2>3 DEF Range, FlagLine
  <2>5. /\ k \in DOMAIN job.lines /\ job.lines[k].subs = recipe[k].subs
        /\ recipe[k].calls_make => job.lines[k].calls_make
    BY <2>3 DEF Alike
  <2>6. due.command = recipe[k].subs[s].command /\ (job.dry_run => ~due.silent)
    BY <2>4 DEF Flagged
  <2>7. job.dry_run /\ due.run => Asks(job.lines[k])
    <3>1. job.dry_run /\ due.run =>
            \/ "+" \in recipe[k].own \/ "+" \in recipe[k].subs[s].prefix \/ recipe[k].calls_make
      BY <2>4 DEF Flagged
    <3>2. recipe[k].own \subseteq recipe[k].subs[1].prefix /\ 1 \in DOMAIN recipe[k].subs
      BY <2>3, LineParts
    <3> QED BY <2>4, <2>5, <3>1, <3>2 DEF Asks
  <2> QED BY <1>2, <2>4, <2>5, <2>6, <2>7 DEF Faithful, Written
<1> QED BY <1>1, <1>2, JobOK

(* And, line by line, all of them are read, in their order. *)
LEMMA ReadingComplete ==
  ASSUME IsJob(job), NEW recipe, Lines(recipe), Alike(recipe, job.lines), ~job.one_shell
  PROVE  Named(Reading(recipe)) = Named(Subs) /\ Subs \in Seq(SubLine)
<1> DEFINE subs == [k \in DOMAIN job.lines |-> job.lines[k].subs]
           C == Commands \cup {Nothing, Script}
<1>1. Lines(job.lines) /\ Subs = FlattenSeq(subs)
  BY JobOK DEF Subs
<1>2. subs \in Seq(Seq(SubLine)) /\ DOMAIN subs = DOMAIN job.lines
      /\ \A k \in DOMAIN job.lines : subs[k] = job.lines[k].subs
  <2> DEFINE L == Len(job.lines)
  <2>1. L \in Nat /\ DOMAIN job.lines = 1 .. L
    BY <1>1 DEF Lines
  <2> HIDE DEF L
  <2>2. subs \in [1 .. L -> Seq(SubLine)] /\ \A k \in 1 .. L : subs[k] = job.lines[k].subs
    BY <1>1, <2>1, LineParts
  <2> HIDE DEF subs
  <2> QED BY <2>1, <2>2
<1> HIDE DEF subs
<1>3. Subs \in Seq(SubLine)
  BY <1>1, <1>2, FlattenHolds
<1>4. \A sub \in SubLine : sub.command \in C
  BY DEF SubLine
<1>5. Named(Subs) = FlattenSeq([k \in DOMAIN subs |-> Named(subs[k])])
  <2> HIDE DEF C
  <2> QED BY <1>1, <1>2, <1>4, NamedFlatten
<1>6. CASE recipe = <<>>
  <2>1. DOMAIN job.lines = {} /\ Reading(recipe) = <<>>
    BY <1>6 DEF Alike, Reading
  <2>2. job.lines = <<>>
    <3>1. ASSUME NEW list \in Seq(Line), DOMAIN list = {} PROVE list = <<>>
      BY <3>1
    <3> QED BY <1>1, <2>1, <3>1 DEF Lines
  <2>3. Subs = <<>>
    BY <1>1, <1>2, <2>2, FlattenEmpty DEF subs
  <2> QED BY <1>3, <2>1, <2>3
<1>7. CASE recipe # <<>>
  <2>1. Reading(recipe) = SubLines(recipe)
    BY <1>7 DEF Reading
  <2>2. PICK lists \in Seq(Seq(Due)) :
          /\ SubLines(recipe) = FlattenSeq(lists) /\ DOMAIN lists = DOMAIN recipe
          /\ \A k \in DOMAIN lists : Named(lists[k]) = Named(recipe[k].subs)
    BY SubLinesAre
  <2>3. \A due \in Due : due.command \in C
    BY DEF Due
  <2>4. Named(FlattenSeq(lists)) = FlattenSeq([k \in DOMAIN lists |-> Named(lists[k])])
    <3> HIDE DEF C
    <3> QED BY <2>2, <2>3, NamedFlatten
  <2>5. /\ DOMAIN lists = DOMAIN subs
        /\ \A k \in DOMAIN lists : Named(lists[k]) = Named(subs[k])
    BY <1>2, <2>2 DEF Alike
  <2>6. [k \in DOMAIN lists |-> Named(lists[k])] = [k \in DOMAIN subs |-> Named(subs[k])]
    BY <2>5
  <2> QED BY <1>3, <1>5, <2>1, <2>2, <2>4, <2>6
<1> QED BY <1>6, <1>7
-----------------------------------------------------------------------------
(* The command in hand.                                                    *)

LEMMA InHand ==
  ASSUME TypeOK, Running
  PROVE  /\ next \in Due /\ Tail(todo) \in Seq(Due)
         /\ next \in Range(todo) /\ Range(Tail(todo)) \subseteq Range(todo)
         /\ verdict = "none"
<1>1. todo \in Seq(Due) /\ todo # <<>> /\ verdict = "none"
  BY DEF TypeOK, Running
<1>2. Head(todo) \in Due /\ Tail(todo) \in Seq(Due)
  BY <1>1
<1>3. Range(todo) = {Head(todo)} \cup Range(Tail(todo))
  BY <1>1, TailHolds
<1> QED BY <1>1, <1>2, <1>3 DEF next

(* What is still to be shown, with the command in hand first. *)
LEMMA ToShowInHand ==
  ASSUME TypeOK, Running
  PROVE  /\ ToShow \in Seq(Commands) /\ Select(Named(Tail(todo)), Commands) \in Seq(Commands)
         /\ ToShow = IF next.command \in Commands
                     THEN <<next.command>> \o Select(Named(Tail(todo)), Commands)
                     ELSE Select(Named(Tail(todo)), Commands)
<1> DEFINE C == Commands \cup {Nothing, Script}
<1>1. \A due \in Due : due.command \in C
  BY DEF Due
<1>2. todo \in Seq(Due) /\ todo # <<>>
  BY DEF TypeOK, Running
<1> HIDE DEF C
<1>3. ASSUME NEW names \in Seq(C) PROVE Select(names, Commands) \in Seq(Commands)
  <2>1. Select(names, Commands) \in Seq(C) /\ Range(Select(names, Commands)) \subseteq Commands
    BY SelectType, SelectRange
  <2>2. ASSUME NEW list \in Seq(C), Range(list) \subseteq Commands PROVE list \in Seq(Commands)
    BY <2>2 DEF Range
  <2> QED BY <2>1, <2>2
<1>4. ASSUME NEW list \in Seq(Due), list # <<>>
      PROVE  Select(Named(list), Commands)
               = IF Head(list).command \in Commands
                 THEN <<Head(list).command>> \o Select(Named(Tail(list)), Commands)
                 ELSE Select(Named(Tail(list)), Commands)
  <2>1. PICK first \in Due, rest \in Seq(Due) :
          /\ first = Head(list) /\ rest = Tail(list) /\ list = <<first>> \o rest
          /\ <<first>> \in Seq(Due)
    <3>1. /\ Head(list) \in Due /\ Tail(list) \in Seq(Due)
          /\ list = <<Head(list)>> \o Tail(list) /\ <<Head(list)>> \in Seq(Due)
      BY <1>4
    <3> QED BY <3>1
  <2>2. first.command \in C /\ <<first.command>> \in Seq(C)
    BY <1>1
  <2>3. Named(list) = Named(<<first>>) \o Named(rest)
    <3>1. ASSUME NEW s \in Seq(Due), NEW t \in Seq(Due) PROVE Named(s \o t) = Named(s) \o Named(t)
      BY <1>1, NamedConcat
    <3> QED BY <2>1, <3>1, Zenon
  <2>4. Named(<<first>>) = <<first.command>>
    BY DEF Named
  <2>5. Named(rest) \in Seq(C)
    BY <1>1, NamedType
  <2>6. Select(<<first.command>> \o Named(rest), Commands)
          = Select(<<first.command>>, Commands) \o Select(Named(rest), Commands)
    <3>1. ASSUME NEW s \in Seq(C), NEW t \in Seq(C)
          PROVE  Select(s \o t, Commands) = Select(s, Commands) \o Select(t, Commands)
      BY SelectConcat
    <3> QED BY <2>2, <2>5, <3>1, Zenon
  <2>7. Select(<<first.command>>, Commands)
          = IF first.command \in Commands THEN <<first.command>> ELSE <<>>
    BY <2>2, SelectOne
  <2>8. <<>> \o Select(Named(rest), Commands) = Select(Named(rest), Commands)
    <3>1. \A v \in Seq(Commands) : <<>> \o v = v
      OBVIOUS
    <3> QED BY <1>3, <2>5, <3>1
  <2>9. CASE first.command \in Commands
    BY <2>1, <2>3, <2>4, <2>6, <2>7, <2>9, Zenon
  <2>10. CASE first.command \notin Commands
    BY <2>1, <2>3, <2>4, <2>6, <2>7, <2>8, <2>10, Zenon
  <2> QED BY <2>9, <2>10
<1>5. Named(todo) \in Seq(C) /\ Named(Tail(todo)) \in Seq(C)
  <2>1. Tail(todo) \in Seq(Due)
    BY InHand
  <2>2. \A v \in Seq(Due) : Named(v) \in Seq(C)
    BY <1>1, NamedType
  <2> QED BY <1>2, <2>1, <2>2
<1> QED BY <1>2, <1>3, <1>4, <1>5 DEF ToShow, next

-----------------------------------------------------------------------------
(* What a command echoes, and what became of it.                           *)

Echo == [what |-> "echo", command |-> next.command]
Result(end) == [what |-> end, command |-> next.command]
echoed == IF next.silent \/ job.silent THEN output ELSE Append(output, Echo)

EventsOf(list, whats) == Select(list, {e \in Event : e.what \in whats})

(* list is output with something added: an echo, unless it is silent, and  *)
(* the results of ends.                                                    *)
Adds(list, ends) ==
  /\ list \in Seq(Event)
  /\ Range(output) \subseteq Range(list)
  /\ \A e \in Range(list) : \/ e \in Range(output)
                            \/ e = Echo
                            \/ \E end \in ends : e = Result(end)
  /\ \A end \in ends : Result(end) \in Range(list)
  /\ EventsOf(list, {"echo"}) = IF next.silent \/ job.silent THEN Events({"echo"})
                                ELSE Append(Events({"echo"}), Echo)

LEMMA EventsAppend ==
  ASSUME NEW list \in Seq(Event), NEW e \in Event, NEW whats
  PROVE  /\ Append(list, e) \in Seq(Event) /\ EventsOf(list, whats) \in Seq(Event)
         /\ Range(Append(list, e)) = Range(list) \cup {e}
         /\ EventsOf(Append(list, e), whats) = IF e.what \in whats
                                               THEN Append(EventsOf(list, whats), e)
                                               ELSE EventsOf(list, whats)
<1> DEFINE S == {d \in Event : d.what \in whats}
<1>1. EventsOf(Append(list, e), whats) = Select(Append(list, e), S)
      /\ EventsOf(list, whats) = Select(list, S)
  BY DEF EventsOf
<1>2. e \in S <=> e.what \in whats
  OBVIOUS
<1> HIDE DEF S
<1>3. Append(list, e) \in Seq(Event) /\ Range(Append(list, e)) = Range(list) \cup {e}
  BY AppendRange
<1>4. Select(Append(list, e), S) = IF e \in S THEN Append(Select(list, S), e) ELSE Select(list, S)
  BY SelectAppend
<1>5. Select(list, S) \in Seq(Event)
  BY SelectType
<1> QED BY <1>1, <1>2, <1>3, <1>4, <1>5

LEMMA EchoAdds ==
  ASSUME TypeOK, Running, next.command # Nothing
  PROVE  /\ Adds(echoed, {}) /\ EventsOf(echoed, Ends) = Events(Ends)
         /\ next.command \in Commands \cup {Script} /\ next.silent \in BOOLEAN
<1>1. output \in Seq(Event)
  BY DEF TypeOK
<1>2. next.command \in Commands \cup {Script} /\ next.silent \in BOOLEAN
  BY InHand DEF Due
<1>3. Echo \in Event /\ Echo.what = "echo"
  BY <1>2 DEF Echo, Event
<1>4. \A whats : Events(whats) = EventsOf(output, whats)
  BY DEF Events, EventsOf
<1>5. CASE next.silent \/ job.silent
  BY <1>1, <1>2, <1>4, <1>5 DEF Adds, echoed
<1>6. CASE ~(next.silent \/ job.silent)
  <2>1. echoed = Append(output, Echo)
    BY <1>6 DEF echoed
  <2>2. echoed \in Seq(Event) /\ Range(echoed) = Range(output) \cup {Echo}
    BY <1>1, <1>3, <2>1, EventsAppend
  <2>3. EventsOf(echoed, {"echo"}) = Append(Events({"echo"}), Echo)
    BY <1>1, <1>3, <1>4, <2>1, EventsAppend
  <2>4. EventsOf(echoed, Ends) = Events(Ends)
    <3>1. "echo" \notin Ends
      BY DEF Ends
    <3> QED BY <1>1, <1>3, <1>4, <2>1, <3>1, EventsAppend
  <2> QED BY <1>2, <1>6, <2>2, <2>3, <2>4 DEF Adds
<1> QED BY <1>5, <1>6

LEMMA ShowingIs ==
  ASSUME TypeOK, Running, next.command # Nothing
  PROVE  /\ Showing(<<>>) => output' = echoed
         /\ \A end \in Ends : Showing(<<end>>) => output' = Append(echoed, Result(end))
<1>1. echoed \in Seq(Event) /\ next.command \in Commands \cup {Script} /\ output \in Seq(Event)
  BY EchoAdds DEF Adds, TypeOK
<1> DEFINE shown == output \o (IF next.silent \/ job.silent THEN <<>> ELSE <<Echo>>)
<1>2. shown = echoed
  <2>1. Echo \in Event
    BY <1>1 DEF Echo, Event
  <2>2. \A a \in Seq(Event), e \in Event : a \o <<>> = a /\ a \o <<e>> = Append(a, e)
    OBVIOUS
  <2> QED BY <1>1, <2>1, <2>2 DEF echoed
<1>3. Showing(<<>>) => output' = echoed
  <2>1. Showing(<<>>) => output' = shown \o <<>>
    BY DEF Showing, Echo
  <2>2. \A a \in Seq(Event) : a \o <<>> = a
    OBVIOUS
  <2> HIDE DEF shown
  <2> QED BY <1>1, <1>2, <2>1, <2>2
<1>4. ASSUME NEW end \in Ends, Showing(<<end>>) PROVE output' = Append(echoed, Result(end))
  <2>1. output' = shown \o <<Result(end)>>
    BY <1>4 DEF Showing, Echo, Result
  <2>2. Result(end) \in Event
    BY <1>1 DEF Result, Event
  <2>3. \A a \in Seq(Event), e \in Event : a \o <<e>> = Append(a, e)
    OBVIOUS
  <2> HIDE DEF shown
  <2> QED BY <1>1, <1>2, <2>1, <2>2, <2>3
<1> QED BY <1>3, <1>4

(* A command that is shown only. *)
LEMMA ShowOnly ==
  ASSUME TypeOK, Running, next.command # Nothing, Showing(<<>>)
  PROVE  Adds(output', {}) /\ Events(Ends)' = Events(Ends)
<1>1. output' = echoed
  BY ShowingIs
<1>2. Events(Ends)' = EventsOf(output', Ends)
  BY DEF Events, EventsOf, Event, Ends
<1> QED BY <1>1, <1>2, EchoAdds

(* A command that is started. *)
LEMMA ShowResult ==
  ASSUME TypeOK, Running, next.command # Nothing, NEW end \in Ends, Showing(<<end>>)
  PROVE  Adds(output', {end}) /\ Events(Ends)' = Append(Events(Ends), Result(end))
<1>1. output' = Append(echoed, Result(end))
  BY ShowingIs
<1>2. Events(Ends)' = EventsOf(output', Ends)
  BY DEF Events, EventsOf, Event, Ends
<1>3. Adds(echoed, {}) /\ EventsOf(echoed, Ends) = Events(Ends)
      /\ next.command \in Commands \cup {Script}
  BY EchoAdds
<1>4. Result(end) \in Event /\ Result(end).what = end /\ end # "echo"
  BY <1>3 DEF Result, Event, Ends
<1>5. echoed \in Seq(Event)
  BY <1>3 DEF Adds
<1>6. output' \in Seq(Event) /\ Range(output') = Range(echoed) \cup {Result(end)}
  BY <1>1, <1>4, <1>5, EventsAppend
<1>7. EventsOf(output', {"echo"}) = EventsOf(echoed, {"echo"})
  BY <1>1, <1>4, <1>5, EventsAppend
<1>8. EventsOf(output', Ends) = Append(EventsOf(echoed, Ends), Result(end))
  BY <1>1, <1>4, <1>5, EventsAppend
<1>9. Adds(output', {end})
  BY <1>3, <1>6, <1>7 DEF Adds
<1> QED BY <1>2, <1>3, <1>8, <1>9

(* What has been shown, with that of the command in hand. *)
LEMMA ShownThen ==
  ASSUME TypeOK, Running, next.command # Nothing, NEW ends \in SUBSET Ends, Adds(output', ends),
         job' = job
  PROVE  /\ Shown \in Seq(Commands \cup {Script})
         /\ Shown' = IF next.silent \/ job.silent THEN Shown ELSE Append(Shown, next.command)
<1> DEFINE C == Commands \cup {Script}
<1>1. \A e \in Event : e.command \in C
  BY DEF Event
<1>2. Events({"echo"}) \in Seq(Event) /\ Echo \in Event /\ Echo.command = next.command
  <2>1. output \in Seq(Event) /\ next.command \in C
    BY EchoAdds DEF TypeOK
  <2>2. Select(output, {e \in Event : e.what \in {"echo"}}) \in Seq(Event)
    BY <2>1, SelectType
  <2> QED BY <2>1, <2>2 DEF Events, Echo, Event
<1>3. Events({"echo"})' = IF next.silent \/ job.silent THEN Events({"echo"})
                          ELSE Append(Events({"echo"}), Echo)
  <2>1. Events({"echo"})' = EventsOf(output', {"echo"})
    BY DEF Events, EventsOf, Event, Ends
  <2> QED BY <2>1 DEF Adds
<1> HIDE DEF C
<1>4. ASSUME NEW list \in Seq(Event), NEW e \in Event
      PROVE  Named(list) \in Seq(C) /\ Named(Append(list, e)) = Append(Named(list), e.command)
  BY <1>1, NamedAppend
<1>5. Shown' = Named(Events({"echo"})')
  BY DEF Shown, Named
<1> QED BY <1>2, <1>3, <1>4, <1>5 DEF Shown, C
-----------------------------------------------------------------------------
(* The invariant.                                                          *)

LEMMA NothingAdded ==
  ASSUME output = <<>>
  PROVE  ~Failed /\ Shown = <<>> /\ \A whats : Events(whats) = <<>>
<1>1. \A whats : Events(whats) = <<>>
  BY SelectEmpty DEF Events
<1> QED BY <1>1 DEF Failed, Range, Shown, Named

(* The lines the executor reads. *)
LEMMA RecipeLines ==
  ASSUME IsJob(job)
  PROVE  Lines(Recipe) /\ Alike(Recipe, job.lines)
<1>1. Lines(job.lines)
  BY JobOK
<1>2. Lines(Rejoined(job.lines)) /\ Alike(Rejoined(job.lines), job.lines)
  BY <1>1, RejoinedLines
<1>3. Alike(job.lines, job.lines)
  BY DEF Alike
<1> QED BY <1>1, <1>2, <1>3 DEF Recipe

LEMMA Begins ==
  ASSUME TypeOK, BeforeInv, Begun
  PROVE  /\ (IF job.parallel THEN lines ELSE job.lines) = Recipe
         /\ output = <<>> /\ ~any_cmd_ran /\ cached = disk /\ verdict = "none"
BY DEF TypeOK, BeforeInv, Begun, Recipe

LEMMA InitInv == Init => IInv
<1> SUFFICES ASSUME Init PROVE IInv
  OBVIOUS
<1>1. IsJob(job) /\ output = <<>> /\ todo = <<>> /\ lines = <<>>
  BY JobsAssumption DEF Init
<1>2. TypeOK
  <2>1. lines \in Seq(Line) /\ todo \in Seq(Due) /\ output \in Seq(Event)
    BY <1>1
  <2>2. phase = "start" /\ verdict = "none" /\ disk \in Files /\ cached \in Files
        /\ any_cmd_ran = FALSE /\ any_recipe_ran = FALSE
    BY DEF Init, Files
  <2> QED BY <1>1, <2>1, <2>2 DEF TypeOK
<1> QED BY <1>1, <1>2, NothingAdded DEF Init, IInv, BeforeInv, AskingInv, TargetInv, ShowInv,
                                        CachedTimeRight, Done, Range

LEMMA NextTypes ==
  ASSUME IInv, Next PROVE TypeOK'
<1>1. TypeOK /\ BeforeInv
  BY DEF IInv
<1>2. CASE CollectPlan
  <2>1. Lines(Rejoined(job.lines))
    BY <1>1, JobOK, RejoinedLines DEF TypeOK
  <2> QED BY <1>1, <1>2, <2>1 DEF CollectPlan, TypeOK, Lines
<1>3. CASE Dispatch
  BY <1>1, <1>3 DEF Dispatch, Return, TypeOK
<1>4. CASE Touch
  BY <1>1, <1>4, JobOK DEF Touch, Begun, Return, Forget, TypeOK, Files
<1>5. CASE Expand
  <2>1. todo' \in Seq(Due)
    BY <1>1, <1>5, Begins, RecipeLines, ReadingType DEF Expand, TypeOK
  <2> QED BY <1>1, <1>5, <2>1 DEF Expand, Begun, TypeOK
<1>6. CASE SkipEmpty
  BY <1>1, <1>6, InHand DEF SkipEmpty, TypeOK
<1>7. CASE Preview
  <2>1. output' \in Seq(Event) /\ todo' \in Seq(Due)
    BY <1>1, <1>7, ShowOnly, InHand DEF Preview, Adds
  <2> QED BY <1>1, <1>7, <2>1 DEF Preview, Running, TypeOK
<1>8. CASE Run
  <2>1. output' \in Seq(Event) /\ todo' \in Seq(Due)
    BY <1>1, <1>8, ShowResult, InHand DEF Run, Starting, Ends, Adds
  <2> QED BY <1>1, <1>8, <2>1 DEF Run, Starting, Running, TypeOK, Files
<1>9. CASE Fail
  <2>1. output' \in Seq(Event)
    BY <1>1, <1>9, ShowResult DEF Fail, Starting, Ends, Adds
  <2> QED BY <1>1, <1>9, <2>1 DEF Fail, Starting, Running, Return, Deleting, TypeOK, Files
<1>10. CASE CannotSpawn
  <2>1. output' \in Seq(Event) /\ Tail(todo) \in Seq(Due)
    BY <1>1, <1>10, ShowOnly, InHand DEF CannotSpawn, Starting, Adds
  <2>2. any_cmd_ran' \in BOOLEAN /\ any_recipe_ran' \in BOOLEAN
        /\ UNCHANGED <<job, lines, disk, cached>> /\ phase = "running" /\ verdict = "none"
    BY <1>1, <1>10 DEF CannotSpawn, Starting, Running, Return, TypeOK
  <2>3. \/ phase' = "done" /\ verdict' = "error" /\ todo' = <<>>
        \/ phase' = phase /\ verdict' = verdict /\ todo' = Tail(todo)
    BY <1>10 DEF CannotSpawn, Return
  <2>4. todo' \in Seq(Due)
    <3>1. <<>> \in Seq(Due)
      OBVIOUS
    <3> QED BY <2>1, <2>3, <3>1
  <2> QED BY <1>1, <2>1, <2>2, <2>3, <2>4 DEF TypeOK
<1>11. CASE Finish
  BY <1>1, <1>11 DEF Finish, Return, Forget, TypeOK, Files
<1> QED BY <1>2, <1>3, <1>4, <1>5, <1>6, <1>7, <1>8, <1>9, <1>10, <1>11 DEF Next

LEMMA NextBefore ==
  ASSUME IInv, Next PROVE BeforeInv'
<1>1. TypeOK /\ BeforeInv
  BY DEF IInv
<1>2. Rejoined(job.lines)' = Rejoined(job.lines) \/ job' # job
  BY DEF Rejoined
<1> USE DEF BeforeInv, Return
<1>3. CASE CollectPlan
  BY <1>1, <1>2, <1>3 DEF CollectPlan
<1>4. CASE Dispatch
  BY <1>1, <1>2, <1>4 DEF Dispatch
<1>5. CASE Touch
  BY <1>5 DEF Touch
<1>6. CASE Expand
  BY <1>6 DEF Expand
<1>7. CASE SkipEmpty \/ Preview \/ Run \/ Fail \/ CannotSpawn
  BY <1>1, <1>7 DEF SkipEmpty, Preview, Run, Fail, CannotSpawn, Starting, Running
<1>8. CASE Finish
  BY <1>8 DEF Finish
<1> QED BY <1>3, <1>4, <1>5, <1>6, <1>7, <1>8 DEF Next

LEMMA JobStays == ASSUME Next PROVE job' = job
BY DEF Next, CollectPlan, Dispatch, Touch, Expand, SkipEmpty, Preview, Run, Fail, CannotSpawn,
       Finish, Return

(* What a started command adds is founded. *)
LEMMA ResultFounded ==
  ASSUME TypeOK, AskingInv, Starting, NEW end \in Ends
  PROVE  Founded(Result(end))
<1>1. Running /\ next.command # Nothing /\ next.run
  BY DEF Starting
<1>2. Faithful(next)
  BY <1>1, InHand DEF AskingInv
<1> QED BY <1>1, <1>2 DEF Faithful, Founded, Written, Result

LEMMA NextAsking ==
  ASSUME IInv, Next PROVE AskingInv'
<1>1. TypeOK /\ BeforeInv /\ AskingInv /\ job' = job
  BY JobStays DEF IInv
<1>2. \A x : (Faithful(x)' <=> Faithful(x)) /\ (Founded(x)' <=> Founded(x))
  BY <1>1 DEF Faithful, Founded, Written, Asks
<1> SUFFICES /\ \A due \in Range(todo') : Faithful(due)
             /\ \A e \in Range(output') : Founded(e)
             /\ job.dry_run => disk' = cached' \/ \E e \in Range(output') : e.what \in Ends
  BY <1>1, <1>2 DEF AskingInv
<1>3. \A ends \in SUBSET Ends :
        Adds(output', ends) /\ (\A end \in ends : Founded(Result(end)))
          => \A e \in Range(output') : Founded(e)
  BY <1>1 DEF Adds, AskingInv, Founded, Echo, Ends
<1>4. todo' = <<>> \/ todo' = todo => \A due \in Range(todo') : Faithful(due)
  BY <1>1 DEF AskingInv, Range
<1>5. Running /\ todo' = Tail(todo) => \A due \in Range(todo') : Faithful(due)
  BY <1>1, InHand DEF AskingInv
<1>6. CASE CollectPlan \/ Dispatch
  BY <1>1, <1>4, <1>6 DEF CollectPlan, Dispatch, Return, AskingInv
<1>7. CASE Touch
  BY <1>1, <1>4, <1>7, Begins DEF Touch, Return, AskingInv
<1>8. CASE Expand
  <2>1. todo' = Reading(Recipe) /\ output' = output /\ disk' = disk /\ cached' = cached
    BY <1>1, <1>8, Begins DEF Expand
  <2>2. \A due \in Range(todo') : Faithful(due)
    BY <1>1, <2>1, RecipeLines, ReadingFaithful DEF TypeOK
  <2> QED BY <1>1, <2>1, <2>2 DEF AskingInv
<1>9. CASE SkipEmpty
  BY <1>1, <1>5, <1>9 DEF SkipEmpty, AskingInv
<1>10. CASE Preview
  <2>1. Adds(output', {})
    BY <1>1, <1>10, ShowOnly DEF Preview
  <2> QED BY <1>1, <1>3, <1>5, <1>10, <2>1 DEF Preview, AskingInv, Adds
<1>11. CASE Run \/ Fail
  <2>1. PICK end \in Ends : Showing(<<end>>)
    BY <1>11 DEF Run, Fail, Ends
  <2>2. Starting /\ Adds(output', {end}) /\ (todo' = <<>> \/ (Running /\ todo' = Tail(todo)))
    BY <1>1, <1>11, <2>1, ShowResult DEF Run, Fail, Starting, Return
  <2>3. Founded(Result(end)) /\ Result(end).what \in Ends
    BY <1>1, <2>2, ResultFounded DEF Result
  <2>4. \A e \in Range(output') : Founded(e)
    BY <1>3, <2>2, <2>3
  <2>5. Result(end) \in Range(output')
    BY <2>2 DEF Adds
  <2> QED BY <1>4, <1>5, <2>2, <2>3, <2>4, <2>5
<1>12. CASE CannotSpawn
  <2>1. Adds(output', {}) /\ Running
    BY <1>1, <1>12, ShowOnly DEF CannotSpawn, Starting
  <2> QED BY <1>1, <1>3, <1>4, <1>5, <1>12, <2>1 DEF CannotSpawn, Return, AskingInv, Adds
<1>13. CASE Finish
  BY <1>1, <1>4, <1>13 DEF Finish, Return, AskingInv
<1> QED BY <1>6, <1>7, <1>8, <1>9, <1>10, <1>11, <1>12, <1>13 DEF Next

LEMMA NextTarget ==
  ASSUME IInv, Next PROVE TargetInv'
<1>1. TypeOK /\ BeforeInv /\ TargetInv /\ job' = job
  BY JobStays DEF IInv
<1>2. output = <<>> => ~Failed
  BY NothingAdded
<1>3. \A ends \in SUBSET (Ends \ {"failed"}) : Adds(output', ends) => (Failed' => Failed)
  BY DEF Adds, Failed, Echo, Result, Ends
<1>4. output' = output => (Failed' <=> Failed)
  BY DEF Failed
<1>5. job.parallel \in BOOLEAN /\ job.dry_run \in BOOLEAN /\ disk \in Files
  BY <1>1, JobOK DEF TypeOK
<1> USE DEF TargetInv, CachedTimeRight, Done
<1>6. CASE CollectPlan
  BY <1>1, <1>2, <1>4, <1>6 DEF CollectPlan, BeforeInv
<1>7. CASE Dispatch
  BY <1>1, <1>2, <1>4, <1>7 DEF Dispatch, Return, BeforeInv, TypeOK
<1>8. CASE Touch
  <2>1. ~Failed' /\ phase' = "done" /\ cached = disk
    BY <1>1, <1>2, <1>4, <1>8, Begins DEF Touch, Return
  <2> QED BY <1>1, <1>5, <1>8, <2>1 DEF Touch, Return, Forget
<1>9. CASE Expand
  <2>1. ~Failed' /\ phase' = "running" /\ cached = disk
    BY <1>1, <1>2, <1>4, <1>9, Begins DEF Expand
  <2> QED BY <1>1, <1>9, <2>1 DEF Expand
<1>10. CASE SkipEmpty
  BY <1>1, <1>4, <1>10 DEF SkipEmpty
<1>11. CASE Preview
  <2>1. Failed' => Failed
    BY <1>1, <1>3, <1>11, ShowOnly DEF Preview
  <2> QED BY <1>1, <1>11, <2>1 DEF Preview, Running
<1>12. CASE Run
  <2>1. PICK end \in Ends \ {"failed"} : Showing(<<end>>)
    BY <1>12 DEF Run, Ends
  <2>2. Failed' => Failed
    BY <1>1, <1>3, <1>12, <2>1, ShowResult DEF Run, Starting
  <2> QED BY <1>1, <1>12, <2>2 DEF Run, Starting, Running
<1>13. CASE Fail
  <2>1. Running /\ "failed" \in Ends /\ Adds(output', {"failed"})
    BY <1>1, <1>13, ShowResult DEF Fail, Starting, Ends
  <2>2. Failed' /\ ~Failed
    BY <1>1, <2>1 DEF Adds, Failed, Result, Running
  <2>3. PICK file \in {disk, "new"} : disk' = Deleting(file)
    BY <1>13 DEF Fail
  <2>4. phase' = "done" /\ verdict' = "error" /\ cached' = cached
    BY <1>13 DEF Fail, Return
  <2> QED BY <1>1, <2>2, <2>3, <2>4 DEF Deleting
<1>14. CASE CannotSpawn
  <2>1. (Failed' => Failed) /\ phase = "running"
    BY <1>1, <1>3, <1>14, ShowOnly DEF CannotSpawn, Starting, Running
  <2> QED BY <1>1, <1>14, <2>1 DEF CannotSpawn, Starting, Return
<1>15. CASE Finish
  BY <1>1, <1>4, <1>5, <1>15 DEF Finish, Return, Forget
<1> QED BY <1>6, <1>7, <1>8, <1>9, <1>10, <1>11, <1>12, <1>13, <1>14, <1>15 DEF Next

LEMMA ShowStep ==
  ASSUME IInv, Running, next.command # Nothing, NEW ends \in SUBSET Ends, Adds(output', ends),
         job' = job, todo' = Tail(todo), job.dry_run, ~job.silent, ~job.one_shell
  PROVE  (Shown \o ToShow)' = Shown \o ToShow
<1> DEFINE C == Commands \cup {Script}
           rest == Select(Named(Tail(todo)), Commands)
<1>1. TypeOK /\ Faithful(next)
  BY InHand DEF IInv, AskingInv
<1>2. next.command \in Commands /\ next.silent = FALSE
  <2>1. next.command \in Commands \cup {Script} /\ next.silent \in BOOLEAN
    BY <1>1, EchoAdds
  <2>2. PICK k \in DOMAIN job.lines : \E s \in DOMAIN job.lines[k].subs :
                                       job.lines[k].subs[s].command = next.command
    BY <1>1 DEF Faithful, Written
  <2>3. next.command \in Commands \cup {Nothing}
    BY <1>1, <2>2, JobOK, LineParts DEF TypeOK
  <2> QED BY <1>1, <2>1, <2>3 DEF Faithful
<1>3. Shown \in Seq(C) /\ Shown' = Append(Shown, next.command)
  BY <1>1, <1>2, ShownThen
<1>4. rest \in Seq(Commands) /\ ToShow = <<next.command>> \o rest
  BY <1>1, <1>2, ToShowInHand
<1>5. ToShow' = rest
  BY DEF ToShow, Named
<1>6. rest \in Seq(C) /\ next.command \in C
  <2>1. ASSUME NEW list \in Seq(Commands) PROVE list \in Seq(C)
    OBVIOUS
  <2> QED BY <1>2, <1>4, <2>1
<1> HIDE DEF C, rest
<1>7. ASSUME NEW D, NEW c \in D, NEW s \in Seq(D), NEW t \in Seq(D)
      PROVE  Append(s, c) \o t = s \o (<<c>> \o t)
  OBVIOUS
<1>8. Append(Shown, next.command) \o rest = Shown \o (<<next.command>> \o rest)
  <2>1. \A c \in C, s, t \in Seq(C) : Append(s, c) \o t = s \o (<<c>> \o t)
    BY <1>7
  <2>2. PICK c \in C, s \in Seq(C), t \in Seq(C) : c = next.command /\ s = Shown /\ t = rest
    BY <1>3, <1>6
  <2>3. Append(s, c) \o t = s \o (<<c>> \o t)
    BY <2>1
  <2> QED BY <2>2, <2>3
<1> QED BY <1>3, <1>4, <1>5, <1>8

LEMMA NextShow ==
  ASSUME IInv, Next PROVE ShowInv'
<1>1. TypeOK /\ BeforeInv /\ ShowInv /\ job' = job
  BY JobStays DEF IInv
<1>2. AllShown' = AllShown
  BY <1>1 DEF AllShown, Subs, Named
<1> SUFFICES ASSUME job.dry_run, ~job.silent, ~job.one_shell, ~job.touch, verdict' # "error"
             PROVE  /\ phase' = "running" => (Shown \o ToShow)' = AllShown
                    /\ phase' = "done" => Shown' = AllShown
  BY <1>1, <1>2 DEF ShowInv
<1>3. output' = output => Shown' = Shown
  BY DEF Shown, Events, Named, Event, Ends
<1>4. CASE CollectPlan
  BY <1>4 DEF CollectPlan, BeforeInv, TypeOK
<1>5. CASE Dispatch
  <2>1. CASE lines # <<>>
    BY <1>5, <2>1 DEF Dispatch
  <2>2. CASE lines = <<>>
    <3>1. Shown' = <<>> /\ job.lines = <<>>
      BY <1>1, <1>3, <1>5, <2>2, NothingAdded, RejoinedLines, JobOK
         DEF Dispatch, BeforeInv, TypeOK
    <3>2. Subs = <<>>
      BY <3>1, FlattenEmpty DEF Subs
    <3>3. AllShown = <<>>
      BY <3>2, SelectEmpty DEF AllShown, Named
    <3> QED BY <1>5, <2>2, <3>1, <3>3 DEF Dispatch, Return
  <2> QED BY <2>1, <2>2
<1>6. CASE Touch
  BY <1>6 DEF Touch
<1>7. CASE Expand
  <2>1. todo' = Reading(Recipe) /\ output' = output /\ output = <<>> /\ phase' = "running"
    BY <1>1, <1>7, Begins DEF Expand
  <2>2. Named(Reading(Recipe)) = Named(Subs) /\ Subs \in Seq(SubLine)
    BY <1>1, RecipeLines, ReadingComplete DEF TypeOK
  <2>3. ToShow' = AllShown
    BY <2>1, <2>2 DEF ToShow, AllShown, Named
  <2>4. Shown' = <<>>
    BY <1>3, <2>1, NothingAdded
  <2>5. \E A : AllShown \in Seq(A)
    <3> DEFINE A == Commands \cup {Nothing}
    <3>1. \A sub \in SubLine : sub.command \in A
      BY DEF SubLine
    <3>2. Named(Subs) \in Seq(A)
      BY <2>2, <3>1, NamedType
    <3>3. AllShown \in Seq(A)
      BY <3>2, SelectType DEF AllShown
    <3> QED BY <3>3
  <2>6. <<>> \o AllShown = AllShown
    <3>1. \A A, v : v \in Seq(A) => <<>> \o v = v
      OBVIOUS
    <3> QED BY <2>5, <3>1
  <2> QED BY <2>1, <2>3, <2>4, <2>6
<1>8. CASE SkipEmpty
  <2>1. ToShow' = ToShow
    <3>1. ToShow = Select(Named(Tail(todo)), Commands)
      BY <1>1, <1>8, ToShowInHand, NothingAssumption DEF SkipEmpty
    <3> QED BY <1>8, <3>1 DEF SkipEmpty, ToShow, Named
  <2> QED BY <1>1, <1>3, <1>8, <2>1 DEF SkipEmpty, ShowInv, Running
<1>9. CASE Preview
  <2>1. Adds(output', {}) /\ Running /\ next.command # Nothing
    BY <1>1, <1>9, ShowOnly DEF Preview
  <2>2. (Shown \o ToShow)' = Shown \o ToShow
    BY <1>1, <1>9, <2>1, ShowStep DEF Preview
  <2> QED BY <1>1, <1>9, <2>1, <2>2 DEF Preview, ShowInv, Running
<1>10. CASE Run
  <2>1. PICK end \in Ends : Showing(<<end>>)
    BY <1>10 DEF Run, Ends
  <2>2. Adds(output', {end}) /\ Running /\ next.command # Nothing
    BY <1>1, <1>10, <2>1, ShowResult DEF Run, Starting
  <2>3. (Shown \o ToShow)' = Shown \o ToShow
    BY <1>1, <1>10, <2>2, ShowStep DEF Run
  <2> QED BY <1>1, <1>10, <2>2, <2>3 DEF Run, ShowInv, Running
<1>11. CASE Fail
  BY <1>11 DEF Fail, Return
<1>12. CASE CannotSpawn
  <2>1. Adds(output', {}) /\ Running /\ next.command # Nothing
    BY <1>1, <1>12, ShowOnly DEF CannotSpawn, Starting
  <2>2. todo' = Tail(todo) /\ phase' = phase /\ verdict' = verdict
    BY <1>12 DEF CannotSpawn, Return
  <2>3. (Shown \o ToShow)' = Shown \o ToShow
    BY <1>1, <2>1, <2>2, ShowStep
  <2> QED BY <1>1, <2>1, <2>2, <2>3 DEF ShowInv, Running
<1>13. CASE Finish
  <2>1. Shown' = Shown /\ todo = <<>> /\ phase = "running" /\ phase' = "done"
    BY <1>3, <1>13 DEF Finish, Return
  <2>2. ToShow = <<>>
    BY <2>1, SelectEmpty DEF ToShow, Named
  <2>3. \E A : Shown \in Seq(A)
    <3> DEFINE C == Commands \cup {Script}
    <3>1. \A e \in Event : e.command \in C
      BY DEF Event
    <3>2. Events({"echo"}) \in Seq(Event)
      BY <1>1, SelectType DEF TypeOK, Events
    <3>3. Shown \in Seq(C)
      BY <3>1, <3>2, NamedType DEF Shown
    <3> QED BY <3>3
  <2>4. Shown \o <<>> = Shown
    <3>1. \A A, v : v \in Seq(A) => v \o <<>> = v
      OBVIOUS
    <3> QED BY <2>3, <3>1
  <2>5. verdict # "error"
    BY <1>1, <2>1 DEF TypeOK
  <2> QED BY <1>1, <2>1, <2>2, <2>4, <2>5 DEF ShowInv
<1> QED BY <1>4, <1>5, <1>6, <1>7, <1>8, <1>9, <1>10, <1>11, <1>12, <1>13 DEF Next

LEMMA NextInv == IInv /\ [Next]_vars => IInv'
<1> SUFFICES ASSUME IInv, [Next]_vars PROVE IInv'
  OBVIOUS
<1>1. CASE Next
  BY <1>1, NextTypes, NextBefore, NextAsking, NextTarget, NextShow DEF IInv
<1>2. CASE UNCHANGED vars
  <2>1. TypeOK' /\ BeforeInv'
    BY <1>2 DEF vars, IInv, TypeOK, BeforeInv, Rejoined
  <2>2. AskingInv' /\ TargetInv'
    BY <1>2 DEF vars, IInv, AskingInv, Faithful, Founded, Written, Asks, TargetInv, Failed,
                CachedTimeRight, Done
  <2>3. ShowInv'
    BY <1>2 DEF vars, IInv, ShowInv, Shown, ToShow, AllShown, Subs, Events, Named
  <2> QED BY <2>1, <2>2, <2>3 DEF IInv
<1> QED BY <1>1, <1>2

LEMMA Invariance == Spec => []IInv
BY InitInv, NextInv, PTL DEF Spec
-----------------------------------------------------------------------------
(* The properties.                                                         *)

(* The state of a recipe is well-typed: a plan is there only with -j, and  *)
(* a recipe has a result exactly when it is over.                          *)
THEOREM TypeCorrect == Spec => []TypeOK
<1>1. IInv => TypeOK
  BY DEF IInv
<1> QED BY <1>1, Invariance, PTL

LEMMA EventsHold ==
  ASSUME TypeOK, NEW whats
  PROVE  /\ Events(whats) \in Seq(Event)
         /\ Range(Events(whats)) = {e \in Range(output) : e.what \in whats}
         /\ Events(whats) = <<>> <=> ~ \E e \in Range(output) : e.what \in whats
<1> DEFINE S == {e \in Event : e.what \in whats}
           events == Select(output, S)
<1>1. output \in Seq(Event) /\ Range(output) \subseteq Event
  BY RangeIn DEF TypeOK
<1>2. events \in Seq(Event) /\ Range(events) = Range(output) \cap S
  <2> HIDE DEF S
  <2> QED BY <1>1, SelectType, SelectRange
<1> HIDE DEF events
<1>3. Range(events) = {e \in Range(output) : e.what \in whats}
  BY <1>1, <1>2
<1>4. events = <<>> <=> Range(events) = {}
  BY <1>2, EmptyRange
<1> QED BY <1>2, <1>3, <1>4 DEF events, Events

(* However a recipe ends, .DELETE_ON_ERROR has been obeyed, the target was *)
(* removed for no other reason, and what mtime_cache has of it is not      *)
(* older than what the recipe did to it.                                   *)
THEOREM TargetLeftRight == Spec => []TargetAsLeft
<1>1. ASSUME IInv PROVE TargetAsLeft
  <2>1. Events({"failed"}) = <<>> <=> ~Failed
    BY <1>1, EventsHold DEF IInv, Failed
  <2> QED BY <1>1, <2>1 DEF IInv, TargetInv, TargetAsLeft, DeletedOnError
<1> QED BY <1>1, Invariance, PTL

(* -n shows every command and runs none but those that ask to be run, and  *)
(* -q takes no recipe that runs something for an empty one.                *)
THEOREM AskingAnswered == Spec => []AskingFaithful
<1>1. ASSUME IInv PROVE AskingFaithful
  <2>0. TypeOK /\ AskingInv /\ ShowInv /\ job.one_shell \in BOOLEAN
    BY <1>1, JobOK DEF IInv, TypeOK
  <2> DEFINE run == {e \in Range(output) : e.what \in Ends}
  <2>1. Range(started) = {e.command : e \in run} /\ (started # <<>> => run # {})
    <3>1. Events(Ends) \in Seq(Event) /\ Range(Events(Ends)) = run
      BY <2>0, EventsHold
    <3>2. Range(started) = {e.command : e \in Range(Events(Ends))}
      BY DEF started, Named, Range
    <3>3. started # <<>> => run # {}
      BY <2>0, EventsHold DEF started, Named
    <3> QED BY <3>1, <3>2, <3>3
  <2>2. \A e \in run : Founded(e)
    BY <2>0 DEF AskingInv
  <2>3. DryRunHarmless
    <3> DEFINE asks(line) ==
                 line.calls_make \/ \E s \in DOMAIN line.subs : "+" \in line.subs[s].prefix
               lines_of == {l \in Range(job.lines) : asks(l)}
               of(line) == {line.subs[s].command : s \in DOMAIN line.subs}
               exempt == UNION {of(line) : line \in lines_of}
    <3> SUFFICES ASSUME job.dry_run
                 PROVE  /\ Range(started) \subseteq exempt \ {Nothing}
                        /\ exempt = {} => disk = cached
      BY DEF DryRunHarmless
    <3>1. ASSUME NEW e \in run PROVE e.command \in exempt \ {Nothing}
      <4>1. e.command # Nothing /\ Written(e.command, TRUE)
        BY <2>0, <2>2, <3>1 DEF Founded, Written
      <4>2. PICK k \in DOMAIN job.lines :
              /\ \E s \in DOMAIN job.lines[k].subs : job.lines[k].subs[s].command = e.command
              /\ Asks(job.lines[k])
        BY <4>1 DEF Written
      <4>3. job.lines[k] \in lines_of /\ e.command \in of(job.lines[k])
        BY <4>2 DEF Asks, Range
      <4> HIDE DEF lines_of, of
      <4> QED BY <4>1, <4>3
    <3>2. disk = cached \/ run # {}
      BY <2>0 DEF AskingInv
    <3> HIDE DEF exempt, run
    <3> QED BY <2>1, <3>1, <3>2
  <2>4. DryRunShows
    <3> DEFINE S == {s \in SubLine : s.command # Nothing}
    <3> SUFFICES ASSUME Done({"rebuilt", "reused"}), job.dry_run, ~job.silent, ~job.one_shell,
                        ~job.touch
                 PROVE  Shown = Named(Select(Subs, S))
      BY DEF DryRunShows, Shown, Subs
    <3>1. Shown = AllShown
      BY <2>0 DEF ShowInv, Done
    <3>2. Subs \in Seq(SubLine)
      BY <2>0, RecipeLines, ReadingComplete DEF TypeOK
    <3>3. \A s \in SubLine : s \in S <=> s.command \in Commands
      BY NothingAssumption DEF SubLine
    <3>4. Named(Select(Subs, S)) = Select(Named(Subs), Commands)
      <4> HIDE DEF S
      <4> QED BY <3>2, <3>3, NamedSelect
    <3> QED BY <3>1, <3>4 DEF AllShown
  <2>5. QuestionHidesNothing
    <3> SUFFICES ASSUME started # <<>>, ~job.one_shell
                 PROVE  recipe_has_real_commands(job.lines)
      BY DEF QuestionHidesNothing
    <3>1. PICK e \in run : Founded(e)
      BY <2>1, <2>2
    <3>2. e.command # Nothing /\ Written(e.command, job.dry_run)
      BY <3>1 DEF Founded
    <3> QED BY <3>2 DEF Written, recipe_has_real_commands
  <2> QED BY <2>3, <2>4, <2>5 DEF AskingFaithful
<1> QED BY <1>1, Invariance, PTL
-----------------------------------------------------------------------------
(* What is left of the contract: the commands still to be started.         *)

Wanted == {due \in Due : due.command # Nothing /\ due.run}
Item(due) == [command |-> due.command, ignore |-> due.ignore]
Owed(list) == LET wanted == Select(list, Wanted) IN [k \in DOMAIN wanted |-> Item(wanted[k])]
Items == [command : Commands \cup {Script}, ignore : BOOLEAN]

LEMMA OwedOf ==
  ASSUME NEW list \in Seq(Due)
  PROVE  /\ Owed(list) \in Seq(Items)
         /\ list # <<>> =>
              Owed(list) = IF Head(list) \in Wanted
                           THEN <<Item(Head(list))>> \o Owed(Tail(list)) ELSE Owed(Tail(list))
<1>1. ASSUME NEW u \in Seq(Due)
      PROVE  /\ Select(u, Wanted) \in Seq(Wanted)
             /\ Owed(u) \in Seq(Items)
             /\ Len(Owed(u)) = Len(Select(u, Wanted))
             /\ \A k \in 1 .. Len(Owed(u)) : Owed(u)[k] = Item(Select(u, Wanted)[k])
  <2>1. Select(u, Wanted) \in Seq(Due) /\ Range(Select(u, Wanted)) \subseteq Wanted
    BY SelectType, SelectRange
  <2>2. ASSUME NEW w \in Seq(Due), Range(w) \subseteq Wanted PROVE w \in Seq(Wanted)
    BY <2>2 DEF Range
  <2>3. Select(u, Wanted) \in Seq(Wanted)
    BY <2>1, <2>2
  <2>4. \A due \in Wanted : Item(due) \in Items
    BY DEF Wanted, Due, Item, Items
  <2>5. ASSUME NEW w \in Seq(Wanted), NEW o, o = [k \in DOMAIN w |-> Item(w[k])]
        PROVE  o \in Seq(Items) /\ Len(o) = Len(w) /\ \A k \in 1 .. Len(o) : o[k] = Item(w[k])
    <3>1. Len(w) \in Nat /\ DOMAIN w = 1 .. Len(w) /\ \A k \in 1 .. Len(w) : w[k] \in Wanted
      OBVIOUS
    <3>2. o \in [1 .. Len(w) -> Items] /\ \A k \in 1 .. Len(w) : o[k] = Item(w[k])
      BY <2>4, <2>5, <3>1
    <3>3. o \in Seq(Items) /\ Len(o) = Len(w)
      BY <3>1, <3>2
    <3> QED BY <3>2, <3>3
  <2>6. Owed(u) = [k \in DOMAIN Select(u, Wanted) |-> Item(Select(u, Wanted)[k])]
    BY DEF Owed
  <2> QED BY <2>3, <2>5, <2>6
<1>2. ASSUME list # <<>>
      PROVE  Owed(list) = IF Head(list) \in Wanted
                          THEN <<Item(Head(list))>> \o Owed(Tail(list)) ELSE Owed(Tail(list))
  <2>1. Tail(list) \in Seq(Due) /\ Head(list) \in Due
    BY <1>2
  <2>2. Select(list, Wanted) = (IF Head(list) \in Wanted THEN <<Head(list)>> ELSE <<>>)
                                 \o Select(Tail(list), Wanted)
    BY <1>2, SelectTail
  <2>3. PICK kept \in Seq(Wanted) : kept = Select(Tail(list), Wanted)
    BY <1>1, <2>1
  <2>4. CASE Head(list) \notin Wanted
    <3>1. <<>> \o kept = kept
      OBVIOUS
    <3>2. Select(list, Wanted) = Select(Tail(list), Wanted)
      BY <2>2, <2>3, <2>4, <3>1
    <3> QED BY <2>4, <3>2 DEF Owed
  <2>5. CASE Head(list) \in Wanted
    <3>1. PICK first \in Wanted : first = Head(list)
      BY <2>5
    <3>2. PICK all \in Seq(Wanted) : all = <<first>> \o kept
      <4>1. <<first>> \o kept \in Seq(Wanted)
        OBVIOUS
      <4> QED BY <4>1
    <3>3. all = Select(list, Wanted)
      BY <2>2, <2>3, <2>5, <3>1, <3>2
    <3>4. /\ Owed(list) \in Seq(Items) /\ Len(Owed(list)) = Len(all)
          /\ \A k \in 1 .. Len(all) : Owed(list)[k] = Item(all[k])
      BY <1>1, <3>3
    <3>5. /\ Owed(Tail(list)) \in Seq(Items) /\ Len(Owed(Tail(list))) = Len(kept)
          /\ \A k \in 1 .. Len(kept) : Owed(Tail(list))[k] = Item(kept[k])
      BY <1>1, <2>1, <2>3
    <3>6. Item(first) \in Items
      BY DEF Wanted, Due, Item, Items
    <3>7. ASSUME NEW o \in Seq(Items), NEW rest \in Seq(Items),
                 Len(o) = Len(all), \A k \in 1 .. Len(all) : o[k] = Item(all[k]),
                 Len(rest) = Len(kept), \A k \in 1 .. Len(kept) : rest[k] = Item(kept[k])
          PROVE  o = <<Item(first)>> \o rest
      <4> DEFINE item == Item(first)
                 L == Len(kept)
      <4>1. /\ L \in Nat /\ Len(all) = L + 1 /\ all[1] = first
            /\ \A k \in 1 .. L : all[k + 1] = kept[k]
        BY <3>2
      <4> HIDE DEF L
      <4>2. \A k \in 1 .. L + 1 : o[k] = IF k = 1 THEN item ELSE rest[k - 1]
        <5>1. \A k \in 2 .. L + 1 : k - 1 \in 1 .. L /\ (k - 1) + 1 = k
          BY <4>1
        <5>2. \A k \in 1 .. L + 1 : o[k] = Item(all[k])
          BY <3>7, <4>1
        <5>3. \A k \in 2 .. L + 1 : all[k] = kept[k - 1]
          BY <4>1, <5>1
        <5>4. \A k \in 1 .. L : rest[k] = Item(kept[k])
          BY <3>7 DEF L
        <5>5. \A k \in 1 .. L + 1 : k = 1 \/ k \in 2 .. L + 1
          BY <4>1
        <5>6. 1 \in 1 .. L + 1
          BY <4>1
        <5>7. \A k \in 2 .. L + 1 : k \in 1 .. L + 1 /\ k # 1
          BY <4>1
        <5>8. \A k \in 2 .. L + 1 : o[k] = rest[k - 1]
          BY <5>1, <5>2, <5>3, <5>4, <5>7
        <5>9. o[1] = item
          BY <4>1, <5>2, <5>6
        <5> QED BY <5>5, <5>8, <5>9
      <4> HIDE DEF item
      <4>3. item \in Items
        BY <3>6 DEF item
      <4> QED BY <3>7, <4>1, <4>2, <4>3 DEF L, item
    <3>8. Owed(list) = <<Item(first)>> \o Owed(Tail(list))
      BY <3>4, <3>5, <3>7
    <3> QED BY <2>5, <3>1, <3>8
  <2> QED BY <2>4, <2>5
<1> QED BY <1>1, <1>2

(* The commands ahead are those the makefile tells, whoever reads them. *)
LEMMA AheadIs ==
  ASSUME TypeOK, BeforeInv
  PROVE  /\ ahead \in Seq(Due)
         /\ ahead = IF phase = "done" \/ job.touch THEN <<>>
                    ELSE IF phase = "running" THEN todo ELSE Reading(Recipe)
<1>1. Reading(Recipe) \in Seq(Due)
  BY RecipeLines, ReadingType DEF TypeOK
<1>2. <<>> \in Seq(Due) /\ todo \in Seq(Due)
  BY DEF TypeOK
<1> QED BY <1>1, <1>2 DEF ahead, Recipe

Starts(end) ==
  Events(Ends)' = Append(Events(Ends), [what |-> end, command |-> Head(Owed(ahead)).command])

(* The steps of the contract, in terms of what is owed. *)
LEMMA ContractSteps ==
  /\ Owed(ahead) \in Seq(Items) /\ Events(Ends) = <<>> /\ verdict = "none" => Contract!Init
  /\ /\ verdict = "none" /\ verdict' = verdict
     /\ Owed(ahead) # <<>> /\ Owed(ahead)' = Tail(Owed(ahead))
     /\ \/ Starts("ran")
        \/ Head(Owed(ahead)).ignore /\ (Starts("ignored") \/ Events(Ends)' = Events(Ends))
     => Contract!Next
  /\ /\ verdict = "none" /\ verdict' = "error"
     /\ Owed(ahead) # <<>> /\ Owed(ahead)' = <<>>
     /\ (~Head(Owed(ahead)).ignore /\ Starts("failed")) \/ Events(Ends)' = Events(Ends)
     => Contract!Next
  /\ /\ verdict = "none" /\ verdict' \in {"rebuilt", "reused"}
     /\ Owed(ahead) = <<>> /\ Owed(ahead)' = <<>> /\ Events(Ends)' = Events(Ends)
     => Contract!Next
BY DEF Contract!Init, Contract!Next, Contract!Run, Contract!Fail, Contract!NotStarted,
       Contract!PassedOver, Contract!Finish, Contract!Start, Owed, Wanted, Item, Items, Starts

Stutters == UNCHANGED <<Owed(ahead), Events(Ends), verdict>>

LEMMA AheadThen ==
  ASSUME job' = job
  PROVE  ahead' = IF phase' = "done" \/ job.touch THEN <<>>
                  ELSE IF phase' = "running" THEN todo' ELSE Reading(Recipe)
<1>1. Reading(Recipe)' = Reading(Recipe)
  BY DEF Reading, Recipe, Rejoined, WholeScript, InScript, SubLines, Flagged
<1> QED BY <1>1 DEF ahead, Recipe

(* While the loop runs, the next of the contract is the command in hand if *)
(* it is to be started.                                                    *)
LEMMA OwedInHand ==
  ASSUME TypeOK, BeforeInv, Running
  PROVE  /\ ahead = todo /\ verdict = "none"
         /\ next.command # Nothing /\ next.run
              => /\ Owed(ahead) # <<>> /\ Tail(Owed(ahead)) = Owed(Tail(todo))
                 /\ Head(Owed(ahead)) = Item(next)
         /\ next.command = Nothing \/ ~next.run => Owed(ahead) = Owed(Tail(todo))
<1>1. ahead = todo /\ todo \in Seq(Due) /\ todo # <<>> /\ Tail(todo) \in Seq(Due) /\ next \in Due
      /\ verdict = "none"
  BY AheadIs, InHand DEF Running, BeforeInv, TypeOK
<1>2. Owed(Tail(todo)) \in Seq(Items)
  BY <1>1, OwedOf
<1>3. Owed(todo) = IF next \in Wanted THEN <<Item(next)>> \o Owed(Tail(todo)) ELSE Owed(Tail(todo))
  BY <1>1, OwedOf DEF next
<1>4. next \in Wanted <=> next.command # Nothing /\ next.run
  BY <1>1 DEF Wanted
<1>5. next \in Wanted => Item(next) \in Items
  BY DEF Wanted, Due, Item, Items
<1>6. ASSUME NEW i \in Items, NEW rest \in Seq(Items), NEW list, list = <<i>> \o rest
      PROVE  list # <<>> /\ Head(list) = i /\ Tail(list) = rest
  BY <1>6
<1> QED BY <1>1, <1>2, <1>3, <1>4, <1>5, <1>6

LEMMA StepRefines ==
  ASSUME IInv, Next PROVE Contract!Next \/ Stutters
<1>1. TypeOK /\ BeforeInv /\ job' = job
  BY JobStays DEF IInv
<1>2. ahead = IF phase = "done" \/ job.touch THEN <<>>
              ELSE IF phase = "running" THEN todo ELSE Reading(Recipe)
  BY <1>1, AheadIs
<1>3. ahead' = IF phase' = "done" \/ job.touch THEN <<>>
               ELSE IF phase' = "running" THEN todo' ELSE Reading(Recipe)
  BY <1>1, AheadThen
<1>4. output' = output => Events(Ends)' = Events(Ends)
  BY DEF Events, Event, Ends
<1>5. ahead' = ahead => Owed(ahead)' = Owed(ahead)
  BY DEF Owed, Wanted, Due, Item
<1>6. Owed(<<>>) = <<>>
  BY SelectEmpty DEF Owed
<1>7. ahead' = Tail(todo) => Owed(ahead)' = Owed(Tail(todo))
  BY DEF Owed, Wanted, Due, Item
<1>8. ahead' = <<>> => Owed(ahead)' = <<>>
  BY <1>6 DEF Owed, Wanted, Due, Item
<1>9. CASE CollectPlan
  BY <1>1, <1>2, <1>3, <1>4, <1>5, <1>9 DEF CollectPlan, Stutters
<1>10. CASE Dispatch
  <2>1. CASE lines # <<>>
    BY <1>1, <1>2, <1>3, <1>4, <1>5, <1>10, <2>1 DEF Dispatch, Stutters
  <2>2. CASE lines = <<>>
    <3>1. /\ verdict = "none" /\ verdict' = "reused" /\ output' = output /\ phase' = "done"
          /\ phase = "planned" /\ job.parallel /\ Recipe = <<>>
      BY <1>1, <1>10, <2>2 DEF Dispatch, Return, TypeOK, BeforeInv, Recipe
    <3>2. ahead = <<>> /\ ahead' = <<>>
      BY <1>2, <1>3, <3>1 DEF Reading
    <3> QED BY <1>4, <1>6, <1>8, <3>1, <3>2, ContractSteps
  <2> QED BY <2>1, <2>2
<1>11. CASE Touch
  <2>1. /\ verdict = "none" /\ verdict' = "rebuilt" /\ output' = output
        /\ ahead = <<>> /\ ahead' = <<>>
    BY <1>1, <1>2, <1>3, <1>11, Begins DEF Touch, Return
  <2> QED BY <1>4, <1>6, <1>8, <2>1, ContractSteps
<1>12. CASE Expand
  <2>1. todo' = Reading(Recipe) /\ phase' = "running" /\ output' = output /\ verdict' = verdict
        /\ phase \in {"start", "queued"} /\ ~job.touch
    BY <1>1, <1>12, Begins DEF Expand, Begun
  <2>2. ahead' = ahead
    BY <1>2, <1>3, <2>1
  <2> QED BY <1>4, <1>5, <2>1, <2>2 DEF Stutters
<1>13. Running /\ todo' = Tail(todo) /\ phase' = phase => ahead' = Tail(todo)
  BY <1>1, <1>3 DEF Running, BeforeInv
<1>14. CASE SkipEmpty
  BY <1>1, <1>4, <1>7, <1>13, <1>14, OwedInHand DEF SkipEmpty, Stutters
<1>15. CASE Preview
  <2>1. Events(Ends)' = Events(Ends)
    BY <1>1, <1>15, ShowOnly DEF Preview
  <2> QED BY <1>1, <1>7, <1>13, <1>15, <2>1, OwedInHand DEF Preview, Stutters
<1>16. CASE Run
  <2>1. /\ Running /\ next.command # Nothing /\ next.run /\ verdict' = verdict
        /\ ahead' = Tail(todo)
    BY <1>13, <1>16 DEF Run, Starting
  <2>2. PICK end \in {"ran", "ignored"} : Showing(<<end>>) /\ (end = "ignored" => next.ignore)
    BY <1>16 DEF Run
  <2>3. Events(Ends)' = Append(Events(Ends), Result(end))
    BY <1>1, <2>1, <2>2, ShowResult DEF Ends
  <2>4. /\ Owed(ahead) # <<>> /\ Tail(Owed(ahead)) = Owed(Tail(todo))
        /\ Head(Owed(ahead)) = Item(next) /\ verdict = "none"
    BY <1>1, <2>1, OwedInHand
  <2>5. Starts(end) /\ (end = "ignored" => Head(Owed(ahead)).ignore)
    BY <2>2, <2>3, <2>4 DEF Starts, Result, Item
  <2> QED BY <1>7, <2>1, <2>2, <2>4, <2>5, ContractSteps
<1>17. CASE Fail
  <2>1. /\ Running /\ next.command # Nothing /\ next.run /\ verdict' = "error" /\ ~next.ignore
        /\ ahead' = <<>> /\ Showing(<<"failed">>)
    BY <1>3, <1>17 DEF Fail, Starting, Return
  <2>2. Events(Ends)' = Append(Events(Ends), Result("failed"))
    BY <1>1, <2>1, ShowResult DEF Ends
  <2>3. Owed(ahead) # <<>> /\ Head(Owed(ahead)) = Item(next) /\ verdict = "none"
    BY <1>1, <2>1, OwedInHand
  <2>4. Starts("failed") /\ ~Head(Owed(ahead)).ignore
    BY <2>1, <2>2, <2>3 DEF Starts, Result, Item
  <2> QED BY <1>8, <2>1, <2>3, <2>4, ContractSteps
<1>18. CASE CannotSpawn
  <2>1. /\ Running /\ next.command # Nothing /\ next.run /\ Showing(<<>>)
        /\ \/ verdict' = "error" /\ ahead' = <<>>
           \/ verdict' = verdict /\ ahead' = Tail(todo) /\ next.ignore
    BY <1>3, <1>13, <1>18 DEF CannotSpawn, Starting, Return
  <2>2. Events(Ends)' = Events(Ends)
    BY <1>1, <2>1, ShowOnly
  <2>3. /\ Owed(ahead) # <<>> /\ Tail(Owed(ahead)) = Owed(Tail(todo))
        /\ Head(Owed(ahead)) = Item(next) /\ verdict = "none"
    BY <1>1, <2>1, OwedInHand
  <2>4. Head(Owed(ahead)).ignore = next.ignore
    BY <2>3 DEF Item
  <2> QED BY <1>7, <1>8, <2>1, <2>2, <2>3, <2>4, ContractSteps
<1>19. CASE Finish
  <2>1. /\ verdict = "none" /\ verdict' \in {"rebuilt", "reused"} /\ output' = output
        /\ ahead = <<>> /\ ahead' = <<>>
    BY <1>1, <1>2, <1>3, <1>19 DEF Finish, Return, TypeOK, BeforeInv
  <2> QED BY <1>4, <1>6, <1>8, <2>1, ContractSteps
<1> QED BY <1>9, <1>10, <1>11, <1>12, <1>14, <1>15, <1>16, <1>17, <1>18, <1>19 DEF Next

(* Whoever executes a recipe, its commands are started one by one, in the  *)
(* order written, and nothing after a failure that is not to be ignored:   *)
(* both loops over the lines, with everything an option or a prefix does   *)
(* to them, are RecipeContract.                                            *)
THEOREM Refinement == Spec => ImplementsContract
<1>1. Init => Contract!Init
  <2> SUFFICES ASSUME Init PROVE Contract!Init
    OBVIOUS
  <2>1. IInv
    BY InitInv
  <2>2. Owed(ahead) \in Seq(Items)
    BY <2>1, AheadIs, OwedOf DEF IInv
  <2>3. Events(Ends) = <<>> /\ verdict = "none"
    BY NothingAdded DEF Init
  <2> QED BY <2>2, <2>3, ContractSteps
<1>2. IInv /\ [Next]_vars => Contract!Next \/ Stutters
  <2>1. ASSUME UNCHANGED vars PROVE Stutters
    <3>1. ahead' = ahead
      BY <2>1 DEF vars, ahead, Reading, Rejoined, WholeScript, InScript, SubLines, Flagged
    <3> QED BY <2>1, <3>1 DEF vars, Stutters, Owed, Wanted, Due, Item, Events, Event, Ends
  <2> QED BY <2>1, StepRefines
<1>3. Stutters => UNCHANGED Contract!vars
  BY DEF Stutters, Contract!vars, Owed, Wanted, Item
<1> QED BY <1>1, <1>2, <1>3, Invariance, PTL DEF Spec, ImplementsContract, Contract!Spec
=============================================================================
