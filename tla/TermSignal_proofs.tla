------------------------- MODULE TermSignal_proofs -------------------------
(***************************************************************************)
(* Theorems about SIGTERM, for every number of included files, every       *)
(* recipe and every number of restarts.                                    *)
(***************************************************************************)
EXTENDS TermSignal, SequenceTheorems, TLAPS

Word == STRING \cup {"0"}

Maker == [todo : Seq(Message), copied : Nat, running : BOOLEAN]

Types ==
  /\ given \in [stdin : BOOLEAN, threads : BOOLEAN, lines : [Makers -> Seq(Message)]]
  /\ image \in Nat
  /\ installed \in BOOLEAN /\ temp \in BOOLEAN /\ stdin_temp_path \in BOOLEAN
  /\ TEMP_FILE_BUF \in BOOLEAN /\ TEMP_FILE_LEN \in {0, 1}
  /\ TERM_MSG_BUF \in [1 .. Longest -> Word] /\ TERM_MSG_LEN \in Nat
  /\ makers \in [Makers -> Maker]
  /\ handler \in [on : SUBSET (Makers \cup {Main}), at : {"load", "write", "unlink", "raise"},
                  len : Nat]

(* The handler waits for a signal on no thread, and a thread it stops has  *)
(* a recipe to make, so that the main thread waits for it.                 *)
HandlerInv ==
  /\ handler.on = {} => handler.at = "load"
  /\ handler.on # {} => installed
  /\ \A t \in handler.on \ {Main} : given.threads /\ stage = "making" /\ makers[t].todo # <<>>

(* How the path, its length and the file go together at each stage. *)
FileInv ==
  /\ temp => given.stdin
  /\ installed <=> stage # "start"
  /\ stage \in {"store", "hold"} => TEMP_FILE_BUF
  /\ stage = "hold" => TEMP_FILE_LEN = 1
  /\ stdin_temp_path =>
       /\ stage \in {"remake", "making", "building", "clean", "clear", "leave"}
       /\ TEMP_FILE_BUF
       /\ TEMP_FILE_LEN = 1 \/ ~temp
       /\ handler.at = "raise" => ~temp
  /\ stage \in {"clear", "leave"} /\ (image > 0 \/ stdin_temp_path) => ~temp
  /\ stage = "leave" \/ ended # "returned"

Idle(m) == makers[m].copied = 0 /\ ~makers[m].running

(* One file after the other: what the buffer and the length hold of the    *)
(* message of the one whose turn it is.                                    *)
MessageInv ==
  /\ \A m \in Makers : ~Idle(m) =>
       /\ makers[m].todo # <<>> /\ Turn(m)
       /\ makers[m].copied <= Len(Line(m))
       /\ \A i \in 1 .. makers[m].copied : TERM_MSG_BUF[i] = Line(m)[i]
       /\ makers[m].running =>
            makers[m].copied = Len(Line(m)) /\ TERM_MSG_LEN = Len(Line(m))
  /\ (\A m \in Makers : ~makers[m].running) => TERM_MSG_LEN = 0
  /\ handler.at = "write" => handler.len = TERM_MSG_LEN

IInv == 
  /\ Types /\ HandlerInv /\ FileInv /\ TempRemoved
  /\ ~given.threads => MessageInv
  /\ MessageWhole
-----------------------------------------------------------------------------
USE DEF Main, Alive, Goes, MainAt, paths, messages

LEMMA InitInv == Init => IInv
<1> SUFFICES ASSUME Init PROVE IInv
  OBVIOUS
<1>1. Types
  <2>1. given \in [stdin : BOOLEAN, threads : BOOLEAN, lines : [Makers -> Seq(Message)]]
    BY GivenAssumption DEF Init
  <2>2. \A m \in Makers : given.lines[m] \in Seq(Message)
    BY <2>1
  <2>3. makers \in [Makers -> Maker]
    BY <2>2 DEF Init, Recipes, Maker
  <2>4. "0" \in Word
    BY DEF Word
  <2>5. [i \in 1 .. Longest |-> "0"] \in [1 .. Longest -> Word]
    BY <2>4, Zenon
  <2> QED BY <2>1, <2>3, <2>5 DEF Init, Types
<1> QED BY <1>1 DEF IInv, Init, Recipes, HandlerInv, FileInv, TempRemoved, MessageInv, Idle,
                     MessageWhole

(* A line of a recipe. *)
LEMMA LineType ==
  ASSUME Types, NEW m \in Makers, makers[m].todo # <<>>
  PROVE  Line(m) \in Seq(Word) /\ Len(Line(m)) \in Nat /\ Len(Line(m)) <= Longest
<1>1. makers[m].todo \in Seq(Message)
  BY DEF Types, Maker
<1>2. Line(m) \in Message
  BY <1>1 DEF Line
<1>3. Line(m) \in Seq(STRING) /\ Len(Line(m)) <= Longest
  BY <1>2 DEF Message
<1> DEFINE line == Line(m)
<1> HIDE DEF line
<1>4. line \in Seq(Word)
  <2>1. line \in [1 .. Len(line) -> STRING] /\ Len(line) \in Nat
    BY <1>3 DEF line
  <2>2. line \in [1 .. Len(line) -> Word]
    BY <2>1 DEF Word
  <2> QED BY <2>1, <2>2, IsASeq
<1> QED BY <1>3, <1>4 DEF line

(* The steps of the main thread before and after the recipes. *)
Outside ==
  \/ install_sigterm_handler \/ ReadMakefile \/ CopyPath \/ StorePath \/ HoldPath
  \/ BeginRecipes \/ FatalExit \/ ReinvokeFails \/ Build \/ Return \/ RemoveFile
  \/ clear_temp_stdin_path \/ Leave

Handling == Sigterm \/ LoadMessageLength \/ WriteMessage \/ Unlink \/ Raise

LEMMA OutsideTypes ==
  ASSUME IInv, Outside PROVE Types'
BY DEF IInv, Types, Outside, install_sigterm_handler, ReadMakefile, CopyPath, StorePath,
       HoldPath, BeginRecipes, FatalExit, ReinvokeFails, Build, Return, RemoveFile,
       clear_temp_stdin_path, Leave

LEMMA OutsideHandler ==
  ASSUME IInv, Outside PROVE HandlerInv'
BY DEF IInv, HandlerInv, Outside, install_sigterm_handler, ReadMakefile, CopyPath, StorePath,
       HoldPath, BeginRecipes, FatalExit, ReinvokeFails, Build, Return, RemoveFile,
       clear_temp_stdin_path, Leave, Made, Types

LEMMA OutsideFile ==
  ASSUME IInv, Outside PROVE FileInv' /\ TempRemoved'
<1> USE DEF IInv, FileInv, TempRemoved
<1>0. /\ temp \in BOOLEAN /\ image \in Nat /\ handler.on = {} => handler.at = "load"
      /\ stage # "making" /\ Main \notin handler.on => handler.at = "load"
      /\ Made => handler.at = "load"
  BY DEF Types, HandlerInv, Made
<1>1. CASE install_sigterm_handler
  BY <1>0, <1>1 DEF install_sigterm_handler
<1>2. CASE ReadMakefile
  BY <1>0, <1>2 DEF ReadMakefile
<1>3. CASE CopyPath
  BY <1>0, <1>3 DEF CopyPath
<1>4. CASE StorePath
  BY <1>0, <1>4 DEF StorePath
<1>5. CASE HoldPath
  BY <1>0, <1>5 DEF HoldPath
<1>6. CASE BeginRecipes
  BY <1>0, <1>6 DEF BeginRecipes
<1>7. CASE FatalExit
  BY <1>0, <1>7 DEF FatalExit
<1>8. CASE ReinvokeFails
  BY <1>0, <1>8 DEF ReinvokeFails, temp_file, Made
<1>9. CASE Build
  BY <1>0, <1>9 DEF Build, Made
<1>10. CASE Return
  BY <1>0, <1>10 DEF Return
<1>11. CASE RemoveFile
  BY <1>0, <1>11 DEF RemoveFile, temp_file
<1>12. CASE clear_temp_stdin_path
  BY <1>0, <1>12 DEF clear_temp_stdin_path, temp_file
<1>13. CASE Leave
  BY <1>0, <1>13 DEF Leave
<1> QED BY <1>1, <1>2, <1>3, <1>4, <1>5, <1>6, <1>7, <1>8, <1>9, <1>10, <1>11, <1>12, <1>13
    DEF Outside

LEMMA OutsideMessage ==
  ASSUME IInv, Outside PROVE (~given.threads => MessageInv)' /\ MessageWhole'
BY DEF IInv, MessageInv, MessageWhole, Idle, Line, Turn, Outside, install_sigterm_handler,
       ReadMakefile, CopyPath, StorePath, HoldPath, BeginRecipes, FatalExit, ReinvokeFails,
       Build, Return, RemoveFile, clear_temp_stdin_path, Leave

(* A word of a message is copied. *)
LEMMA CopyTypes ==
  ASSUME Types, NEW m \in Makers, CopyWord(m)
  PROVE  Types'
<1> DEFINE next == makers[m].copied + 1
<1>1. makers[m] \in Maker /\ makers[m].todo # <<>>
  BY DEF Types, CopyWord, At
<1>2. next \in 1 .. Len(Line(m)) /\ Len(Line(m)) \in Nat /\ Line(m)[next] \in Word
  <2>1. Line(m) \in Seq(Word) /\ makers[m].copied \in Nat /\ next <= Len(Line(m))
    BY <1>1, LineType DEF CopyWord, Maker
  <2> QED BY <2>1
<1>3. [makers[m] EXCEPT !.copied = next] \in Maker
  BY <1>1, <1>2 DEF Maker
<1>4. makers' \in [Makers -> Maker]
  BY <1>3 DEF Types, CopyWord
<1>5. TERM_MSG_BUF' \in [1 .. Longest -> Word]
  BY <1>2 DEF Types, CopyWord
<1> QED BY <1>4, <1>5 DEF Types, CopyWord

LEMMA LengthTypes ==
  ASSUME Types, NEW m \in Makers, StoreLength(m)
  PROVE  Types'
<1>1. makers[m] \in Maker /\ makers[m].todo # <<>>
  BY DEF Types, StoreLength, At
<1>2. [makers[m] EXCEPT !.running = TRUE] \in Maker
  BY <1>1 DEF Maker
<1>3. Len(Line(m)) \in Nat
  BY <1>1, LineType
<1> QED BY <1>2, <1>3 DEF Types, StoreLength

LEMMA EndTypes ==
  ASSUME Types, NEW m \in Makers, EndCommand(m)
  PROVE  Types'
<1>1. makers[m].todo \in Seq(Message) /\ makers[m].todo # <<>>
  BY DEF Types, Maker, EndCommand, At
<1>2. PICK left \in {Tail(makers[m].todo), <<>>} :
        makers' = [makers EXCEPT ![m] = [todo |-> left, copied |-> 0, running |-> FALSE]]
  BY DEF EndCommand
<1> DEFINE todo == makers[m].todo
<1> HIDE DEF todo
<1>3. left \in Seq(Message)
  <2>1. todo \in Seq(Message) /\ todo # <<>>
    BY <1>1 DEF todo
  <2>2. Tail(todo) \in Seq(Message) /\ <<>> \in Seq(Message)
    BY <2>1
  <2> QED BY <1>2, <2>2 DEF todo
<1>4. makers' \in [Makers -> Maker]
  BY <1>2, <1>3 DEF Types, Maker
<1> QED BY <1>4 DEF Types, EndCommand, clear_term_message

(* What making a file does not disturb. *)
LEMMA MakingKeeps ==
  ASSUME IInv, NEW m \in Makers, CopyWord(m) \/ StoreLength(m) \/ EndCommand(m), Types'
  PROVE  HandlerInv' /\ FileInv' /\ TempRemoved'
<1>1. /\ Goes(Thread(m))
      /\ UNCHANGED <<given, image, stage, installed, temp, paths, handler, shown, ended>>
      /\ \A k \in Makers \ {m} : makers'[k] = makers[k]
  BY DEF CopyWord, StoreLength, EndCommand, At, IInv, Types
<1>2. \A t \in handler.on \ {Main} : t # m /\ t \in Makers
  BY <1>1 DEF IInv, HandlerInv, Types, Thread
<1>3. HandlerInv'
  BY <1>1, <1>2 DEF IInv, HandlerInv
<1>4. FileInv' /\ TempRemoved'
  BY <1>1 DEF IInv, FileInv, TempRemoved
<1> QED BY <1>3, <1>4

(* With one file after the other the handler is not running then, and no   *)
(* other file is being made. *)
LEMMA Alone ==
  ASSUME IInv, NEW m \in Makers, CopyWord(m) \/ StoreLength(m) \/ EndCommand(m), ~given.threads
  PROVE  /\ handler.at = "load" /\ handler.on = {}
         /\ \A k \in Makers \ {m} : Idle(k)
<1>1. Main \notin handler.on /\ Turn(m) /\ makers[m].todo # <<>>
  BY DEF CopyWord, StoreLength, EndCommand, At, Thread
<1>2. handler.on = {} /\ handler.at = "load"
  BY <1>1 DEF IInv, HandlerInv
<1>3. ASSUME NEW k \in Makers, k # m, ~Idle(k) PROVE FALSE
  <2>1. makers[k].todo # <<>> /\ Turn(k)
    BY <1>3 DEF IInv, MessageInv
  <2>2. ~(k < m) /\ ~(m < k)
    BY <1>1, <2>1 DEF Turn
  <2> QED BY <1>3, <2>2, MakersAssumption
<1> QED BY <1>2, <1>3

LEMMA CopyMessage ==
  ASSUME IInv, Types', NEW m \in Makers, CopyWord(m), ~given.threads
  PROVE  MessageInv' /\ MessageWhole'
<1> DEFINE next == makers[m].copied + 1
<1>1. /\ handler.at = "load" /\ handler.on = {} /\ handler' = handler
      /\ \A k \in Makers \ {m} : Idle(k)
  BY Alone DEF CopyWord
<1>2. /\ makers[m] \in Maker /\ makers[m].copied \in Nat /\ makers \in [Makers -> Maker]
      /\ TERM_MSG_BUF \in [1 .. Longest -> Word]
      /\ makers[m].todo # <<>> /\ Turn(m)
      /\ next <= Len(Line(m))
  BY DEF IInv, Types, Maker, CopyWord, At
<1>3. Line(m) \in Seq(Word) /\ Len(Line(m)) \in Nat /\ Len(Line(m)) <= Longest
  BY <1>2, LineType DEF IInv
<1>4. /\ \A k \in Makers \ {m} : makers'[k] = makers[k]
      /\ makers'[m].todo = makers[m].todo /\ makers'[m].copied = next
      /\ makers'[m].running = makers[m].running
      /\ TERM_MSG_BUF' = [TERM_MSG_BUF EXCEPT ![next] = Line(m)[next]]
      /\ TERM_MSG_LEN' = TERM_MSG_LEN /\ given' = given
  BY <1>2 DEF CopyWord, Maker
<1>5. ~makers[m].running
  <2>1. makers[m].running => makers[m].copied = Len(Line(m))
    BY DEF IInv, MessageInv, Idle
  <2> QED BY <1>2, <1>3, <2>1
<1>6. Line(m)' = Line(m) /\ Turn(m)'
  BY <1>2, <1>4, MakersAssumption DEF Line, Turn
<1>7. \A i \in 1 .. next : TERM_MSG_BUF'[i] = Line(m)[i]
  <2>1. \A i \in 1 .. makers[m].copied : TERM_MSG_BUF[i] = Line(m)[i]
    BY <1>2 DEF IInv, MessageInv, Idle
  <2>2. \A i \in 1 .. next : i \in 1 .. Longest /\ (i = next \/ i \in 1 .. makers[m].copied)
    BY <1>2, <1>3, LongestAssumption
  <2> QED BY <1>2, <1>4, <2>1, <2>2
<1>8. MessageInv'
  <2>1. \A k \in Makers \ {m} : Idle(k)'
    BY <1>1, <1>4 DEF Idle
  <2>2. (\A k \in Makers : ~makers'[k].running) => TERM_MSG_LEN' = 0
    BY <1>4, <1>5 DEF IInv, MessageInv
  <2> QED BY <1>1, <1>2, <1>4, <1>5, <1>6, <1>7, <2>1, <2>2 DEF MessageInv
<1> QED BY <1>1, <1>8 DEF MessageWhole

LEMMA LengthMessage ==
  ASSUME IInv, Types', NEW m \in Makers, StoreLength(m), ~given.threads
  PROVE  MessageInv' /\ MessageWhole'
<1>1. /\ handler.at = "load" /\ handler' = handler
      /\ \A k \in Makers \ {m} : Idle(k)
  BY Alone DEF StoreLength
<1>2. /\ makers[m] \in Maker /\ makers \in [Makers -> Maker]
      /\ makers[m].todo # <<>> /\ Turn(m) /\ makers[m].copied = Len(Line(m))
  BY DEF IInv, Types, StoreLength, At
<1>3. Line(m) \in Seq(Word) /\ Len(Line(m)) \in Nat
  BY <1>2, LineType DEF IInv
<1>4. /\ \A k \in Makers \ {m} : makers'[k] = makers[k]
      /\ makers'[m].todo = makers[m].todo /\ makers'[m].copied = makers[m].copied
      /\ makers'[m].running
      /\ TERM_MSG_BUF' = TERM_MSG_BUF /\ TERM_MSG_LEN' = Len(Line(m)) /\ given' = given
  BY <1>2 DEF StoreLength, Maker
<1>5. Line(m)' = Line(m) /\ Turn(m)'
  BY <1>2, <1>4, MakersAssumption DEF Line, Turn
<1>6. \A i \in 1 .. makers[m].copied : TERM_MSG_BUF[i] = Line(m)[i]
  <2>1. CASE Idle(m)
    BY <2>1, <1>2 DEF Idle, IInv, Types, Maker
  <2>2. CASE ~Idle(m)
    BY <2>2 DEF IInv, MessageInv
  <2> QED BY <2>1, <2>2
<1>7. \A k \in Makers \ {m} : Idle(k)'
  BY <1>1, <1>4 DEF Idle
<1>8. MessageInv'
  BY <1>1, <1>2, <1>3, <1>4, <1>5, <1>6, <1>7 DEF MessageInv
<1> QED BY <1>1, <1>8 DEF MessageWhole

LEMMA EndMessage ==
  ASSUME IInv, Types', NEW m \in Makers, EndCommand(m), ~given.threads
  PROVE  MessageInv' /\ MessageWhole'
<1>1. /\ handler.at = "load" /\ handler' = handler
      /\ \A k \in Makers \ {m} : Idle(k)
  BY Alone DEF EndCommand
<1>2. \A k \in Makers : Idle(k)'
  BY <1>1 DEF EndCommand, Idle, IInv, Types
<1>3. TERM_MSG_LEN' = 0
  BY DEF EndCommand, clear_term_message
<1> QED BY <1>1, <1>2, <1>3 DEF MessageInv, MessageWhole, Idle

LEMMA ReinvokeInv ==
  ASSUME IInv, do_reinvoke PROVE IInv'
<1>1. handler.on = {} /\ handler.at = "load"
  <2>1. handler.on \subseteq Makers \cup {Main}
    BY DEF IInv, Types
  <2>2. Main \notin handler.on /\ \A t \in Makers : makers[t].todo = <<>>
    BY DEF do_reinvoke, Made
  <2> QED BY <2>1, <2>2 DEF IInv, HandlerInv
<1>2. Types'
  <2>1. \A m \in Makers : given.lines[m] \in Seq(Message)
    BY DEF IInv, Types
  <2>2. Recipes \in [Makers -> Maker]
    BY <2>1 DEF Recipes, Maker
  <2>3. "0" \in Word
    BY DEF Word
  <2>4. [i \in 1 .. Longest |-> "0"] \in [1 .. Longest -> Word]
    BY <2>3, Zenon
  <2>5. makers' = Recipes /\ TERM_MSG_BUF' = [i \in 1 .. Longest |-> "0"]
    BY DEF do_reinvoke
  <2>6. image' \in Nat /\ TERM_MSG_LEN' = 0 /\ TEMP_FILE_LEN' = 0
        /\ installed' = FALSE /\ stdin_temp_path' = FALSE /\ TEMP_FILE_BUF' = FALSE
        /\ UNCHANGED <<given, temp, handler>>
    BY DEF do_reinvoke, IInv, Types
  <2> QED BY <2>2, <2>4, <2>5, <2>6 DEF IInv, Types
<1>3. HandlerInv' /\ FileInv' /\ TempRemoved'
  BY <1>1 DEF do_reinvoke, Made, IInv, HandlerInv, FileInv, TempRemoved
<1>4. MessageInv' /\ MessageWhole'
  <2>1. \A m \in Makers : Idle(m)'
    BY DEF do_reinvoke, Recipes, Idle
  <2> QED BY <1>1, <2>1 DEF do_reinvoke, MessageInv, MessageWhole, Idle
<1> QED BY <1>2, <1>3, <1>4 DEF IInv

(* The handler: it writes what it finds, and with one file after the other *)
(* nothing changes meanwhile.                                              *)
LEMMA HandlingInv ==
  ASSUME IInv, Handling PROVE IInv'
<1>0. /\ TERM_MSG_LEN \in Nat /\ temp \in BOOLEAN /\ TEMP_FILE_LEN \in {0, 1}
      /\ handler \in [on : SUBSET (Makers \cup {Main}), at : {"load", "write", "unlink", "raise"},
                      len : Nat]
      /\ Threads \subseteq Makers \cup {Main}
  BY DEF IInv, Types, Threads
<1>1. /\ handler' \in [on : SUBSET (Makers \cup {Main}), at : {"load", "write", "unlink", "raise"},
                       len : Nat]
      /\ temp' \in BOOLEAN
      /\ UNCHANGED <<given, image, stage, installed, paths, messages, makers>>
  <2>1. CASE Sigterm
    BY <1>0, <2>1 DEF Sigterm
  <2>2. CASE LoadMessageLength
    BY <1>0, <2>2 DEF LoadMessageLength
  <2>3. CASE WriteMessage
    BY <1>0, <2>3 DEF WriteMessage
  <2>4. CASE Unlink
    BY <1>0, <2>4 DEF Unlink
  <2>5. CASE Raise
    BY <1>0, <2>5 DEF Raise
  <2> QED BY <2>1, <2>2, <2>3, <2>4, <2>5 DEF Handling
<1>2. Types'
  BY <1>1 DEF IInv, Types
<1>3. HandlerInv'
  <2>1. CASE Sigterm
    BY <1>0, <2>1 DEF IInv, HandlerInv, Sigterm, HandlerAt, Threads
  <2>2. CASE LoadMessageLength
    BY <1>0, <2>2 DEF IInv, HandlerInv, LoadMessageLength, HandlerAt
  <2>3. CASE WriteMessage
    BY <1>0, <2>3 DEF IInv, HandlerInv, WriteMessage, HandlerAt
  <2>4. CASE Unlink
    BY <1>0, <2>4 DEF IInv, HandlerInv, Unlink, HandlerAt
  <2>5. CASE Raise
    BY <1>0, <2>5 DEF IInv, HandlerInv, Raise, HandlerAt
  <2> QED BY <2>1, <2>2, <2>3, <2>4, <2>5 DEF Handling
<1>4. FileInv' /\ TempRemoved'
  <2>1. CASE Sigterm
    BY <1>0, <2>1 DEF IInv, HandlerInv, FileInv, TempRemoved, Sigterm, HandlerAt
  <2>2. CASE LoadMessageLength
    BY <1>0, <2>2 DEF IInv, HandlerInv, FileInv, TempRemoved, LoadMessageLength, HandlerAt
  <2>3. CASE WriteMessage
    BY <1>0, <2>3 DEF IInv, HandlerInv, FileInv, TempRemoved, WriteMessage, HandlerAt
  <2>4. CASE Unlink
    <3>1. temp' => temp /\ ~(TEMP_FILE_LEN = 1 /\ TEMP_FILE_BUF)
      <4>1. temp' = (temp /\ ~(TEMP_FILE_LEN > 0 /\ TEMP_FILE_BUF))
        BY <2>4 DEF Unlink
      <4>2. TEMP_FILE_LEN = 1 => TEMP_FILE_LEN > 0
        OBVIOUS
      <4> QED BY <4>1, <4>2, Zenon
    <3> QED BY <3>1, <2>4 DEF IInv, HandlerInv, FileInv, TempRemoved, Unlink, HandlerAt
  <2>5. CASE Raise
    BY <1>0, <2>5 DEF IInv, HandlerInv, FileInv, TempRemoved, Raise, HandlerAt
  <2> QED BY <2>1, <2>2, <2>3, <2>4, <2>5 DEF Handling
<1>5. (~given.threads => MessageInv)'
  <2>1. \/ given.threads
        \/ /\ UNCHANGED <<given, makers, messages>>
           /\ handler'.at = "write" => handler'.len = TERM_MSG_LEN
    BY <1>0, <1>1 DEF IInv, HandlerInv, MessageInv, Handling, Sigterm, LoadMessageLength,
                      WriteMessage, Unlink, Raise, HandlerAt
  <2> QED BY <1>1, <2>1 DEF IInv, MessageInv, Idle, Line, Turn
<1>6. MessageWhole'
  <2>1. CASE WriteMessage
    <3> SUFFICES ASSUME ~given.threads
                 PROVE  LET running == {m \in Makers : makers[m].running}
                        IN  IF running = {} THEN shown' = <<>>
                            ELSE \A m \in running : shown' = Line(m)
      BY <2>1 DEF WriteMessage, MessageWhole, Line
    <3>1. handler.len = TERM_MSG_LEN /\ shown' = SubSeq(TERM_MSG_BUF, 1, TERM_MSG_LEN)
      BY <2>1 DEF WriteMessage, HandlerAt, IInv, MessageInv
    <3>2. ASSUME \A m \in Makers : ~makers[m].running
          PROVE  shown' = <<>>
      <4>1. TERM_MSG_LEN = 0
        BY <3>2 DEF IInv, MessageInv
      <4> QED BY <3>1, <4>1
    <3>3. ASSUME NEW m \in Makers, makers[m].running
          PROVE  shown' = Line(m)
      <4>1. /\ makers[m].todo # <<>> /\ TERM_MSG_LEN = Len(Line(m))
            /\ \A i \in 1 .. Len(Line(m)) : TERM_MSG_BUF[i] = Line(m)[i]
        BY <3>3 DEF IInv, MessageInv, Idle
      <4>2. Line(m) \in Seq(Word) /\ Len(Line(m)) \in Nat /\ Len(Line(m)) <= Longest
        BY <4>1, LineType DEF IInv
      <4> DEFINE line == Line(m)
                 n == Len(line)
                 buffer == TERM_MSG_BUF
                 part == SubSeq(buffer, 1, n)
      <4>3. part = [i \in 1 .. n |-> buffer[i]]
        <5>1. buffer \in Seq(Word) /\ Len(buffer) = Longest
          BY LongestAssumption DEF IInv, Types
        <5> HIDE DEF buffer, n
        <5>2. n \in 0 .. Len(buffer) /\ 1 \in 1 .. Len(buffer) + 1
          BY <4>2, <5>1, LongestAssumption DEF n
        <5>3. part \in Seq(Word) /\ Len(part) = n /\ \A i \in 1 .. n : part[i] = buffer[i]
          BY <5>1, <5>2, SubSeqProperties
        <5> QED BY <5>2, <5>3
      <4>4. line = [i \in 1 .. n |-> line[i]]
        BY <4>2
      <4> QED BY <3>1, <4>1, <4>3, <4>4
    <3> QED BY <3>2, <3>3
  <2>2. CASE Sigterm
    BY <1>0, <1>1, <2>2 DEF Sigterm, HandlerInv, IInv, MessageWhole
  <2>3. CASE LoadMessageLength
    BY <1>0, <2>3 DEF LoadMessageLength, MessageWhole
  <2>4. CASE Unlink \/ Raise
    BY <1>0, <2>4 DEF IInv, MessageWhole, Line, Unlink, Raise, HandlerAt
  <2> QED BY <2>1, <2>2, <2>3, <2>4 DEF Handling
<1> QED BY <1>2, <1>3, <1>4, <1>5, <1>6 DEF IInv

LEMMA NextInv == IInv /\ [Next]_vars => IInv'
<1> SUFFICES ASSUME IInv, [Next]_vars PROVE IInv'
  OBVIOUS
<1>1. CASE Outside
  BY <1>1, OutsideTypes, OutsideHandler, OutsideFile, OutsideMessage DEF IInv
<1>2. ASSUME NEW m \in Makers, CopyWord(m) \/ StoreLength(m) \/ EndCommand(m)
      PROVE  IInv'
  <2>1. Types'
    BY <1>2, CopyTypes, LengthTypes, EndTypes DEF IInv
  <2>2. HandlerInv' /\ FileInv' /\ TempRemoved'
    BY <1>2, <2>1, MakingKeeps
  <2>3. given' = given
    BY <1>2 DEF CopyWord, StoreLength, EndCommand
  <2>4. ASSUME ~given.threads PROVE MessageInv' /\ MessageWhole'
    BY <1>2, <2>1, <2>4, CopyMessage, LengthMessage, EndMessage
  <2>5. given.threads => MessageWhole'
    BY <2>3 DEF MessageWhole
  <2> QED BY <2>1, <2>2, <2>3, <2>4, <2>5 DEF IInv
<1>3. CASE do_reinvoke
  BY <1>3, ReinvokeInv
<1>4. CASE Handling
  BY <1>4, HandlingInv
<1>5. CASE UNCHANGED vars
  <2>1. Types' /\ HandlerInv'
    BY <1>5 DEF vars, IInv, Types, HandlerInv
  <2>2. FileInv' /\ TempRemoved'
    BY <1>5 DEF vars, IInv, FileInv, TempRemoved
  <2>3. (~given.threads => MessageInv)'
    BY <1>5 DEF vars, IInv, MessageInv, Idle, Line, Turn
  <2>4. MessageWhole'
    BY <1>5 DEF vars, IInv, MessageWhole, Line
  <2> QED BY <2>1, <2>2, <2>3, <2>4 DEF IInv
<1> QED BY <1>1, <1>2, <1>3, <1>4, <1>5 DEF Next, Outside, Handling

LEMMA Invariance == Spec => []IInv
BY InitInv, NextInv, PTL DEF Spec

(* While recipes are run one after the other, what SIGTERM writes is the   *)
(* whole message of the command that is being run.                         *)
THEOREM HandlerWritesWholeMessage == Spec => []MessageWhole
<1>1. IInv => MessageWhole
  BY DEF IInv
<1> QED BY <1>1, Invariance, PTL

(* The temporary file of a makefile read from stdin does not outlive the   *)
(* process, wherever SIGTERM finds it once the path is kept.               *)
THEOREM TemporaryFileRemoved == Spec => []TempRemoved
<1>1. IInv => TempRemoved
  BY DEF IInv
<1> QED BY <1>1, Invariance, PTL
=============================================================================
