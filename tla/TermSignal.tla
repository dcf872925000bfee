----------------------------- MODULE TermSignal -----------------------------
(***************************************************************************)
(* SIGTERM and the temporary file that keeps a makefile read from stdin:   *)
(* signal_handler.rs, the end of main, and the code that writes the two    *)
(* buffers the handler reads.                                              *)
(*                                                                         *)
(* A message is a sequence of words, copied one at a time, and the buffer  *)
(* keeps what is not overwritten.  Messages are set for the recipes that   *)
(* make included files only: one file after the other on the main thread,  *)
(* or with -j all at once, each on a thread of its own.  The handler may   *)
(* run on any thread, between any two steps of it, and the other threads   *)
(* go on meanwhile.                                                        *)
(***************************************************************************)
EXTENDS Naturals, SequencesExt

CONSTANTS Makers,       \* numbers of the included files whose recipes are run
          Longest,      \* no message has more words; 2047 bytes in the code
          MaxRestarts,  \* images after the first
          Given         \* where the makefile comes from, and the recipes

Message == {words \in Seq(STRING) : Len(words) <= Longest}

ASSUME MakersAssumption == Makers \subseteq Nat \ {0}
ASSUME LongestAssumption == Longest \in Nat
ASSUME GivenAssumption ==
  Given \subseteq [stdin : BOOLEAN, threads : BOOLEAN, lines : [Makers -> Seq(Message)]]

VARIABLES
  given,              \* [stdin, threads : BOOLEAN, lines : [Makers -> messages]]
  image, stage,       \* how often the process has executed itself; its main thread
  installed,          \* the handler is
  temp,               \* the temporary file is there
  stdin_temp_path,    \* state.stdin_temp_path is set
  TEMP_FILE_BUF, TEMP_FILE_LEN,  \* whether the path is there; 1 for its length
  TERM_MSG_BUF, TERM_MSG_LEN,
  makers,             \* [todo, copied, running]: the lines left, the words of the
                      \* first one's message in the buffer, whether it is being run
  handler,            \* [on, at, len]: its thread, what comes next, the length it has loaded
  shown,              \* what it has written
  ended               \* how the process ended

paths == <<stdin_temp_path, TEMP_FILE_BUF, TEMP_FILE_LEN>>
messages == <<TERM_MSG_BUF, TERM_MSG_LEN>>
vars == <<given, image, stage, installed, temp, paths, messages, makers, handler, shown, ended>>

Main == 0
Alive == ended = "no"

(* Only the thread the handler runs on is stopped by it. *)
Goes(thread) == Alive /\ thread \notin handler.on
MainAt(stages) == Goes(Main) /\ stage \in stages
-----------------------------------------------------------------------------
(* The main thread, up to the recipes.                                     *)

Recipes == [m \in Makers |-> [todo |-> given.lines[m], copied |-> 0, running |-> FALSE]]

install_sigterm_handler ==
  /\ MainAt({"start"})
  /\ installed' = TRUE /\ stage' = "read"
  /\ UNCHANGED <<given, image, temp, paths, messages, makers, handler, shown, ended>>

(* The temporary file is written if the makefile comes from stdin, and     *)
(* given on to the next image.  A file that cannot be written may be there *)
(* all the same.                                                           *)
ReadMakefile ==
  /\ MainAt({"read"})
  /\ IF image > 0 \/ ~given.stdin THEN stage' = "remake" /\ UNCHANGED temp
     ELSE \/ stage' = "copy" /\ temp' = TRUE
          \/ stage' = "clean" /\ temp' \in BOOLEAN
  /\ UNCHANGED <<given, image, installed, paths, messages, makers, handler, shown, ended>>

(* set_temp_stdin_path: the path, then its length. *)
CopyPath ==
  /\ MainAt({"copy"})
  /\ TEMP_FILE_BUF' = TRUE /\ stage' = "store"
  /\ UNCHANGED <<given, image, installed, temp, stdin_temp_path, TEMP_FILE_LEN, messages, makers,
                 handler, shown, ended>>

StorePath ==
  /\ MainAt({"store"})
  /\ TEMP_FILE_LEN' = 1 /\ stage' = "hold"
  /\ UNCHANGED <<given, image, installed, temp, stdin_temp_path, TEMP_FILE_BUF, messages, makers,
                 handler, shown, ended>>

HoldPath ==
  /\ MainAt({"hold"})
  /\ stdin_temp_path' = TRUE /\ stage' = "remake"
  /\ UNCHANGED <<given, image, installed, temp, TEMP_FILE_BUF, TEMP_FILE_LEN, messages, makers,
                 handler, shown, ended>>

BeginRecipes ==
  /\ MainAt({"remake"})
  /\ stage' = "making"
  /\ UNCHANGED <<given, image, installed, temp, paths, messages, makers, handler, shown, ended>>

(* process::exit, which $(error), an unterminated reference and -q do. *)
FatalExit ==
  /\ MainAt({"read", "remake", "building"})
  /\ ended' = "exit"
  /\ UNCHANGED <<given, image, stage, installed, temp, paths, messages, makers, handler, shown>>
-----------------------------------------------------------------------------
(* execute_include_recipe_expanded and set_term_message.                   *)

Thread(m) == IF given.threads THEN m ELSE Main

(* One file after the other, unless each has a thread. *)
Turn(m) == given.threads \/ \A k \in Makers : k < m => makers[k].todo = <<>>

Line(m) == Head(makers[m].todo)
At(m) == stage = "making" /\ Goes(Thread(m)) /\ makers[m].todo # <<>> /\ Turn(m)

CopyWord(m) ==
  LET next == makers[m].copied + 1
  IN  /\ At(m) /\ next <= Len(Line(m))
      /\ TERM_MSG_BUF' = [TERM_MSG_BUF EXCEPT ![next] = Line(m)[next]]
      /\ makers' = [makers EXCEPT ![m].copied = next]
      /\ UNCHANGED <<given, image, stage, installed, temp, paths, TERM_MSG_LEN, handler, shown, ended>>

(* The length is stored and the command is run. *)
StoreLength(m) ==
  /\ At(m) /\ makers[m].copied = Len(Line(m)) /\ ~makers[m].running
  /\ TERM_MSG_LEN' = Len(Line(m))
  /\ makers' = [makers EXCEPT ![m].running = TRUE]
  /\ UNCHANGED <<given, image, stage, installed, temp, paths, TERM_MSG_BUF, handler, shown, ended>>

(* A fault: the message stays. *)
clear_no_message == UNCHANGED TERM_MSG_LEN

clear_term_message == TERM_MSG_LEN' = 0

(* A line that fails is the last one. *)
EndCommand(m) ==
  /\ At(m) /\ makers[m].running
  /\ clear_term_message
  /\ \E left \in {Tail(makers[m].todo), <<>>} :
       makers' = [makers EXCEPT ![m] = [todo |-> left, copied |-> 0, running |-> FALSE]]
  /\ UNCHANGED <<given, image, stage, installed, temp, paths, TERM_MSG_BUF, handler, shown, ended>>
-----------------------------------------------------------------------------
(* The main thread, after the recipes.                                     *)

Made == MainAt({"making"}) /\ \A m \in Makers : makers[m].todo = <<>>

(* Statics and handlers do not outlive exec. *)
do_reinvoke ==
  /\ Made /\ image < MaxRestarts
  /\ image' = image + 1 /\ stage' = "start" /\ installed' = FALSE
  /\ stdin_temp_path' = FALSE /\ TEMP_FILE_BUF' = FALSE /\ TEMP_FILE_LEN' = 0
  /\ TERM_MSG_BUF' = [i \in 1..Longest |-> "0"] /\ TERM_MSG_LEN' = 0
  /\ makers' = Recipes
  /\ UNCHANGED <<given, temp, handler, shown, ended>>

(* A fault: only the image that wrote the file knows of it. *)
OwnFile == stdin_temp_path

(* The path that was given on, or else the own. *)
temp_file == (given.stdin /\ image > 0) \/ stdin_temp_path

ReinvokeFails ==
  /\ Made
  /\ temp' = (temp /\ ~temp_file)
  /\ ended' = "exec failed"
  /\ UNCHANGED <<given, image, stage, installed, paths, messages, makers, handler, shown>>

Build ==
  /\ Made /\ stage' = "building"
  /\ UNCHANGED <<given, image, installed, temp, paths, messages, makers, handler, shown, ended>>

(* run returns, to main: the file is removed, then forgotten. *)
Return ==
  /\ MainAt({"building"}) /\ stage' = "clean"
  /\ UNCHANGED <<given, image, installed, temp, paths, messages, makers, handler, shown, ended>>

RemoveFile ==
  /\ MainAt({"clean"}) /\ stage' = "clear"
  /\ temp' = (temp /\ ~temp_file)
  /\ UNCHANGED <<given, image, installed, paths, messages, makers, handler, shown, ended>>

clear_temp_stdin_path ==
  /\ MainAt({"clear"}) /\ stage' = "leave"
  /\ TEMP_FILE_LEN' = IF temp_file THEN 0 ELSE TEMP_FILE_LEN
  /\ UNCHANGED <<given, image, installed, temp, stdin_temp_path, TEMP_FILE_BUF, messages, makers,
                 handler, shown, ended>>

Leave ==
  /\ MainAt({"leave"}) /\ ended' = "returned"
  /\ UNCHANGED <<given, image, stage, installed, temp, paths, messages, makers, handler, shown>>
-----------------------------------------------------------------------------
(* SIGTERM.                                                                *)

Threads ==
  {Main} \cup {m \in Makers : given.threads /\ stage = "making" /\ makers[m].todo # <<>>}

(* Without the handler, at once. *)
Sigterm ==
  /\ Alive /\ handler.on = {}
  /\ IF installed
     THEN (\E t \in Threads : handler' = [handler EXCEPT !.on = {t}]) /\ UNCHANGED ended
     ELSE ended' = "killed" /\ UNCHANGED handler
  /\ UNCHANGED <<given, image, stage, installed, temp, paths, messages, makers, shown>>

HandlerAt(place) == Alive /\ handler.on # {} /\ handler.at = place

LoadMessageLength ==
  /\ HandlerAt("load")
  /\ handler' = [handler EXCEPT !.at = "write", !.len = TERM_MSG_LEN]
  /\ UNCHANGED <<given, image, stage, installed, temp, paths, messages, makers, shown, ended>>

WriteMessage ==
  /\ HandlerAt("write")
  /\ shown' = SubSeq(TERM_MSG_BUF, 1, handler.len)
  /\ handler' = [handler EXCEPT !.at = "unlink"]
  /\ UNCHANGED <<given, image, stage, installed, temp, paths, messages, makers, ended>>

(* What is in the buffer, if there is a length. *)
Unlink ==
  /\ HandlerAt("unlink")
  /\ temp' = (temp /\ ~(TEMP_FILE_LEN > 0 /\ TEMP_FILE_BUF))
  /\ handler' = [handler EXCEPT !.at = "raise"]
  /\ UNCHANGED <<given, image, stage, installed, paths, messages, makers, shown, ended>>

Raise ==
  /\ HandlerAt("raise") /\ ended' = "killed"
  /\ UNCHANGED <<given, image, stage, installed, temp, paths, messages, makers, handler, shown>>
-----------------------------------------------------------------------------
Init ==
  /\ given \in Given
  /\ image = 0 /\ stage = "start" /\ installed = FALSE /\ temp = FALSE
  /\ stdin_temp_path = FALSE /\ TEMP_FILE_BUF = FALSE /\ TEMP_FILE_LEN = 0
  /\ TERM_MSG_BUF = [i \in 1..Longest |-> "0"] /\ TERM_MSG_LEN = 0
  /\ makers = Recipes
  /\ handler = [on |-> {}, at |-> "load", len |-> 0] /\ shown = <<>> /\ ended = "no"

Next ==
  \/ install_sigterm_handler \/ ReadMakefile \/ CopyPath \/ StorePath \/ HoldPath
  \/ BeginRecipes \/ FatalExit
  \/ \E m \in Makers : CopyWord(m) \/ StoreLength(m) \/ EndCommand(m)
  \/ do_reinvoke \/ ReinvokeFails \/ Build \/ Return \/ RemoveFile \/ clear_temp_stdin_path \/ Leave
  \/ Sigterm \/ LoadMessageLength \/ WriteMessage \/ Unlink \/ Raise

Spec == Init /\ [][Next]_vars
-----------------------------------------------------------------------------
(* While recipes are run one after the other the handler writes the whole  *)
(* message of the command that is being run, and nothing if there is none: *)
(* never what is left of a longer message, nor part of the next one.       *)
MessageWhole ==
  handler.at \in {"unlink", "raise"} /\ ~given.threads =>
    LET running == {m \in Makers : makers[m].running}
    IN  IF running = {} THEN shown = <<>> ELSE \A m \in running : shown = Line(m)

(* The temporary file is gone when the process ends after run has          *)
(* returned, when it cannot execute itself, and when SIGTERM has ended the *)
(* image that wrote it, once it had kept the path.                         *)
TempRemoved ==
  ( \/ ended \in {"returned", "exec failed"} /\ (image > 0 \/ stdin_temp_path)
    \/ ended = "killed" /\ stdin_temp_path ) => ~temp
=============================================================================
