----------------------------- MODULE FileNames -----------------------------
(***************************************************************************)
(* Names of files and patterns.  A name is the sequence of its pieces, a   *)
(* directory, a stem, a suffix, and a pattern is a name with the piece "%" *)
(* in it, which stands for any number of pieces.                           *)
(***************************************************************************)
EXTENDS Naturals, SequencesExt

FileName == Seq(STRING)
Percent == "%"

(* Which the proof system cannot tell. *)
ASSUME PercentAssumption == Percent \in STRING

IsPattern(name) == Contains(name, Percent)
FirstPercent(pattern) == SelectInSeq(pattern, LAMBDA piece : piece = Percent)
Before(pattern) == SubSeq(pattern, 1, FirstPercent(pattern) - 1)
After(pattern) == SubSeq(pattern, FirstPercent(pattern) + 1, Len(pattern))

(* What stands before % begins the name and what stands after it ends the  *)
(* name, without sharing a piece.  The stem may be empty.                  *)
match_pattern(target, pattern) ==
  IF ~IsPattern(pattern) THEN target = pattern
  ELSE /\ Len(target) >= Len(pattern) - 1
       /\ IsPrefix(Before(pattern), target)
       /\ IsSuffix(After(pattern), target)

Stem(target, pattern) ==
  IF ~IsPattern(pattern) THEN <<>>
  ELSE SubSeq(target, FirstPercent(pattern), Len(target) - Len(After(pattern)))

(* Only the first % is replaced. *)
apply_stem(pattern, stem) ==
  IF IsPattern(pattern) THEN Before(pattern) \o stem \o After(pattern) ELSE pattern
=============================================================================
