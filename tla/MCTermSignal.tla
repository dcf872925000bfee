---------------------------- MODULE MCTermSignal ----------------------------
(***************************************************************************)
(* Two included files, with messages of one and of two words.              *)
(***************************************************************************)
EXTENDS TermSignal

Long(w) == <<w, "more">>
Short(w) == <<w>>

MCGiven ==
  { [stdin |-> i, threads |-> t, lines |-> <<first, second>>] :
      i \in BOOLEAN, t \in BOOLEAN,
      first \in {<<>>, <<Short("a")>>, <<Long("a"), Short("b")>>, <<Short("a"), Long("b")>>},
      second \in {<<Short("c")>>, <<Long("c")>>, <<Short("c"), Long("d")>>} }
=============================================================================
