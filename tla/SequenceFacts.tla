---------------------------- MODULE SequenceFacts ----------------------------
(***************************************************************************)
(* Lists: what appending, taking the head and joining do to the members,   *)
(* induction, and what the operators that are defined by recursion along a *)
(* list, Select and FlattenSeq, give.                                      *)
(*                                                                         *)
(* The provers take no operator for an argument, so that an induction is   *)
(* over a set: of the numbers, or lists, for which the statement holds.    *)
(***************************************************************************)
EXTENDS Sublists, SequencesExt, FiniteSetTheorems, FunctionTheorems, SequenceTheorems,
        WellFoundedInduction, TLAPS

(* Appending a new element.                                                *)
LEMMA AppendRange ==
  ASSUME NEW S, NEW seq \in Seq(S), NEW e \in S
  PROVE  /\ Append(seq, e) \in Seq(S)
         /\ Len(Append(seq, e)) = Len(seq) + 1
         /\ Range(Append(seq, e)) = Range(seq) \cup {e}
         /\ IsInjective(seq) /\ e \notin Range(seq) => IsInjective(Append(seq, e))
<1> DEFINE new == Append(seq, e)
<1>1. /\ new \in Seq(S) /\ Len(new) = Len(seq) + 1 /\ Len(seq) \in Nat
      /\ \A i \in 1 .. Len(seq) : new[i] = seq[i]
      /\ new[Len(seq) + 1] = e
  BY AppendProperties, LenProperties
<1>2. DOMAIN seq = 1 .. Len(seq) /\ DOMAIN new = 1 .. Len(seq) + 1
  BY <1>1, LenProperties
<1> HIDE DEF new
<1>3. Range(new) = Range(seq) \cup {e}
  BY <1>1, <1>2 DEF Range
<1>4. ASSUME IsInjective(seq), e \notin Range(seq) PROVE IsInjective(new)
  BY <1>1, <1>2, <1>4 DEF Range, IsInjective
<1> QED BY <1>1, <1>3, <1>4 DEF new

(* Removing the first element.                                             *)
LEMMA TailRange ==
  ASSUME NEW S, NEW seq \in Seq(S), seq # <<>>
  PROVE  /\ Head(seq) \in S /\ Head(seq) \in Range(seq)
         /\ Tail(seq) \in Seq(S)
         /\ Len(Tail(seq)) = Len(seq) - 1 /\ Len(seq) > 0
         /\ IsInjective(seq) => /\ IsInjective(Tail(seq))
                                /\ Range(Tail(seq)) = Range(seq) \ {Head(seq)}
<1> DEFINE rest == Tail(seq)
<1>1. /\ Head(seq) \in S /\ rest \in Seq(S) /\ Len(rest) = Len(seq) - 1
      /\ \A i \in 1 .. Len(rest) : rest[i] = seq[i + 1]
  BY HeadTailProperties
<1>2. Len(seq) \in Nat \ {0}
  BY EmptySeq
<1>3. DOMAIN seq = 1 .. Len(seq) /\ DOMAIN rest = 1 .. Len(seq) - 1
  BY <1>1, LenProperties
<1>4. Head(seq) = seq[1]
  OBVIOUS
<1> HIDE DEF rest
<1>5. Head(seq) \in Range(seq)
  BY <1>2, <1>3, <1>4 DEF Range
<1>6. ASSUME IsInjective(seq) PROVE IsInjective(rest)
  <2> SUFFICES ASSUME NEW i \in DOMAIN rest, NEW j \in DOMAIN rest, rest[i] = rest[j]
               PROVE  i = j
    BY DEF IsInjective
  <2>1. i + 1 \in DOMAIN seq /\ j + 1 \in DOMAIN seq /\ seq[i + 1] = seq[j + 1]
    BY <1>1, <1>2, <1>3
  <2>2. i + 1 = j + 1
    BY <1>6, <2>1 DEF IsInjective
  <2> QED BY <1>2, <1>3, <2>2
<1>7. ASSUME IsInjective(seq) PROVE Range(rest) = Range(seq) \ {Head(seq)}
  <2>1. ASSUME NEW i \in 1 .. Len(seq) - 1
        PROVE  rest[i] \in Range(seq) \ {Head(seq)}
    BY <1>1, <1>2, <1>3, <1>4, <1>7 DEF Range, IsInjective
  <2>2. ASSUME NEW i \in 1 .. Len(seq), seq[i] # Head(seq)
        PROVE  seq[i] \in Range(rest)
    <3>1. i - 1 \in 1 .. Len(seq) - 1
      BY <1>2, <1>4, <2>2
    <3>2. rest[i - 1] = seq[i]
      BY <1>1, <1>2, <3>1
    <3> QED BY <1>3, <3>1, <3>2 DEF Range
  <2> QED BY <1>3, <2>1, <2>2 DEF Range
<1> QED BY <1>1, <1>2, <1>5, <1>6, <1>7 DEF rest

(* Appending a sequence of new elements.                                   *)
LEMMA ConcatRange ==
  ASSUME NEW S, NEW s \in Seq(S), NEW t \in Seq(S)
  PROVE  /\ s \o t \in Seq(S)
         /\ Range(s \o t) = Range(s) \cup Range(t)
         /\ IsInjective(s) /\ IsInjective(t) /\ Range(s) \cap Range(t) = {}
              => IsInjective(s \o t)
<1> DEFINE both == s \o t
<1>1. /\ both \in Seq(S) /\ Len(both) = Len(s) + Len(t)
      /\ \A i \in 1 .. Len(s) + Len(t) :
           both[i] = IF i <= Len(s) THEN s[i] ELSE t[i - Len(s)]
  BY ConcatProperties
<1>2. /\ DOMAIN s = 1 .. Len(s) /\ DOMAIN t = 1 .. Len(t)
      /\ Len(s) \in Nat /\ Len(t) \in Nat
      /\ DOMAIN both = 1 .. Len(s) + Len(t)
  BY <1>1, LenProperties
<1>3. Range(both) = Range(s) \cup Range(t)
  BY RangeConcatenation
<1> HIDE DEF both
<1>4. ASSUME IsInjective(s), IsInjective(t), Range(s) \cap Range(t) = {}
      PROVE  IsInjective(both)
  <2> SUFFICES ASSUME NEW i \in DOMAIN both, NEW j \in DOMAIN both,
                      both[i] = both[j], i < j
               PROVE  FALSE
    BY <1>2 DEF IsInjective
  <2>1. CASE j <= Len(s)
    BY <1>1, <1>2, <1>4, <2>1 DEF IsInjective
  <2>2. CASE i > Len(s)
    <3>1. t[i - Len(s)] = t[j - Len(s)]
      BY <1>1, <1>2, <2>2
    <3>2. i - Len(s) \in DOMAIN t /\ j - Len(s) \in DOMAIN t
      BY <1>2, <2>2
    <3>3. i - Len(s) = j - Len(s)
      BY <1>4, <3>1, <3>2 DEF IsInjective
    <3> QED BY <1>2, <3>3
  <2>3. CASE i <= Len(s) /\ j > Len(s)
    <3>1. s[i] = t[j - Len(s)]
      BY <1>1, <1>2, <2>3
    <3>2. i \in DOMAIN s /\ j - Len(s) \in DOMAIN t
      BY <1>2, <2>3
    <3> QED BY <1>4, <3>1, <3>2 DEF Range
  <2> QED BY <1>2, <2>1, <2>2, <2>3
<1> QED BY <1>1, <1>3, <1>4 DEF both

(* The orders in which the members of a finite set can be queued. *)
LEMMA OrdersOf ==
  ASSUME NEW R, IsFiniteSet(R), NEW order \in SetToSeqs(R)
  PROVE  order \in Seq(R) /\ IsInjective(order) /\ Range(order) = R
<1> DEFINE D == 1 .. Cardinality(R)
<1>1. Cardinality(R) \in Nat
  BY FS_CardinalityType
<1>2. order \in [D -> R] /\ (\A i, j \in D : i # j => order[i] # order[j])
  BY DEF SetToSeqs
<1>3. IsFiniteSet(D) /\ Cardinality(D) = Cardinality(R)
  BY <1>1, FS_Interval
<1>4. order \in Seq(R) /\ IsInjective(order)
  BY <1>1, <1>2 DEF IsInjective
<1>5. order \in Injection(D, R)
  BY <1>2, Fun_IsInj
<1>6. order \in Surjection(D, R)
  BY <1>3, <1>5, FS_Injection
<1>7. Range(order) = R
  BY <1>6, Fun_SurjectionProperties
<1> QED BY <1>4, <1>7

(* The members of a list. *)
LEMMA RangeIn ==
  ASSUME NEW S, NEW seq \in Seq(S)
  PROVE  Range(seq) \subseteq S
<1>1. DOMAIN seq = 1 .. Len(seq) /\ \A i \in 1 .. Len(seq) : seq[i] \in S
  OBVIOUS
<1> QED BY <1>1 DEF Range

LEMMA EmptyRange ==
  ASSUME NEW S, NEW seq \in Seq(S)
  PROVE  seq = <<>> <=> Range(seq) = {}
<1>1. DOMAIN seq = 1 .. Len(seq) /\ (seq # <<>> => 1 \in 1 .. Len(seq))
  OBVIOUS
<1>2. seq # <<>> => seq[1] \in Range(seq)
  BY <1>1 DEF Range
<1>3. Range(<<>>) = {}
  BY DEF Range
<1> QED BY <1>2, <1>3

(* The head of a list and the rest. *)
LEMMA TailHolds ==
  ASSUME NEW S, NEW seq \in Seq(S), seq # <<>>
  PROVE  /\ Head(seq) \in S /\ Tail(seq) \in Seq(S)
         /\ Range(seq) = Range(Tail(seq)) \cup {Head(seq)}
         /\ Len(seq) \in Nat \ {0}
<1> DEFINE rest == Tail(seq)
<1>1. /\ Head(seq) \in S /\ rest \in Seq(S) /\ Len(rest) = Len(seq) - 1
      /\ Len(seq) \in Nat \ {0} /\ Head(seq) = seq[1]
      /\ \A i \in 1 .. Len(rest) : rest[i] = seq[i + 1]
      /\ DOMAIN seq = 1 .. Len(seq) /\ DOMAIN rest = 1 .. Len(rest)
  OBVIOUS
<1>2. Range(rest) \subseteq Range(seq)
  BY <1>1 DEF Range
<1>3. ASSUME NEW e \in Range(seq), e # Head(seq)
      PROVE  e \in Range(rest)
  <2>1. PICK i \in 1 .. Len(seq) : e = seq[i]
    BY <1>1 DEF Range
  <2>2. i # 1 /\ i - 1 \in 1 .. Len(rest) /\ rest[i - 1] = e
    BY <1>1, <1>3, <2>1
  <2> QED BY <1>1, <2>2 DEF Range
<1>4. Head(seq) \in Range(seq)
  BY <1>1 DEF Range
<1> QED BY <1>1, <1>2, <1>3, <1>4
-----------------------------------------------------------------------------
(* Every set of natural numbers has a least one. *)
LEMMA LeastNumber ==
  ASSUME NEW T \in SUBSET Nat, T # {}
  PROVE  \E m \in T : \A n \in T : m <= n
<1> DEFINE below(n) == 0 .. n - 1
           Below == {below(n) : n \in T}
<1>1. IsWellFoundedOn(StrictSubsetOrdering(Nat), FiniteSubsetsOf(Nat))
  BY FS_StrictSubsetOrderingWellFounded
<1>2. Below \subseteq FiniteSubsetsOf(Nat) /\ Below # {}
  <2>1. ASSUME NEW n \in T PROVE below(n) \in FiniteSubsetsOf(Nat)
    <3>1. IsFiniteSet(0 .. n - 1)
      BY FS_Interval
    <3>2. 0 .. n - 1 \in SUBSET Nat
      OBVIOUS
    <3> QED BY <3>1, <3>2 DEF FiniteSubsetsOf
  <2> QED BY <2>1
<1>3. PICK M \in Below : \A N \in Below : ~ (<<N, M>> \in StrictSubsetOrdering(Nat))
  <2> HIDE DEF Below
  <2> QED BY <1>1, <1>2, WFMin
<1>4. PICK m \in T : M = below(m)
  OBVIOUS
<1>5. ASSUME NEW n \in T, n < m PROVE FALSE
  <2>1. below(n) \in Below /\ below(n) \subseteq below(m)
    BY <1>5
  <2>2. n \in below(m) /\ n \notin below(n)
    BY <1>5
  <2>3. <<below(n), below(m)>> \in StrictSubsetOrdering(Nat)
    BY <2>1, <2>2 DEF StrictSubsetOrdering
  <2> QED BY <1>3, <1>4, <2>1, <2>3
<1> QED BY <1>5

(* Induction up to L, with a set for the statement. *)
LEMMA Counting ==
  ASSUME NEW L \in Nat, NEW T, 0 \in T, \A n \in 1 .. L : n - 1 \in T => n \in T
  PROVE  \A n \in 0 .. L : n \in T
<1> DEFINE left == (0 .. L) \ T
<1> SUFFICES ASSUME left # {} PROVE FALSE
  OBVIOUS
<1>1. left \in SUBSET Nat
  OBVIOUS
<1>2. PICK m \in left : \A n \in left : m <= n
  <2> HIDE DEF left
  <2> QED BY <1>1, LeastNumber
<1>3. m \in 1 .. L /\ m - 1 \in T
  BY <1>2
<1> QED BY <1>3

(* f is defined by recursion on a number: step is done L times. *)
Iterates(f, L, V, base, step) ==
  /\ f \in [0 .. L -> V] /\ f[0] = base
  /\ \A n \in 1 .. L : f[n] = step[n][f[n - 1]]

(* There is such a function. *)
LEMMA Recursion ==
  ASSUME NEW L \in Nat, NEW V, NEW base \in V, NEW step \in [1 .. L -> [V -> V]]
  PROVE  \E f : Iterates(f, L, V, base, step)
<1> DEFINE T == {k \in 0 .. L : \E f : Iterates(f, k, V, base, step)}
<1>1. 0 \in T
  <2>1. Iterates([n \in 0 .. 0 |-> base], 0, V, base, step)
    BY DEF Iterates
  <2> QED BY <2>1
<1>2. ASSUME NEW k \in 1 .. L, k - 1 \in T PROVE k \in T
  <2>1. PICK f : Iterates(f, k - 1, V, base, step)
    BY <1>2
  <2>2. /\ f \in [0 .. k - 1 -> V] /\ f[0] = base
        /\ \A n \in 1 .. k - 1 : f[n] = step[n][f[n - 1]]
    BY <2>1 DEF Iterates
  <2> DEFINE g == [n \in 0 .. k |-> IF n = k THEN step[k][f[k - 1]] ELSE f[n]]
  <2>3. f[k - 1] \in V /\ step[k][f[k - 1]] \in V
    BY <2>2
  <2>4. g \in [0 .. k -> V]
    BY <2>2, <2>3
  <2>5. ASSUME NEW n \in 1 .. k PROVE g[n] = step[n][g[n - 1]]
    <3>1. g[n - 1] = f[n - 1]
      OBVIOUS
    <3>2. CASE n = k
      BY <3>1, <3>2
    <3>3. CASE n # k
      BY <3>1, <3>3, <2>2
    <3> QED BY <3>2, <3>3
  <2>6. g[0] = base
    BY <2>2
  <2>7. Iterates(g, k, V, base, step)
    <3> HIDE DEF g
    <3> QED BY <2>4, <2>5, <2>6 DEF Iterates
  <2> HIDE DEF g
  <2> QED BY <2>7
<1>3. L \in T
  <2>1. \A k \in 1 .. L : k - 1 \in T => k \in T
    BY <1>2
  <2> HIDE DEF T
  <2>2. \A k \in 0 .. L : k \in T
    BY <1>1, <2>1, Counting
  <2> QED BY <2>2
<1> QED BY <1>3

(* kept is the list of the first n members of seq that are in S. *)
Keeps(kept, seq, S, A) ==
  /\ kept \in [0 .. Len(seq) -> Seq(A)] /\ kept[0] = <<>>
  /\ \A n \in 1 .. Len(seq) :
       kept[n] = IF seq[n] \in S THEN Append(kept[n - 1], seq[n]) ELSE kept[n - 1]

(* Select is what its recursive definition says. *)
LEMMA SelectKept ==
  ASSUME NEW A, NEW seq \in Seq(A), NEW S
  PROVE  \E kept : Keeps(kept, seq, S, A) /\ Select(seq, S) = kept[Len(seq)]
<1> DEFINE L == Len(seq)
           V == Seq(A)
           step == [n \in 1 .. L |-> [v \in V |-> IF seq[n] \in S THEN Append(v, seq[n]) ELSE v]]
           body(k) == [n \in 0 .. L |->
                         IF n = 0 THEN <<>>
                         ELSE IF seq[n] \in S THEN Append(k[n - 1], seq[n]) ELSE k[n - 1]]
           kept == CHOOSE k : k = body(k)
<1>1. L \in Nat /\ <<>> \in V /\ \A n \in 1 .. L : seq[n] \in A
  OBVIOUS
<1>2. step \in [1 .. L -> [V -> V]]
  <2>1. \A n \in 1 .. L, v \in V : (IF seq[n] \in S THEN Append(v, seq[n]) ELSE v) \in V
    BY <1>1
  <2> HIDE DEF L, V
  <2> QED BY <2>1
<1>3. PICK f : Iterates(f, L, V, <<>>, step)
  <2> HIDE DEF L, V, step
  <2> QED BY <1>1, <1>2, Recursion
<1>4. /\ f \in [0 .. L -> V] /\ f[0] = <<>>
      /\ \A n \in 1 .. L : f[n] = IF seq[n] \in S THEN Append(f[n - 1], seq[n]) ELSE f[n - 1]
  <2>1. f \in [0 .. L -> V] /\ f[0] = <<>> /\ \A n \in 1 .. L : f[n] = step[n][f[n - 1]]
    <3> HIDE DEF step, L, V
    <3> QED BY <1>3 DEF Iterates
  <2>2. ASSUME NEW n \in 1 .. L
        PROVE  f[n] = IF seq[n] \in S THEN Append(f[n - 1], seq[n]) ELSE f[n - 1]
    <3>1. f[n - 1] \in V
      <4> HIDE DEF L, V
      <4> QED BY <1>1, <2>1
    <3> HIDE DEF L, V
    <3> QED BY <2>1, <3>1
  <2> HIDE DEF L, V, step
  <2> QED BY <2>1, <2>2
<1>5. f = body(f)
  <2>1. ASSUME NEW n \in 0 .. L
        PROVE  f[n] = IF n = 0 THEN <<>>
                      ELSE IF seq[n] \in S THEN Append(f[n - 1], seq[n]) ELSE f[n - 1]
    <3> HIDE DEF L, V
    <3>1. CASE n = 0
      BY <1>4, <3>1
    <3>2. CASE n \in 1 .. L
      BY <1>4, <3>2
    <3> QED BY <1>1, <3>1, <3>2
  <2> HIDE DEF L, V
  <2> QED BY <1>4, <2>1
<1>6. kept = body(kept)
  <2> HIDE DEF body
  <2> QED BY <1>5
<1>7. Select(seq, S) = kept[L]
  BY DEF Select
<1>8. \A n \in 0 .. L : kept[n] = f[n]
  <2> DEFINE T == {n \in 0 .. L : kept[n] = f[n]}
  <2>1. \A n \in 0 .. L : kept[n] = IF n = 0 THEN <<>>
          ELSE IF seq[n] \in S THEN Append(kept[n - 1], seq[n]) ELSE kept[n - 1]
    <3> HIDE DEF L, kept
    <3> QED BY <1>6
  <2> HIDE DEF L, V, kept, step, body
  <2>2. 0 \in T
    BY <1>1, <1>4, <2>1
  <2>3. \A n \in 1 .. L : n - 1 \in T => n \in T
    BY <1>1, <1>4, <2>1
  <2> HIDE DEF T
  <2>4. \A n \in 0 .. L : n \in T
    BY <1>1, <2>2, <2>3, Counting
  <2> QED BY <2>4 DEF T
<1>9. Select(seq, S) = f[L]
  <2> HIDE DEF kept, L
  <2> QED BY <1>1, <1>7, <1>8
<1>10. Keeps(f, seq, S, A)
  BY <1>4 DEF Keeps
<1> QED BY <1>9, <1>10

LEMMA SelectType ==
  ASSUME NEW A, NEW seq \in Seq(A), NEW S
  PROVE  Select(seq, S) \in Seq(A)
<1>1. PICK f : Keeps(f, seq, S, A) /\ Select(seq, S) = f[Len(seq)]
  BY SelectKept
<1>2. Len(seq) \in 0 .. Len(seq)
  OBVIOUS
<1> QED BY <1>1, <1>2 DEF Keeps

LEMMA SelectEmpty ==
  ASSUME NEW S
  PROVE  Select(<<>>, S) = <<>>
<1>1. <<>> \in Seq({}) /\ Len(<<>>) = 0
  OBVIOUS
<1>2. PICK f : Keeps(f, <<>>, S, {}) /\ Select(<<>>, S) = f[Len(<<>>)]
  BY <1>1, SelectKept
<1> QED BY <1>1, <1>2 DEF Keeps

(* The members are judged one by one, the last one last. *)
LEMMA SelectAppend ==
  ASSUME NEW A, NEW seq \in Seq(A), NEW e \in A, NEW S
  PROVE  Select(Append(seq, e), S)
           = IF e \in S THEN Append(Select(seq, S), e) ELSE Select(seq, S)
<1> DEFINE longer == Append(seq, e)
           L == Len(seq)
<1>1. /\ longer \in Seq(A) /\ Len(longer) = L + 1 /\ L \in Nat
      /\ longer[L + 1] = e /\ \A n \in 1 .. L : longer[n] = seq[n]
  BY AppendProperties
<1>2. PICK f : Keeps(f, seq, S, A) /\ Select(seq, S) = f[L]
  BY SelectKept
<1> HIDE DEF longer
<1>3. PICK g : Keeps(g, longer, S, A) /\ Select(longer, S) = g[Len(longer)]
  BY <1>1, SelectKept
<1>4. /\ f[0] = <<>>
      /\ \A n \in 1 .. L : f[n] = IF seq[n] \in S THEN Append(f[n - 1], seq[n]) ELSE f[n - 1]
  BY <1>2 DEF Keeps
<1> HIDE DEF L
<1>5. /\ g[0] = <<>>
      /\ \A n \in 1 .. L + 1 :
           g[n] = IF longer[n] \in S THEN Append(g[n - 1], longer[n]) ELSE g[n - 1]
  BY <1>1, <1>3 DEF Keeps
<1> DEFINE T == {n \in 0 .. L : f[n] = g[n]}
<1>6. 0 \in T
  BY <1>1, <1>4, <1>5
<1>7. ASSUME NEW n \in 1 .. L, n - 1 \in T PROVE n \in T
  <2>1. n \in 1 .. L + 1 /\ longer[n] = seq[n] /\ f[n - 1] = g[n - 1]
    BY <1>1, <1>7
  <2>2. f[n] = g[n]
    BY <1>4, <1>5, <2>1
  <2> QED BY <2>2
<1>8. f[L] = g[L]
  <2> HIDE DEF T
  <2>1. \A n \in 0 .. L : n \in T
    BY <1>1, <1>6, <1>7, Counting
  <2> QED BY <1>1, <2>1 DEF T
<1>9. L + 1 \in 1 .. L + 1 /\ (L + 1) - 1 = L
  BY <1>1
<1> QED BY <1>1, <1>2, <1>3, <1>5, <1>8, <1>9 DEF longer

(* The first n members of a list. *)
LEMMA FirstMembers ==
  ASSUME NEW A, NEW t \in Seq(A)
  PROVE  /\ SubSeq(t, 1, 0) = <<>> /\ SubSeq(t, 1, Len(t)) = t
         /\ \A n \in 0 .. Len(t) : SubSeq(t, 1, n) \in Seq(A)
         /\ \A n \in 1 .. Len(t) : /\ t[n] \in A
                                   /\ SubSeq(t, 1, n) = Append(SubSeq(t, 1, n - 1), t[n])
OBVIOUS

LEMMA ConcatAppend ==
  ASSUME NEW A, NEW s \in Seq(A), NEW t \in Seq(A), NEW e \in A
  PROVE  s \o Append(t, e) = Append(s \o t, e)
OBVIOUS

(* Induction on sequences, with a set for the statement. *)
LEMMA SequenceInduction ==
  ASSUME NEW A, NEW T, <<>> \in T, \A u \in Seq(A), e \in A : u \in T => Append(u, e) \in T
  PROVE  \A u \in Seq(A) : u \in T
<1> SUFFICES ASSUME NEW t \in Seq(A) PROVE t \in T
  OBVIOUS
<1> DEFINE first(n) == SubSeq(t, 1, n)
           S == {n \in Nat : first(n) \in T}
           L == Len(t)
<1>1. L \in Nat /\ first(L) = t /\ first(0) = <<>>
  BY FirstMembers
<1>2. \A n \in 1 .. L : /\ n - 1 \in Nat /\ first(n - 1) \in Seq(A) /\ t[n] \in A
                        /\ first(n) = Append(first(n - 1), t[n])
  <2>1. \A n \in 1 .. L : n - 1 \in 0 .. L /\ n - 1 \in Nat
    OBVIOUS
  <2> QED BY <2>1, FirstMembers
<1> HIDE DEF first, L
<1>3. 0 \in S
  BY <1>1
<1>4. ASSUME NEW n \in 1 .. L, n - 1 \in S PROVE n \in S
  <2>1. first(n - 1) \in T
    BY <1>4
  <2>2. Append(first(n - 1), t[n]) \in T
    BY <1>2, <2>1
  <2>3. first(n) \in T
    BY <1>2, <2>2
  <2>4. n \in Nat
    BY <1>1
  <2> QED BY <2>3, <2>4
<1> HIDE DEF S
<1>5. \A n \in 0 .. L : n \in S
  BY <1>1, <1>3, <1>4, Counting
<1>6. L \in 0 .. L
  BY <1>1
<1> QED BY <1>1, <1>5, <1>6 DEF S

LEMMA SelectConcat ==
  ASSUME NEW A, NEW s \in Seq(A), NEW t \in Seq(A), NEW S
  PROVE  Select(s \o t, S) = Select(s, S) \o Select(t, S)
<1> DEFINE T == {u \in Seq(A) : Select(s \o u, S) = Select(s, S) \o Select(u, S)}
<1>1. <<>> \in T
  <2> DEFINE a == Select(s, S)
  <2>1. s \o <<>> = s /\ <<>> \in Seq(A)
    OBVIOUS
  <2>2. a \o <<>> = a
    <3>1. a \in Seq(A)
      BY SelectType
    <3> HIDE DEF a
    <3> QED BY <3>1
  <2>3. Select(s \o <<>>, S) = a \o Select(<<>>, S)
    BY <2>1, <2>2, SelectEmpty
  <2> QED BY <2>1, <2>3
<1>2. ASSUME NEW u \in Seq(A), NEW e \in A, u \in T PROVE Append(u, e) \in T
  <2>1. s \o Append(u, e) = Append(s \o u, e) /\ s \o u \in Seq(A) /\ Append(u, e) \in Seq(A)
    OBVIOUS
  <2>2. Select(Append(s \o u, e), S)
          = IF e \in S THEN Append(Select(s \o u, S), e) ELSE Select(s \o u, S)
    BY <2>1, SelectAppend
  <2>3. Select(Append(u, e), S) = IF e \in S THEN Append(Select(u, S), e) ELSE Select(u, S)
    BY SelectAppend
  <2>4. Select(s, S) \in Seq(A) /\ Select(u, S) \in Seq(A)
    BY SelectType
  <2>5. Append(Select(s, S) \o Select(u, S), e) = Select(s, S) \o Append(Select(u, S), e)
    <3>1. ASSUME NEW a \in Seq(A), NEW b \in Seq(A)
          PROVE  a \o Append(b, e) = Append(a \o b, e)
      BY ConcatAppend
    <3> QED BY <2>4, <3>1, Zenon
  <2> QED BY <1>2, <2>1, <2>2, <2>3, <2>5
<1>3. t \in T
  <2> HIDE DEF T
  <2> QED BY <1>1, <1>2, SequenceInduction
<1> QED BY <1>3

(* The first member is judged first. *)
LEMMA SelectTail ==
  ASSUME NEW A, NEW seq \in Seq(A), seq # <<>>, NEW S
  PROVE  Select(seq, S) = (IF Head(seq) \in S THEN <<Head(seq)>> ELSE <<>>) \o Select(Tail(seq), S)
<1> DEFINE e == Head(seq)
           one == <<e>>
           rest == Tail(seq)
<1>1. /\ one \in Seq(A) /\ rest \in Seq(A) /\ e \in A
      /\ seq = one \o rest /\ one = Append(<<>>, e) /\ <<>> \in Seq(A)
  OBVIOUS
<1> HIDE DEF e, one, rest
<1>2. Select(seq, S) = Select(one, S) \o Select(rest, S)
  <2>1. Select(one \o rest, S) = Select(one, S) \o Select(rest, S)
    <3>1. ASSUME NEW a \in Seq(A), NEW b \in Seq(A)
          PROVE  Select(a \o b, S) = Select(a, S) \o Select(b, S)
      BY SelectConcat
    <3> QED BY <1>1, <3>1, Zenon
  <2> QED BY <1>1, <2>1
<1>3. Select(Append(<<>>, e), S) = IF e \in S THEN Append(<<>>, e) ELSE <<>>
  <2>1. ASSUME NEW u \in Seq(A) 
        PROVE  Select(Append(u, e), S) = IF e \in S THEN Append(Select(u, S), e) ELSE Select(u, S)
    BY <1>1, SelectAppend
  <2> QED BY <1>1, <2>1, SelectEmpty
<1>4. Select(one, S) = IF e \in S THEN one ELSE <<>>
  BY <1>1, <1>3
<1> QED BY <1>2, <1>4 DEF e, one, rest

LEMMA SelectRange ==
  ASSUME NEW A, NEW seq \in Seq(A), NEW S
  PROVE  Range(Select(seq, S)) = Range(seq) \cap S
<1> DEFINE T == {u \in Seq(A) : Range(Select(u, S)) = Range(u) \cap S}
<1>1. <<>> \in T
  BY SelectEmpty DEF Range
<1>2. ASSUME NEW u \in Seq(A), NEW e \in A, u \in T PROVE Append(u, e) \in T
  <2>1. Select(Append(u, e), S) = IF e \in S THEN Append(Select(u, S), e) ELSE Select(u, S)
    BY SelectAppend
  <2>2. Select(u, S) \in Seq(A)
    BY SelectType
  <2>3. Range(Append(u, e)) = Range(u) \cup {e} /\ Append(u, e) \in Seq(A)
    BY AppendRange
  <2>4. Range(Append(Select(u, S), e)) = Range(Select(u, S)) \cup {e}
    BY <2>2, AppendRange
  <2>5. Range(Select(u, S)) = Range(u) \cap S
    BY <1>2
  <2> HIDE DEF T
  <2>6. Range(Select(Append(u, e), S)) = Range(Append(u, e)) \cap S
    <3>1. CASE e \in S
      BY <2>1, <2>3, <2>4, <2>5, <3>1
    <3>2. CASE e \notin S
      BY <2>1, <2>3, <2>5, <3>2
    <3> QED BY <3>1, <3>2
  <2> QED BY <2>3, <2>6 DEF T
<1>3. seq \in T
  <2> HIDE DEF T
  <2> QED BY <1>1, <1>2, SequenceInduction
<1> QED BY <1>3

LEMMA SelectOne ==
  ASSUME NEW A, NEW e \in A, NEW S
  PROVE  Select(<<e>>, S) = IF e \in S THEN <<e>> ELSE <<>>
<1>1. <<e>> = Append(<<>>, e) /\ <<>> \in Seq(A)
  OBVIOUS
<1>2. ASSUME NEW u \in Seq(A)
      PROVE  Select(Append(u, e), S) = IF e \in S THEN Append(Select(u, S), e) ELSE Select(u, S)
  BY SelectAppend
<1> QED BY <1>1, <1>2, SelectEmpty

(* joined is the list of the first n lists of seqs, joined. *)
Joins(joined, seqs, A) ==
  /\ joined \in [0 .. Len(seqs) -> Seq(A)] /\ joined[0] = <<>>
  /\ \A n \in 1 .. Len(seqs) : joined[n] = joined[n - 1] \o seqs[n]

LEMMA FlattenJoins ==
  ASSUME NEW A, NEW seqs \in Seq(Seq(A))
  PROVE  \E joined : Joins(joined, seqs, A) /\ FlattenSeq(seqs) = joined[Len(seqs)]
<1> DEFINE L == Len(seqs)
           V == Seq(A)
           step == [n \in 1 .. L |-> [v \in V |-> v \o seqs[n]]]
           body(k) == [n \in 1 .. L |-> IF n = 1 THEN seqs[n] ELSE k[n - 1] \o seqs[n]]
           flatten == CHOOSE k : k = body(k)
<1>1. L \in Nat /\ <<>> \in V /\ \A n \in 1 .. L : seqs[n] \in V
  OBVIOUS
<1>2. step \in [1 .. L -> [V -> V]]
  <2>1. \A n \in 1 .. L, v \in V : v \o seqs[n] \in V
    BY <1>1
  <2> HIDE DEF L, V
  <2> QED BY <2>1
<1>3. PICK f : Iterates(f, L, V, <<>>, step)
  <2> HIDE DEF L, V, step
  <2> QED BY <1>1, <1>2, Recursion
<1>4. /\ f \in [0 .. L -> V] /\ f[0] = <<>>
      /\ \A n \in 1 .. L : f[n - 1] \in V /\ f[n] = f[n - 1] \o seqs[n]
  <2>1. f \in [0 .. L -> V] /\ f[0] = <<>> /\ \A n \in 1 .. L : f[n] = step[n][f[n - 1]]
    <3> HIDE DEF step, L, V
    <3> QED BY <1>3 DEF Iterates
  <2>2. ASSUME NEW n \in 1 .. L
        PROVE  f[n - 1] \in V /\ f[n] = f[n - 1] \o seqs[n]
    <3>1. f[n - 1] \in V
      <4> HIDE DEF L, V
      <4> QED BY <1>1, <2>1
    <3> HIDE DEF L, V
    <3> QED BY <2>1, <3>1
  <2> HIDE DEF L, V, step
  <2> QED BY <2>1, <2>2
<1>5. Joins(f, seqs, A)
  BY <1>4 DEF Joins
<1>6. CASE L = 0
  <2>1. FlattenSeq(seqs) = seqs /\ seqs = <<>>
    BY <1>6 DEF FlattenSeq
  <2> QED BY <1>4, <1>5, <1>6, <2>1
<1>7. CASE L # 0
  <2> DEFINE g == [n \in 1 .. L |-> f[n]]
  <2>1. g = body(g)
    <3>1. ASSUME NEW n \in 1 .. L
          PROVE  g[n] = IF n = 1 THEN seqs[n] ELSE g[n - 1] \o seqs[n]
      <4>1. CASE n = 1
        <5>1. \A v \in V : <<>> \o v = v
          OBVIOUS
        <5> HIDE DEF L, V
        <5> QED BY <1>1, <1>4, <4>1, <5>1
      <4>2. CASE n # 1
        <5>1. n - 1 \in 1 .. L
          BY <1>1, <4>2
        <5> HIDE DEF L, V
        <5> QED BY <1>4, <4>2, <5>1
      <4> QED BY <4>1, <4>2
    <3> HIDE DEF L, V, step
    <3> QED BY <3>1
  <2>2. flatten = body(flatten)
    <3> HIDE DEF body, g
    <3> QED BY <2>1
  <2>3. FlattenSeq(seqs) = flatten[L]
    BY <1>7 DEF FlattenSeq
  <2>4. \A n \in 0 .. L : n = 0 \/ flatten[n] = f[n]
    <3> DEFINE T == {n \in 0 .. L : n = 0 \/ flatten[n] = f[n]}
    <3>1. \A n \in 1 .. L : flatten[n] = IF n = 1 THEN seqs[n] ELSE flatten[n - 1] \o seqs[n]
      <4> HIDE DEF L, flatten
      <4> QED BY <2>2
    <3>2. \A n \in 1 .. L : g[n] = f[n]
      OBVIOUS
    <3>3. \A n \in 1 .. L : g[n] = IF n = 1 THEN seqs[n] ELSE g[n - 1] \o seqs[n]
      <4> HIDE DEF L, g
      <4> QED BY <2>1
    <3> HIDE DEF L, V, flatten, g, step, body
    <3>4. 0 \in T
      BY <1>1
    <3>5. ASSUME NEW n \in 1 .. L, n - 1 \in T PROVE n \in T
      <4>1. CASE n = 1
        BY <3>1, <3>2, <3>3, <4>1
      <4>2. CASE n # 1
        <5>1. n - 1 \in 1 .. L /\ flatten[n - 1] = f[n - 1]
          BY <1>1, <3>5, <4>2
        <5> QED BY <3>1, <3>2, <3>3, <4>2, <5>1
      <4> QED BY <4>1, <4>2
    <3> HIDE DEF T
    <3>6. \A n \in 0 .. L : n \in T
      BY <1>1, <3>4, <3>5, Counting
    <3> QED BY <3>6 DEF T
  <2>5. FlattenSeq(seqs) = f[L]
    <3> HIDE DEF L, flatten
    <3> QED BY <1>1, <1>7, <2>3, <2>4
  <2> QED BY <1>5, <2>5
<1> QED BY <1>6, <1>7

LEMMA FlattenEmpty == FlattenSeq(<<>>) = <<>>
BY DEF FlattenSeq

(* What a joined list holds is in one of the lists. *)
LEMMA FlattenHolds ==
  ASSUME NEW A, NEW seqs \in Seq(Seq(A))
  PROVE  /\ FlattenSeq(seqs) \in Seq(A)
         /\ \A e \in Range(FlattenSeq(seqs)) : \E k \in DOMAIN seqs : e \in Range(seqs[k])
<1> DEFINE L == Len(seqs)
<1>1. PICK f : Joins(f, seqs, A) /\ FlattenSeq(seqs) = f[L]
  BY FlattenJoins
<1>2. /\ f \in [0 .. L -> Seq(A)] /\ f[0] = <<>> /\ L \in Nat /\ DOMAIN seqs = 1 .. L
      /\ \A n \in 1 .. L : f[n] = f[n - 1] \o seqs[n] /\ f[n - 1] \in Seq(A) /\ seqs[n] \in Seq(A)
  <2>1. /\ f \in [0 .. L -> Seq(A)] /\ f[0] = <<>>
        /\ \A n \in 1 .. L : f[n] = f[n - 1] \o seqs[n]
    BY <1>1 DEF Joins
  <2>2. /\ L \in Nat /\ DOMAIN seqs = 1 .. L
        /\ \A n \in 1 .. L : n - 1 \in 0 .. L /\ seqs[n] \in Seq(A)
    OBVIOUS
  <2> HIDE DEF L
  <2> QED BY <2>1, <2>2
<1> DEFINE Within(n) == \A e \in Range(f[n]) : \E k \in 1 .. L : e \in Range(seqs[k])
           T == {n \in 0 .. L : Within(n)}
<1> HIDE DEF L
<1>3. 0 \in T
  BY <1>2 DEF Range
<1>4. ASSUME NEW n \in 1 .. L, n - 1 \in T PROVE n \in T
  <2>1. Range(f[n]) = Range(f[n - 1]) \cup Range(seqs[n])
    <3>1. ASSUME NEW a \in Seq(A), NEW b \in Seq(A) PROVE Range(a \o b) = Range(a) \cup Range(b)
      BY ConcatRange
    <3>2. f[n - 1] \in Seq(A) /\ seqs[n] \in Seq(A) /\ f[n] = f[n - 1] \o seqs[n]
      BY <1>2
    <3> QED BY <3>1, <3>2, Zenon
  <2>2. Within(n - 1) /\ n \in 0 .. L
    BY <1>2, <1>4
  <2> QED BY <2>1, <2>2
<1>5. \A n \in 0 .. L : n \in T
  <2> HIDE DEF T
  <2> QED BY <1>2, <1>3, <1>4, Counting
<1>6. L \in 0 .. L
  BY <1>2
<1> QED BY <1>1, <1>2, <1>5, <1>6
=============================================================================
