--------------------------- MODULE SeqFoldProofs ----------------------------
(***************************************************************************)
(* What a fold of SeqFold comes to: with the next element, with the parts  *)
(* of a sequence, and what the steps keep of it.  All of it rests on       *)
(* NatSet, induction for a set of numbers instead of a predicate, which    *)
(* the provers can be given.                                               *)
(***************************************************************************)
EXTENDS SeqFold, SequenceTheorems, WellFoundedInduction, TLAPS

(* Induction over the natural numbers, for a set of them                   *)
LEMMA NatSet ==
    ASSUME NEW T, 0 \in T, \A n \in Nat : n \in T => n + 1 \in T
    PROVE  Nat \subseteq T
<1> DEFINE R == OpToRel(<, Nat)
           F == Nat \ T
<1>1. IsWellFoundedOn(R, Nat)
  BY NatLessThanWellFounded
<1>2. \A x, y \in Nat : x < y => <<x, y>> \in R
  BY DEF OpToRel
<1> HIDE DEF R
<1>3. SUFFICES ASSUME F # {} PROVE FALSE
  OBVIOUS
<1>4. PICK x \in F : \A y \in F : ~ (<<y, x>> \in R)
  <2>1. F \subseteq Nat
    OBVIOUS
  <2> HIDE DEF F
  <2> QED
    BY <1>1, <1>3, <2>1, WFMin
<1>5. x \in Nat /\ x # 0
  OBVIOUS
<1>6. x - 1 \in Nat /\ x - 1 < x /\ (x - 1) + 1 = x
  BY <1>5
<1>7. x - 1 \in F
  BY <1>6
<1> QED
  BY <1>2, <1>4, <1>5, <1>6, <1>7

(* The results along the way *)
Folds(f, step, base, s) ==
    f = [i \in 0 .. Len(s) |-> IF i = 0 THEN base ELSE step[f[i - 1]][s[i]]]

(* Every fold has its results along the way ... *)
LEMMA FoldExists ==
    ASSUME NEW X, NEW step, NEW base, NEW s \in Seq(X)
    PROVE  \E f : Folds(f, step, base, s)
<1> DEFINE G(f, n) == f = [i \in 0 .. n |-> IF i = 0 THEN base ELSE step[f[i - 1]][s[i]]]
           T == {n \in Nat : \E f : G(f, n)}
<1>1. 0 \in T
  <2> DEFINE f == [i \in 0 .. 0 |-> base]
  <2>1. G(f, 0)
    OBVIOUS
  <2> QED
    BY <2>1
<1>2. ASSUME NEW n \in Nat, n \in T
      PROVE  n + 1 \in T
  <2>1. PICK f : G(f, n)
    BY <1>2
  <2> DEFINE g == [i \in 0 .. n + 1 |-> IF i = n + 1 THEN step[f[n]][s[n + 1]] ELSE f[i]]
  <2>2. \A i \in 0 .. n : g[i] = f[i]
    OBVIOUS
  <2>3. g[n + 1] = step[f[n]][s[n + 1]]
    OBVIOUS
  <2> HIDE DEF g
  <2>4. ASSUME NEW i \in 0 .. n + 1
        PROVE  g[i] = IF i = 0 THEN base ELSE step[g[i - 1]][s[i]]
    <3>1. CASE i = n + 1
      <4>1. i - 1 = n /\ n \in 0 .. n /\ i # 0
        BY <3>1
      <4> QED
        BY <2>2, <2>3, <3>1, <4>1
    <3>2. CASE i # n + 1 /\ i # 0
      <4>1. i \in 0 .. n /\ i - 1 \in 0 .. n
        BY <3>2
      <4>2. f[i] = step[f[i - 1]][s[i]]
        BY <2>1, <3>2, <4>1
      <4> QED
        BY <2>2, <3>2, <4>1, <4>2
    <3>3. CASE i = 0
      <4>1. i \in 0 .. n
        BY <3>3
      <4>2. f[i] = base
        BY <2>1, <3>3, <4>1
      <4> QED
        BY <2>2, <3>3, <4>1, <4>2
    <3> QED
      BY <3>1, <3>2, <3>3
  <2>5. g = [i \in 0 .. n + 1 |-> g[i]]
    BY DEF g
  <2>6. G(g, n + 1)
    BY <2>4, <2>5
  <2>7. \E h : G(h, n + 1)
    BY <2>6
  <2> HIDE DEF G
  <2> QED
    BY <2>7
<1>3. Nat \subseteq T
  <2> HIDE DEF T
  <2> QED
    BY <1>1, <1>2, NatSet
<1>4. Len(s) \in Nat
  BY LenProperties
<1> QED
  BY <1>3, <1>4 DEF Folds

(* ... and Fold is the last of them. *)
LEMMA FoldIsLast ==
    ASSUME NEW X, NEW step, NEW base, NEW s \in Seq(X)
    PROVE  \E f : Folds(f, step, base, s) /\ Fold(step, base, s) = f[Len(s)]
<1> DEFINE F == CHOOSE f : Folds(f, step, base, s)
<1>1. Folds(F, step, base, s)
  BY FoldExists
<1>2. Fold(step, base, s) = F[Len(s)]
  BY DEF Fold, Folds
<1> QED
  BY <1>1, <1>2

(* Where two sequences agree, so do their results along the way.           *)
LEMMA FoldsAgree ==
    ASSUME NEW X, NEW s \in Seq(X), NEW t \in Seq(X), NEW step, NEW base,
           NEW f, NEW g, Folds(f, step, base, s), Folds(g, step, base, t),
           NEW n \in Nat, n <= Len(s), n <= Len(t), \A i \in 1 .. n : s[i] = t[i]
    PROVE  f[n] = g[n]
<1> DEFINE T == {i \in Nat : i <= n => f[i] = g[i]}
<1>1. Len(s) \in Nat /\ Len(t) \in Nat
  BY LenProperties
<1>2. /\ \A i \in 0 .. n : f[i] = IF i = 0 THEN base ELSE step[f[i - 1]][s[i]]
      /\ \A i \in 0 .. n : g[i] = IF i = 0 THEN base ELSE step[g[i - 1]][t[i]]
  <2>1. \A i \in 0 .. n : i \in 0 .. Len(s) /\ i \in 0 .. Len(t)
    BY <1>1
  <2>2. \A i \in 0 .. Len(s) : f[i] = IF i = 0 THEN base ELSE step[f[i - 1]][s[i]]
    BY DEF Folds
  <2>3. \A i \in 0 .. Len(t) : g[i] = IF i = 0 THEN base ELSE step[g[i - 1]][t[i]]
    BY DEF Folds
  <2> QED
    BY <2>1, <2>2, <2>3
<1>3. 0 \in T
  <2>1. 0 \in 0 .. n
    OBVIOUS
  <2> QED
    BY <1>2, <2>1
<1>4. ASSUME NEW i \in Nat, i \in T
      PROVE  i + 1 \in T
  <2> SUFFICES ASSUME i + 1 <= n PROVE f[i + 1] = g[i + 1]
    OBVIOUS
  <2>1. i + 1 \in 0 .. n /\ i + 1 \in 1 .. n /\ i + 1 # 0 /\ (i + 1) - 1 = i /\ i <= n
    OBVIOUS
  <2>2. f[i] = g[i]
    BY <1>4, <2>1
  <2>3. f[i + 1] = step[f[(i + 1) - 1]][s[i + 1]] /\ g[i + 1] = step[g[(i + 1) - 1]][t[i + 1]]
    BY <1>2, <2>1
  <2> QED
    BY <2>1, <2>2, <2>3
<1>5. Nat \subseteq T
  <2> HIDE DEF T
  <2> QED
    BY <1>3, <1>4, NatSet
<1> QED
  BY <1>5

(* What the steps keep is true of the result.                              *)
LEMMA FoldInvariant ==
    ASSUME NEW X, NEW s \in Seq(X), NEW step, NEW S, NEW base \in S,
           \A a \in S : \A i \in 1 .. Len(s) : step[a][s[i]] \in S
    PROVE  Fold(step, base, s) \in S
<1>1. PICK f : Folds(f, step, base, s) /\ Fold(step, base, s) = f[Len(s)]
  BY FoldIsLast
<1>2. Len(s) \in Nat
  BY LenProperties
<1> DEFINE T == {i \in Nat : i <= Len(s) => f[i] \in S}
<1>3. \A i \in 0 .. Len(s) : f[i] = IF i = 0 THEN base ELSE step[f[i - 1]][s[i]]
  BY <1>1 DEF Folds
<1>4. 0 \in T
  <2>1. 0 \in 0 .. Len(s)
    BY <1>2
  <2> QED
    BY <1>3, <2>1
<1>5. ASSUME NEW i \in Nat, i \in T
      PROVE  i + 1 \in T
  <2> SUFFICES ASSUME i + 1 <= Len(s) PROVE f[i + 1] \in S
    OBVIOUS
  <2>1. i + 1 \in 0 .. Len(s) /\ i + 1 \in 1 .. Len(s) /\ i + 1 # 0 /\ (i + 1) - 1 = i
        /\ i <= Len(s)
    BY <1>2
  <2>2. f[i] \in S
    BY <1>5, <2>1
  <2>3. f[i + 1] = step[f[(i + 1) - 1]][s[i + 1]]
    BY <1>3, <2>1
  <2> QED
    BY <2>1, <2>2, <2>3
<1>6. Nat \subseteq T
  <2> HIDE DEF T
  <2> QED
    BY <1>4, <1>5, NatSet
<1> QED
  BY <1>1, <1>2, <1>6

(* Nothing to fold                                                         *)
LEMMA FoldEmpty ==
    ASSUME NEW step, NEW base
    PROVE  Fold(step, base, <<>>) = base
<1> DEFINE none == <<>>
<1>1. none \in Seq({}) /\ Len(none) = 0
  BY EmptySeq
<1> HIDE DEF none
<1>2. PICK f : Folds(f, step, base, none) /\ Fold(step, base, none) = f[Len(none)]
  <2> DEFINE X == {}
  <2>1. none \in Seq(X)
    BY <1>1
  <2> HIDE DEF X
  <2> QED
    BY <2>1, FoldIsLast
<1>3. f[0] = base
  BY <1>1, <1>2 DEF Folds
<1> QED
  BY <1>1, <1>2, <1>3 DEF none

(* The last step                                                           *)
LEMMA FoldAppend ==
    ASSUME NEW X, NEW s \in Seq(X), NEW e \in X, NEW step, NEW base
    PROVE  Fold(step, base, Append(s, e)) = step[Fold(step, base, s)][e]
<1> DEFINE t == Append(s, e)
           n == Len(s)
<1>1. /\ t \in Seq(X) /\ Len(t) = n + 1 /\ n \in Nat
      /\ \A i \in 1 .. n : s[i] = t[i]
      /\ t[n + 1] = e
  BY AppendProperties, LenProperties
<1> HIDE DEF t
<1>2. PICK f : Folds(f, step, base, s) /\ Fold(step, base, s) = f[n]
  BY FoldIsLast
<1>3. PICK g : Folds(g, step, base, t) /\ Fold(step, base, t) = g[Len(t)]
  BY <1>1, FoldIsLast
<1>4. f[n] = g[n]
  <2>1. n <= Len(s) /\ n <= Len(t)
    BY <1>1
  <2> QED
    BY <1>1, <1>2, <1>3, <2>1, FoldsAgree
<1>5. g[n + 1] = step[g[n]][t[n + 1]]
  <2>1. n + 1 \in 0 .. Len(t) /\ n + 1 # 0 /\ (n + 1) - 1 = n
    BY <1>1
  <2>2. g[n + 1] = step[g[(n + 1) - 1]][t[n + 1]]
    BY <1>3, <2>1 DEF Folds
  <2> QED
    BY <2>1, <2>2
<1> QED
  BY <1>1, <1>2, <1>3, <1>4, <1>5 DEF t

(* Steps that only put something behind what is there *)
Appends(step, X, Y) ==
    /\ \A a \in Seq(Y), x \in X : step[a][x] \in Seq(Y)
    /\ \A a, b \in Seq(Y), x \in X : step[a \o b][x] = a \o step[b][x]

(* Their results are sequences.                                            *)
LEMMA FoldIsSeq ==
    ASSUME NEW X, NEW Y, NEW step, Appends(step, X, Y), NEW s \in Seq(X)
    PROVE  Fold(step, <<>>, s) \in Seq(Y)
<1>1. <<>> \in Seq(Y)
  BY EmptySeq
<1>2. \A a \in Seq(Y) : \A i \in 1 .. Len(s) : step[a][s[i]] \in Seq(Y)
  BY ElementOfSeq DEF Appends
<1> QED
  BY <1>1, <1>2, FoldInvariant

(* One step                                                                *)
LEMMA FoldOne ==
    ASSUME NEW X, NEW e \in X, NEW step, NEW base
    PROVE  Fold(step, base, <<e>>) = step[base][e]
<1>1. <<>> \in Seq(X) /\ Append(<<>>, e) = <<e>>
  BY EmptySeq
<1>2. Fold(step, base, Append(<<>>, e)) = step[Fold(step, base, <<>>)][e]
  BY <1>1, FoldAppend
<1> QED
  BY <1>1, <1>2, FoldEmpty

(* The result of a sequence is put together from those of its parts.       *)
LEMMA FoldConcat ==
    ASSUME NEW X, NEW Y, NEW step, Appends(step, X, Y), NEW s \in Seq(X), NEW t \in Seq(X)
    PROVE  Fold(step, <<>>, s \o t) = Fold(step, <<>>, s) \o Fold(step, <<>>, t)
<1> DEFINE F(u) == Fold(step, <<>>, u)
           T == {n \in Nat : \A u \in Seq(X) : Len(u) = n => F(s \o u) = F(s) \o F(u)}
<1>1. \A u \in Seq(X) : F(u) \in Seq(Y)
  BY FoldIsSeq
<1>2. 0 \in T
  <2> SUFFICES ASSUME NEW u \in Seq(X), Len(u) = 0
               PROVE  F(s \o u) = F(s) \o F(u)
    OBVIOUS
  <2>1. u = <<>>
    BY EmptySeq
  <2>2. s \o <<>> = s
    BY ConcatEmptySeq
  <2>3. F(<<>>) = <<>>
    BY FoldEmpty
  <2>4. F(s) \o <<>> = F(s)
    <3>1. F(s) \in Seq(Y)
      BY <1>1
    <3> HIDE DEF F
    <3> QED
      BY <3>1, ConcatEmptySeq
  <2> HIDE DEF F
  <2> QED
    BY <2>1, <2>2, <2>3, <2>4
<1>3. ASSUME NEW n \in Nat, n \in T
      PROVE  n + 1 \in T
  <2> SUFFICES ASSUME NEW u \in Seq(X), Len(u) = n + 1
               PROVE  F(s \o u) = F(s) \o F(u)
    OBVIOUS
  <2>1. PICK v \in Seq(X), e \in X : u = Append(v, e)
    <3>1. u # <<>>
      BY EmptySeq
    <3> QED
      BY <3>1, SequenceEmptyOrAppend
  <2>2. Len(v) = n
    <3>1. Len(u) = Len(v) + 1 /\ Len(v) \in Nat
      BY <2>1, AppendProperties, LenProperties
    <3> QED
      BY <3>1
  <2>3. F(s \o v) = F(s) \o F(v)
    BY <1>3, <2>2
  <2>4. s \o u = Append(s \o v, e) /\ s \o v \in Seq(X)
    <3>1. <<e>> \in Seq(X) /\ s \o v \in Seq(X)
      BY ConcatProperties
    <3>2. u = v \o <<e>>
      BY <2>1, AppendIsConcat
    <3>3. s \o (v \o <<e>>) = (s \o v) \o <<e>>
      BY <3>1, ConcatAssociative
    <3>4. Append(s \o v, e) = (s \o v) \o <<e>>
      BY <3>1, AppendIsConcat
    <3> QED
      BY <3>1, <3>2, <3>3, <3>4
  <2>5. F(s \o u) = step[F(s \o v)][e]
    <3> DEFINE w == s \o v
    <3>1. w \in Seq(X) /\ s \o u = Append(w, e)
      BY <2>4
    <3> HIDE DEF w
    <3>2. Fold(step, <<>>, Append(w, e)) = step[Fold(step, <<>>, w)][e]
      BY <3>1, FoldAppend
    <3> QED
      BY <3>1, <3>2 DEF w
  <2>6. F(u) = step[F(v)][e]
    BY <2>1, FoldAppend
  <2>7. F(s) \in Seq(Y) /\ F(v) \in Seq(Y)
    BY <1>1
  <2> HIDE DEF F
  <2> QED
    BY <2>3, <2>5, <2>6, <2>7 DEF Appends
<1>4. Nat \subseteq T
  <2> HIDE DEF T
  <2> QED
    BY <1>2, <1>3, NatSet
<1>5. Len(t) \in Nat
  BY LenProperties
<1> QED
  BY <1>4, <1>5

(* The beginning of a sequence, one longer                                 *)
LEMMA SubSeqNext ==
    ASSUME NEW X, NEW s \in Seq(X), NEW k \in Nat, k + 1 <= Len(s)
    PROVE  SubSeq(s, 1, k + 1) = Append(SubSeq(s, 1, k), s[k + 1])
<1> DEFINE more == SubSeq(s, 1, k + 1)
           some == SubSeq(s, 1, k)
           e == s[k + 1]
<1>1. \A j \in 1 .. k + 1 : s[j] \in X
  BY ElementOfSeq, LenProperties
<1>2. more \in Seq(X) /\ Len(more) = k + 1 /\ \A j \in 1 .. k + 1 : more[j] = s[j]
  BY <1>1, SubSeqProperties
<1>3. some \in Seq(X) /\ Len(some) = k /\ \A j \in 1 .. k : some[j] = s[j]
  BY <1>1, SubSeqProperties
<1>4. e \in X
  BY <1>1
<1> HIDE DEF more, some, e
<1>5. /\ Append(some, e) \in Seq(X) /\ Len(Append(some, e)) = k + 1
      /\ \A j \in 1 .. k : Append(some, e)[j] = some[j]
      /\ Append(some, e)[k + 1] = e
  BY <1>3, <1>4
<1>6. \A j \in 1 .. k + 1 : more[j] = Append(some, e)[j]
  BY <1>2, <1>3, <1>5 DEF e
<1>7. more = Append(some, e)
  BY <1>2, <1>5, <1>6, SeqEqual
<1> QED
  BY <1>7 DEF more, some, e

(* A sequence can be folded in two parts, the second from where the first  *)
(* one led.                                                                *)
LEMMA FoldThrough ==
    ASSUME NEW X, NEW s \in Seq(X), NEW t \in Seq(X), NEW step, NEW base
    PROVE  Fold(step, base, s \o t) = Fold(step, Fold(step, base, s), t)
<1> DEFINE F(u) == Fold(step, base, u)
           G(u) == Fold(step, F(s), u)
           T == {n \in Nat : \A u \in Seq(X) : Len(u) = n => F(s \o u) = G(u)}
<1>1. 0 \in T
  <2> SUFFICES ASSUME NEW u \in Seq(X), Len(u) = 0
               PROVE  F(s \o u) = G(u)
    OBVIOUS
  <2>1. u = <<>> /\ s \o <<>> = s
    BY EmptySeq, ConcatEmptySeq
  <2>2. G(<<>>) = F(s)
    <3> HIDE DEF F
    <3> QED
      BY FoldEmpty
  <2> HIDE DEF F, G
  <2> QED
    BY <2>1, <2>2
<1>2. ASSUME NEW n \in Nat, n \in T
      PROVE  n + 1 \in T
  <2> SUFFICES ASSUME NEW u \in Seq(X), Len(u) = n + 1
               PROVE  F(s \o u) = G(u)
    OBVIOUS
  <2>1. PICK v \in Seq(X), e \in X : u = Append(v, e)
    <3>1. u # <<>>
      BY EmptySeq
    <3> QED
      BY <3>1, SequenceEmptyOrAppend
  <2>2. Len(v) = n
    <3>1. Len(u) = Len(v) + 1 /\ Len(v) \in Nat
      BY <2>1, AppendProperties, LenProperties
    <3> QED
      BY <3>1
  <2>3. F(s \o v) = G(v)
    BY <1>2, <2>2
  <2>4. s \o u = Append(s \o v, e) /\ s \o v \in Seq(X)
    <3>1. <<e>> \in Seq(X) /\ s \o v \in Seq(X)
      BY ConcatProperties
    <3>2. u = v \o <<e>>
      BY <2>1, AppendIsConcat
    <3>3. s \o (v \o <<e>>) = (s \o v) \o <<e>>
      BY <3>1, ConcatAssociative
    <3>4. Append(s \o v, e) = (s \o v) \o <<e>>
      BY <3>1, AppendIsConcat
    <3> QED
      BY <3>1, <3>2, <3>3, <3>4
  <2>5. F(s \o u) = step[F(s \o v)][e]
    <3> DEFINE w == s \o v
    <3>1. w \in Seq(X) /\ s \o u = Append(w, e)
      BY <2>4
    <3> HIDE DEF w
    <3>2. Fold(step, base, Append(w, e)) = step[Fold(step, base, w)][e]
      BY <3>1, FoldAppend
    <3> QED
      BY <3>1, <3>2 DEF w
  <2>6. G(u) = step[G(v)][e]
    <3> HIDE DEF F
    <3> QED
      BY <2>1, FoldAppend
  <2> HIDE DEF F, G
  <2> QED
    BY <2>3, <2>5, <2>6
<1>3. Nat \subseteq T
  <2> HIDE DEF T
  <2> QED
    BY <1>1, <1>2, NatSet
<1>4. Len(t) \in Nat
  BY LenProperties
<1> QED
  BY <1>3, <1>4
=============================================================================
