------------------------------ MODULE Induction ------------------------------
(***************************************************************************)
(* Induction on natural numbers in the form of sets: a set has an element  *)
(* of its own, where the induction theorems of the library have an         *)
(* operator as their parameter.  From it: functions given step by step     *)
(* exist, and what FlattenSeq, Max and Min give.                           *)
(***************************************************************************)
EXTENDS Integers, SequencesExt, FiniteSetsExt, SequenceTheorems, WellFoundedInduction, TLAPS

(* A set of naturals has a least element.                                  *)
LEMMA LeastNatural ==
  ASSUME NEW T, T \subseteq Nat, T # {}
  PROVE  \E m \in T : \A k \in T : m <= k
<1> DEFINE R == {ss \in Nat \X Nat : ss[1] < ss[2]}
<1>1. IsWellFoundedOn(R, Nat)
  BY NatLessThanWellFounded DEF OpToRel
<1>2. \E m \in T : \A k \in T : << k, m >> \notin R
  <2> HIDE DEF R
  <2> QED
    BY <1>1, WFMin
<1>3. PICK m \in T : \A k \in T : << k, m >> \notin R
  BY <1>2
<1>4. ASSUME NEW k \in T PROVE m <= k
  <2>1. m \in Nat /\ k \in Nat /\ << k, m >> \in Nat \X Nat
    BY <1>4
  <2>2. ~ (k < m)
    BY <1>3, <2>1
  <2> QED
    BY <2>1, <2>2
<1> QED
  BY <1>4

(* A set that has 0, and with a number the next, has all.                  *)
LEMMA NaturalsIn ==
  ASSUME NEW S, 0 \in S, \A n \in Nat : n \in S => n + 1 \in S
  PROVE  Nat \subseteq S
<1> SUFFICES ASSUME Nat \ S # {} PROVE FALSE
  OBVIOUS
<1>1. PICK m \in Nat \ S : \A k \in Nat \ S : m <= k
  BY LeastNatural
<1>2. m # 0 /\ m - 1 \in Nat /\ (m - 1) + 1 = m
  BY <1>1
<1>3. m - 1 \in S
  BY <1>1, <1>2
<1> QED
  BY <1>1, <1>2, <1>3

(* The same for the numbers up to m.                                       *)
LEMMA NumbersUpTo ==
  ASSUME NEW m \in Nat, NEW S, 0 \in S, \A n \in 0 .. m - 1 : n \in S => n + 1 \in S
  PROVE  \A n \in 0 .. m : n \in S
<1> DEFINE T == {n \in Nat : n <= m => n \in S}
<1>1. 0 \in T /\ \A n \in Nat : n \in T => n + 1 \in T
  OBVIOUS
<1>2. Nat \subseteq T
  <2> HIDE DEF T
  <2> QED
    BY <1>1, NaturalsIn
<1> QED
  BY <1>2

-----------------------------------------------------------------------------
(* A function given by its value at 0 and by steps, as in the recursive    *)
(* definitions over the prefixes of a sequence, exists.                    *)

Unfolds(f, m, first, step) ==
  f = [n \in 0 .. m |-> IF n = 0 THEN first ELSE step[n][f[n - 1]]]

CanUnfold(m, X, first, step) == \E f \in [0 .. m -> X] : Unfolds(f, m, first, step)

LEMMA UnfoldingExists ==
  ASSUME NEW m \in Nat, NEW X, NEW first \in X, NEW step \in [1 .. m -> [X -> X]]
  PROVE  CanUnfold(m, X, first, step)
<1> DEFINE S == {k \in Nat : k <= m => CanUnfold(k, X, first, step)}
<1>1. 0 \in S
  <2> DEFINE f == [n \in 0 .. 0 |-> first]
  <2>1. f \in [0 .. 0 -> X] /\ f = [n \in 0 .. 0 |-> IF n = 0 THEN first ELSE step[n][f[n - 1]]]
    OBVIOUS
  <2> QED
    BY <2>1 DEF CanUnfold, Unfolds
<1>2. ASSUME NEW k \in Nat, k + 1 <= m, CanUnfold(k, X, first, step)
      PROVE  CanUnfold(k + 1, X, first, step)
  <2>1. PICK f \in [0 .. k -> X] :
               f = [n \in 0 .. k |-> IF n = 0 THEN first ELSE step[n][f[n - 1]]]
    BY <1>2 DEF CanUnfold, Unfolds
  <2> DEFINE last == step[k + 1][f[k]]
             g == [n \in 0 .. k + 1 |-> IF n = k + 1 THEN last ELSE f[n]]
  <2>2. last \in X
    BY <1>2
  <2> HIDE DEF last
  <2>3. \A n \in 0 .. k + 1 : g[n] = IF n = k + 1 THEN last ELSE f[n]
    OBVIOUS
  <2>4. g \in [0 .. k + 1 -> X]
    BY <2>2
  <2>5. \A n \in 0 .. k : f[n] = IF n = 0 THEN first ELSE step[n][f[n - 1]]
    BY <2>1
  <2>6. g = [n \in 0 .. k + 1 |-> g[n]]
    OBVIOUS
  <2> HIDE DEF g
  <2>7. ASSUME NEW n \in 0 .. k + 1
        PROVE  g[n] = IF n = 0 THEN first ELSE step[n][g[n - 1]]
    <3>1. CASE n = k + 1
      <4>1. g[n] = last /\ g[n - 1] = f[k] /\ n # 0
        BY <2>3, <3>1
      <4> QED
        BY <3>1, <4>1 DEF last
    <3>2. CASE n \in 0 .. k
      <4>1. g[n] = f[n] /\ (n # 0 => g[n - 1] = f[n - 1])
        BY <2>3, <3>2
      <4> QED
        BY <2>5, <3>2, <4>1
    <3> QED
      BY <3>1, <3>2
  <2> QED
    BY <2>4, <2>6, <2>7 DEF CanUnfold, Unfolds
<1>3. Nat \subseteq S
  <2>1. \A k \in Nat : k \in S => k + 1 \in S
    BY <1>2
  <2> HIDE DEF S
  <2> QED
    BY <1>1, <2>1, NaturalsIn
<1> QED
  BY <1>3

-----------------------------------------------------------------------------
(* g[n] is the first n sequences joined.                                   *)
FlattenRuns(seqs, g) ==
  g = [i \in 1 .. Len(seqs) |-> IF i = 1 THEN seqs[i] ELSE g[i - 1] \o seqs[i]]

FlattenPrefixes(seqs, g) ==
  /\ \A n \in 1 .. Len(seqs) : g[n] = IF n = 1 THEN seqs[n] ELSE g[n - 1] \o seqs[n]
  /\ FlattenSeq(seqs) = g[Len(seqs)]

LEMMA FlattenDef ==
  ASSUME NEW S, NEW seqs \in Seq(Seq(S)), Len(seqs) # 0
  PROVE  \E g : FlattenPrefixes(seqs, g)
<1> DEFINE m == Len(seqs) - 1
           step == [n \in 1 .. m |-> [x \in Seq(S) |-> x \o seqs[n + 1]]]
           g == CHOOSE f : FlattenRuns(seqs, f)
<1>1. m \in Nat /\ seqs[1] \in Seq(S)
  OBVIOUS
<1>2. ASSUME NEW n \in 1 .. m, NEW x \in Seq(S) PROVE x \o seqs[n + 1] \in Seq(S)
  <2>1. seqs[n + 1] \in Seq(S)
    OBVIOUS
  <2> QED
    BY <2>1
<1>3. step \in [1 .. m -> [Seq(S) -> Seq(S)]]
  BY <1>2
<1>4. \A n \in 1 .. m, x \in Seq(S) : step[n][x] = x \o seqs[n + 1]
  OBVIOUS
<1>5. \E f : FlattenRuns(seqs, f)
  <2> HIDE DEF step, m
  <2>1. PICK h \in [0 .. m -> Seq(S)] : Unfolds(h, m, seqs[1], step)
    BY <1>1, <1>3, UnfoldingExists DEF CanUnfold
  <2> DEFINE f == [i \in 1 .. Len(seqs) |-> h[i - 1]]
  <2>2. \A n \in 0 .. m : h[n] = IF n = 0 THEN seqs[1] ELSE step[n][h[n - 1]]
    BY <2>1 DEF Unfolds
  <2>3. ASSUME NEW i \in 1 .. Len(seqs), i # 1
        PROVE  f[i] = f[i - 1] \o seqs[i]
    <3>1. i - 1 \in 1 .. m /\ (i - 1) - 1 \in 0 .. m /\ i - 1 \in 0 .. m /\ i - 1 # 0
          /\ (i - 1) + 1 = i /\ i - 1 \in 1 .. Len(seqs)
      BY <1>1, <2>3 DEF m
    <3>2. h[i - 1] = step[i - 1][h[(i - 1) - 1]]
      BY <2>2, <3>1
    <3>3. h[(i - 1) - 1] \in Seq(S)
      BY <3>1
    <3>4. step[i - 1][h[(i - 1) - 1]] = h[(i - 1) - 1] \o seqs[i]
      BY <1>4, <3>1, <3>3
    <3> QED
      BY <3>1, <3>2, <3>4
  <2>4. 1 \in 1 .. Len(seqs) => f[1] = seqs[1]
    <3>1. h[0] = seqs[1]
      BY <1>1, <2>2
    <3> QED
      BY <3>1
  <2>5. f = [i \in 1 .. Len(seqs) |-> f[i]]
    OBVIOUS
  <2> HIDE DEF f
  <2>6. \A i \in 1 .. Len(seqs) : f[i] = IF i = 1 THEN seqs[i] ELSE f[i - 1] \o seqs[i]
    BY <2>3, <2>4
  <2> QED
    BY <2>5, <2>6 DEF FlattenRuns
<1>6. FlattenRuns(seqs, g)
  BY <1>5
<1>7. FlattenSeq(seqs) = g[Len(seqs)]
  BY DEF FlattenSeq, FlattenRuns
<1> HIDE DEF g
<1>8. \A n \in 1 .. Len(seqs) : g[n] = IF n = 1 THEN seqs[n] ELSE g[n - 1] \o seqs[n]
  BY <1>6 DEF FlattenRuns
<1> QED
  BY <1>7, <1>8 DEF FlattenPrefixes

LEMMA FlattenType ==
  ASSUME NEW S, NEW seqs \in Seq(Seq(S))
  PROVE  FlattenSeq(seqs) \in Seq(S)
<1>1. CASE Len(seqs) = 0
  <2>1. FlattenSeq(seqs) = << >>
    BY <1>1 DEF FlattenSeq
  <2> QED
    BY <2>1
<1>2. CASE Len(seqs) # 0
  <2>1. PICK g : FlattenPrefixes(seqs, g)
    BY <1>2, FlattenDef
  <2> DEFINE m == Len(seqs) - 1
             T == {n \in 0 .. m : g[n + 1] \in Seq(S)}
  <2>2. /\ m \in Nat /\ m + 1 = Len(seqs) /\ \A n \in 1 .. m + 1 : seqs[n] \in Seq(S)
        /\ \A n \in 1 .. m + 1 : g[n] = IF n = 1 THEN seqs[n] ELSE g[n - 1] \o seqs[n]
    BY <1>2, <2>1 DEF FlattenPrefixes
  <2> HIDE DEF m
  <2>3. 0 \in T
    <3>1. g[1] = seqs[1] /\ seqs[1] \in Seq(S) /\ 0 \in 0 .. m
      BY <2>2
    <3> QED
      BY <3>1
  <2>4. ASSUME NEW n \in 0 .. m - 1, n \in T PROVE n + 1 \in T
    <3>1. n + 1 \in 0 .. m /\ (n + 1) + 1 \in 1 .. m + 1 /\ (n + 1) + 1 # 1
          /\ ((n + 1) + 1) - 1 = n + 1
      BY <2>2
    <3>2. g[(n + 1) + 1] = g[n + 1] \o seqs[(n + 1) + 1] /\ seqs[(n + 1) + 1] \in Seq(S)
      BY <2>2, <3>1
    <3>3. g[n + 1] \in Seq(S)
      BY <2>4
    <3>4. g[(n + 1) + 1] \in Seq(S)
      BY <3>2, <3>3, ConcatProperties
    <3> QED
      BY <3>1, <3>4
  <2>5. m \in T
    <3>1. \A n \in 0 .. m - 1 : n \in T => n + 1 \in T
      BY <2>4
    <3>2. m \in 0 .. m
      BY <2>2
    <3> HIDE DEF T
    <3>3. \A n \in 0 .. m : n \in T
      BY <2>2, <2>3, <3>1, NumbersUpTo
    <3> QED
      BY <3>2, <3>3
  <2> QED
    BY <2>1, <2>2, <2>5 DEF FlattenPrefixes
<1> QED
  BY <1>1, <1>2

(* One sequence more.                                                      *)
LEMMA FlattenAppend ==
  ASSUME NEW S, NEW seqs \in Seq(Seq(S)), NEW s \in Seq(S)
  PROVE  FlattenSeq(Append(seqs, s)) = FlattenSeq(seqs) \o s
<1> DEFINE more == Append(seqs, s)
           m == Len(seqs)
<1>1. /\ more \in Seq(Seq(S)) /\ Len(more) = m + 1 /\ m \in Nat /\ more[m + 1] = s
      /\ \A n \in 1 .. m : more[n] = seqs[n]
  BY AppendProperties
<1> HIDE DEF more
<1>2. PICK g : FlattenPrefixes(more, g)
  <2>1. Len(more) # 0
    BY <1>1
  <2> QED
    BY <1>1, <2>1, FlattenDef
<1> HIDE DEF m
<1>3. /\ \A n \in 1 .. m + 1 : g[n] = IF n = 1 THEN more[n] ELSE g[n - 1] \o more[n]
      /\ FlattenSeq(more) = g[m + 1]
  BY <1>1, <1>2 DEF FlattenPrefixes
<1>4. CASE m = 0
  <2>1. FlattenSeq(seqs) = << >> /\ FlattenSeq(more) = s
    <3>1. seqs = << >>
      BY <1>4, EmptySeq DEF m
    <3>2. FlattenSeq(seqs) = << >>
      BY <3>1 DEF FlattenSeq
    <3> QED
      BY <1>1, <1>3, <1>4, <3>2
  <2> QED
    BY <2>1, ConcatEmptySeq DEF more
<1>5. CASE m # 0
  <2>1. PICK h : FlattenPrefixes(seqs, h)
    BY <1>5, FlattenDef DEF m
  <2>2. /\ \A n \in 1 .. m : h[n] = IF n = 1 THEN seqs[n] ELSE h[n - 1] \o seqs[n]
        /\ FlattenSeq(seqs) = h[m]
    BY <2>1 DEF FlattenPrefixes, m
  <2> DEFINE k == m - 1
             T == {n \in 0 .. k : g[n + 1] = h[n + 1]}
  <2>3. k \in Nat /\ k + 1 = m
    BY <1>1, <1>5
  <2> HIDE DEF k
  <2>4. 0 \in T
    <3>1. 0 \in 0 .. k /\ 1 \in 1 .. m /\ 1 \in 1 .. m + 1 /\ 0 + 1 = 1
      BY <2>3
    <3>2. g[1] = more[1] /\ h[1] = seqs[1] /\ more[1] = seqs[1]
      BY <1>1, <1>3, <2>2, <3>1
    <3> QED
      BY <3>1, <3>2
  <2>5. ASSUME NEW n \in 0 .. k - 1, n \in T PROVE n + 1 \in T
    <3> DEFINE i == (n + 1) + 1
    <3>1. n + 1 \in 0 .. k /\ i \in 1 .. m /\ i \in 1 .. m + 1 /\ i # 1 /\ i - 1 = n + 1
      BY <2>3
    <3>2. g[n + 1] = h[n + 1]
      BY <2>5
    <3> HIDE DEF i
    <3>3. g[i] = g[i - 1] \o more[i] /\ h[i] = h[i - 1] \o seqs[i] /\ more[i] = seqs[i]
      BY <1>1, <1>3, <2>2, <3>1
    <3>4. g[i] = h[i]
      BY <3>1, <3>2, <3>3
    <3> QED
      BY <3>1, <3>4 DEF i
  <2>6. k \in T
    <3>1. \A n \in 0 .. k - 1 : n \in T => n + 1 \in T
      BY <2>5
    <3>2. k \in 0 .. k
      BY <2>3
    <3> HIDE DEF T
    <3>3. \A n \in 0 .. k : n \in T
      BY <2>3, <2>4, <3>1, NumbersUpTo
    <3> QED
      BY <3>2, <3>3
  <2>7. g[m] = h[m]
    BY <2>3, <2>6
  <2>8. m + 1 \in 1 .. m + 1 /\ m + 1 # 1 /\ (m + 1) - 1 = m
    BY <1>1, <1>5
  <2>9. g[m + 1] = g[m] \o s
    BY <1>1, <1>3, <2>8
  <2> QED
    BY <1>3, <2>2, <2>7, <2>9 DEF more
<1> QED
  BY <1>4, <1>5

(* Sequences of one element each joined.                                   *)
LEMMA FlattenSingles ==
  ASSUME NEW S, NEW s \in Seq(S), NEW seqs \in Seq(Seq(S)), Len(seqs) = Len(s),
         \A n \in 1 .. Len(s) : seqs[n] = << s[n] >>
  PROVE  FlattenSeq(seqs) = s
<1>1. CASE Len(seqs) = 0
  <2>1. FlattenSeq(seqs) = << >> /\ s = << >>
    BY <1>1, EmptySeq DEF FlattenSeq
  <2> QED
    BY <2>1
<1>2. CASE Len(seqs) # 0
  <2>1. PICK g : FlattenPrefixes(seqs, g)
    BY <1>2, FlattenDef
  <2> DEFINE m == Len(seqs) - 1
             T == {n \in 0 .. m : g[n + 1] \in Seq(S) /\ g[n + 1] = SubSeq(s, 1, n + 1)}
  <2>2. /\ m \in Nat /\ m + 1 = Len(s)
        /\ \A n \in 1 .. m + 1 : seqs[n] = << s[n] >> /\ s[n] \in S
        /\ \A n \in 1 .. m + 1 : g[n] = IF n = 1 THEN seqs[n] ELSE g[n - 1] \o seqs[n]
    BY <1>2, <2>1 DEF FlattenPrefixes
  <2>3. 0 \in T
    <3>1. g[1] = << s[1] >> /\ s[1] \in S /\ 0 \in 0 .. m /\ 1 \in 1 .. Len(s) /\ 0 + 1 = 1
      BY <2>2
    <3>2. SubSeq(s, 1, 1) \in Seq(S) /\ Len(SubSeq(s, 1, 1)) = 1 /\ SubSeq(s, 1, 1)[1] = s[1]
      BY <3>1, SubSeqProperties
    <3>3. << s[1] >> \in Seq(S) /\ Len(<< s[1] >>) = 1 /\ << s[1] >>[1] = s[1]
      BY <3>1
    <3>4. SubSeq(s, 1, 1) = << s[1] >>
      <4> DEFINE x == SubSeq(s, 1, 1)
                 y == << s[1] >>
      <4>1. x \in Seq(S) /\ y \in Seq(S) /\ Len(x) = Len(y) /\ Len(x) = 1 /\ x[1] = y[1]
        BY <3>2, <3>3
      <4> HIDE DEF x, y
      <4>2. \A i \in 1 .. Len(x) : x[i] = y[i]
        <5>1. \A i \in 1 .. 1 : i = 1
          OBVIOUS
        <5> QED
          BY <4>1, <5>1
      <4>3. x = y
        BY <4>1, <4>2, SeqEqual
      <4> QED
        BY <4>3 DEF x, y
    <3>5. g[0 + 1] \in Seq(S) /\ g[0 + 1] = SubSeq(s, 1, 0 + 1)
      BY <3>1, <3>3, <3>4
    <3> QED
      BY <3>1, <3>5
  <2>4. ASSUME NEW n \in 0 .. m - 1, n \in T PROVE n + 1 \in T
    <3>1. /\ n + 1 \in 0 .. m /\ (n + 1) + 1 \in 1 .. m + 1 /\ (n + 1) + 1 # 1
          /\ ((n + 1) + 1) - 1 = n + 1 /\ 1 \in 1 .. Len(s) /\ (n + 1) + 1 \in 1 .. Len(s)
      BY <2>2
    <3> DEFINE k == (n + 1) + 1
    <3>2. g[k] = g[n + 1] \o << s[k] >> /\ << s[k] >> \in Seq(S)
      <4>1. g[k] = g[k - 1] \o seqs[k] /\ seqs[k] = << s[k] >> /\ s[k] \in S
        <5>1. k \in 1 .. m + 1 /\ k # 1
          BY <3>1
        <5> HIDE DEF k, m
        <5> QED
          BY <2>2, <5>1
      <4> QED
        BY <3>1, <4>1
    <3>3. g[n + 1] \in Seq(S) /\ g[n + 1] = SubSeq(s, 1, k - 1)
      BY <2>4, <3>1
    <3>4. g[k] \in Seq(S)
      BY <3>2, <3>3, ConcatProperties
    <3>5. SubSeq(s, 1, k) = SubSeq(s, 1, k - 1) \o << s[k] >>
      BY <3>1, SubSeqRecursiveSecond
    <3>6. g[k] = SubSeq(s, 1, k)
      BY <3>2, <3>3, <3>5
    <3> QED
      BY <3>1, <3>4, <3>6
  <2>5. m \in T
    <3>1. \A n \in 0 .. m - 1 : n \in T => n + 1 \in T
      BY <2>4
    <3>2. m \in 0 .. m /\ m \in Nat
      BY <2>2
    <3> HIDE DEF T, m
    <3>3. \A n \in 0 .. m : n \in T
      BY <2>3, <3>1, <3>2, NumbersUpTo
    <3> QED
      BY <3>2, <3>3
  <2>6. FlattenSeq(seqs) = SubSeq(s, 1, Len(s))
    BY <2>1, <2>2, <2>5 DEF FlattenPrefixes
  <2> QED
    BY <2>6, SubSeqFull
<1> QED
  BY <1>1, <1>2

-----------------------------------------------------------------------------
(* The largest and the smallest of some of the numbers up to n.            *)
LEMMA MaxProp ==
  ASSUME NEW n \in Nat, NEW X, X \subseteq 1 .. n, X # {}
  PROVE  Max(X) \in X /\ \A y \in X : Max(X) >= y
<1> DEFINE D == {n - x : x \in X}
<1>1. D \subseteq Nat /\ D # {}
  <2>1. \A x \in X : n - x \in Nat
    OBVIOUS
  <2> QED
    BY <2>1
<1> HIDE DEF D
<1>2. PICK d \in D : \A k \in D : d <= k
  BY <1>1, LeastNatural
<1>3. PICK x \in X : d = n - x
  BY <1>2 DEF D
<1>4. ASSUME NEW y \in X PROVE x >= y
  <2>1. n - y \in D
    BY DEF D
  <2>2. n - x <= n - y /\ x \in Nat /\ y \in Nat
    BY <1>2, <1>3, <2>1
  <2> QED
    BY <2>2
<1> QED
  BY <1>4 DEF Max

LEMMA MinProp ==
  ASSUME NEW n \in Nat, NEW X, X \subseteq 1 .. n, X # {}
  PROVE  Min(X) \in X /\ \A y \in X : Min(X) <= y
<1>1. X \subseteq Nat
  OBVIOUS
<1>2. PICK x \in X : \A y \in X : x <= y
  BY <1>1, LeastNatural
<1> QED
  BY <1>2 DEF Min

LEMMA MinIs ==
  ASSUME NEW n \in Nat, NEW X, X \subseteq 1 .. n, NEW x \in X, \A y \in X : x <= y
  PROVE  Min(X) = x
<1>1. Min(X) \in X /\ Min(X) <= x
  <2>1. X # {}
    OBVIOUS
  <2> QED
    BY <2>1, MinProp
<1>2. x <= Min(X) /\ x \in 1 .. n /\ Min(X) \in 1 .. n
  BY <1>1
<1> QED
  BY <1>1, <1>2

LEMMA MaxIs ==
  ASSUME NEW n \in Nat, NEW X, X \subseteq 1 .. n, NEW x \in X, \A y \in X : x >= y
  PROVE  Max(X) = x
<1>1. Max(X) \in X /\ Max(X) >= x
  <2>1. X # {}
    OBVIOUS
  <2> QED
    BY <2>1, MaxProp
<1>2. x >= Max(X) /\ x \in 1 .. n /\ Max(X) \in 1 .. n
  BY <1>1
<1> QED
  BY <1>1, <1>2

=============================================================================
