--------------------------- MODULE SequenceFacts ---------------------------
(***************************************************************************)
(* What the proofs of this project use of numbers, recursive functions and *)
(* sequences.  Induction is stated over a set: a property of numbers is    *)
(* proved for all of them by showing that the set of those that have it is *)
(* closed under successor.                                                 *)
(***************************************************************************)
EXTENDS Integers, Sequences, SequencesExt, FiniteSetTheorems, NaturalsInduction,
        SequenceTheorems, WellFoundedInduction, TLAPS

-----------------------------------------------------------------------------
(* Numbers.                                                                *)

\* Every set of natural numbers that is not empty has a least element.
LEMMA LeastNat ==
    ASSUME NEW T, T \subseteq Nat, T # {}
    PROVE  \E x \in T : \A y \in T : x <= y
<1> DEFINE R == OpToRel(<, Nat)
<1>1. IsWellFoundedOn(R, Nat)
  BY NatLessThanWellFounded
<1>2. \A x, y \in Nat : y < x => <<y, x>> \in R
  BY DEF OpToRel
<1> HIDE DEF R
<1>3. PICK x \in T : \A y \in T : ~(<<y, x>> \in R)
  BY <1>1, WFMin
<1>4. ASSUME NEW y \in T PROVE x <= y
  <2>1. x \in Nat /\ y \in Nat /\ ~(y < x)
    BY <1>2, <1>3
  <2> QED BY <2>1
<1> QED BY <1>4

LEMMA NatInd ==
    ASSUME NEW S, 0 \in S, \A n \in Nat : n \in S => n + 1 \in S
    PROVE  Nat \subseteq S
<1> DEFINE T == Nat \ S
<1> SUFFICES ASSUME T # {} PROVE FALSE
  OBVIOUS
<1>1. PICK x \in T : \A y \in T : x <= y
  BY LeastNat
<1>2. x # 0 /\ x - 1 \in Nat /\ (x - 1) + 1 = x
  OBVIOUS
<1> QED BY <1>1, <1>2

\* Induction up to a bound.
LEMMA RangeInd ==
    ASSUME NEW N \in Nat, NEW S, 0 \in S, \A n \in 1..N : n - 1 \in S => n \in S
    PROVE  0..N \subseteq S
<1> DEFINE T == {n \in Nat : n \in 0..N => n \in S}
<1>1. 0 \in T
  OBVIOUS
<1>2. ASSUME NEW n \in Nat, n \in T PROVE n + 1 \in T
  <2>1. CASE n + 1 \in 1..N
    <3>1. (n + 1) - 1 \in S
      BY <1>2, <2>1
    <3> QED BY <2>1, <3>1
  <2>2. CASE n + 1 \notin 1..N
    BY <2>2
  <2> QED BY <2>1, <2>2
<1> HIDE DEF T
<1>3. Nat \subseteq T
  BY <1>1, <1>2, NatInd
<1> QED BY <1>3 DEF T

\* F gives the next value in V from the number of the step and the value before;
\* f starts with a and takes each value from the one before.
Steps(F, N, V) == F \in [(1..N) \X V -> V]
Follows(f, a, F, N) == f[0] = a /\ \A i \in 1..N : f[i] = F[<<i, f[i - 1]>>]

\* Recursive functions on 0..N exist.
LEMMA Recursion ==
    ASSUME NEW V, NEW a \in V, NEW N \in Nat, NEW F, Steps(F, N, V)
    PROVE  \E f \in [0..N -> V] : Follows(f, a, F, N)
<1>0. F \in [(1..N) \X V -> V]
  BY DEF Steps
<1> DEFINE D == {n \in Nat : \E f \in [0..n -> V] :
                                f[0] = a /\ \A i \in 1..n : f[i] = F[<<i, f[i - 1]>>]}
<1>1. 0 \in D
  <2> DEFINE g == [i \in 0..0 |-> a]
  <2>1. g \in [0..0 -> V] /\ g[0] = a /\ \A i \in 1..0 : g[i] = F[<<i, g[i - 1]>>]
    OBVIOUS
  <2> HIDE DEF g
  <2> QED BY <2>1
<1>2. ASSUME NEW n \in 1..N, n - 1 \in D PROVE n \in D
  <2>0. n - 1 \in Nat /\ n \in Nat
    OBVIOUS
  <2>1. PICK g \in [0..(n - 1) -> V] :
          g[0] = a /\ \A i \in 1..(n - 1) : g[i] = F[<<i, g[i - 1]>>]
    BY <1>2
  <2> DEFINE h == [i \in 0..n |-> IF i = n THEN F[<<n, g[n - 1]>>] ELSE g[i]]
  <2>2. g[n - 1] \in V
    BY <2>0, <2>1
  <2>3. F[<<n, g[n - 1]>>] \in V
    BY <1>0, <2>2
  <2>4. h \in [0..n -> V]
    BY <2>0, <2>1, <2>3
  <2>5. h[0] = a
    BY <2>0, <2>1
  <2>6. ASSUME NEW i \in 1..n PROVE h[i] = F[<<i, h[i - 1]>>]
    <3>1. CASE i = n
      <4>1. h[i] = F[<<n, g[n - 1]>>] /\ h[i - 1] = g[n - 1]
        BY <2>0, <3>1
      <4> QED BY <3>1, <4>1
    <3>2. CASE i # n
      <4>1. i \in 1..(n - 1) /\ h[i] = g[i] /\ h[i - 1] = g[i - 1]
        BY <2>0, <3>2
      <4> QED BY <2>1, <4>1
    <3> QED BY <3>1, <3>2
  <2> HIDE DEF h
  <2> QED BY <2>0, <2>4, <2>5, <2>6
<1> HIDE DEF D
<1>3. N \in D
  BY <1>1, <1>2, RangeInd
<1> QED BY <1>3 DEF D, Follows

-----------------------------------------------------------------------------
(* Sequences.                                                              *)

LEMMA SeqFacts ==
    ASSUME NEW S, NEW s \in Seq(S)
    PROVE  /\ Len(s) \in Nat /\ DOMAIN s = 1..Len(s)
           /\ \A i \in 1..Len(s) : s[i] \in S
           /\ s # <<>> => /\ Len(s) >= 1 /\ Head(s) = s[1] /\ Head(s) \in S
                          /\ Tail(s) \in Seq(S) /\ Len(Tail(s)) = Len(s) - 1
                          /\ DOMAIN Tail(s) = 1..(Len(s) - 1)
                          /\ \A i \in 1..(Len(s) - 1) : Tail(s)[i] = s[i + 1]
           /\ \A x \in S : /\ Append(s, x) \in Seq(S) /\ Len(Append(s, x)) = Len(s) + 1
                            /\ DOMAIN Append(s, x) = 1..(Len(s) + 1)
                            /\ \A i \in 1..(Len(s) + 1) :
                                  Append(s, x)[i] = IF i <= Len(s) THEN s[i] ELSE x
<1>1. /\ Len(s) \in Nat /\ DOMAIN s = 1..Len(s) /\ \A i \in 1..Len(s) : s[i] \in S
  OBVIOUS
<1>2. ASSUME s # <<>>
      PROVE  /\ Len(s) >= 1 /\ Head(s) = s[1] /\ Head(s) \in S
             /\ Tail(s) \in Seq(S) /\ Len(Tail(s)) = Len(s) - 1
             /\ DOMAIN Tail(s) = 1..(Len(s) - 1)
             /\ \A i \in 1..(Len(s) - 1) : Tail(s)[i] = s[i + 1]
  BY <1>2
<1>3. ASSUME NEW x \in S
      PROVE  /\ Append(s, x) \in Seq(S) /\ Len(Append(s, x)) = Len(s) + 1
             /\ DOMAIN Append(s, x) = 1..(Len(s) + 1)
             /\ \A i \in 1..(Len(s) + 1) :
                   Append(s, x)[i] = IF i <= Len(s) THEN s[i] ELSE x
  OBVIOUS
<1> QED BY <1>1, <1>2, <1>3

\* A sequence with an element inserted.
LEMMA InsertFacts ==
    ASSUME NEW S, NEW s \in Seq(S), NEW e \in S, NEW n \in 0..Len(s)
    PROVE  /\ InsertAt(s, n + 1, e) \in Seq(S) /\ Len(InsertAt(s, n + 1, e)) = Len(s) + 1
           /\ DOMAIN InsertAt(s, n + 1, e) = 1..(Len(s) + 1)
           /\ \A j \in 1..(Len(s) + 1) :
                 InsertAt(s, n + 1, e)[j] = IF j <= n THEN s[j] ELSE IF j = n + 1 THEN e ELSE s[j - 1]
<1> DEFINE a == SubSeq(s, 1, n)
           b == SubSeq(s, n + 1, Len(s))
           t == a \o <<e>>
<1>0. Len(s) \in Nat /\ n \in Nat /\ n <= Len(s) /\ (n + 1) - 1 = n
  OBVIOUS
<1>1. a \in Seq(S) /\ Len(a) = n /\ \A j \in 1..n : a[j] = s[j]
  BY <1>0
<1>2. b \in Seq(S) /\ Len(b) = Len(s) - n /\ \A j \in 1..(Len(s) - n) : b[j] = s[n + j]
  BY <1>0
<1>3. InsertAt(s, n + 1, e) = t \o b
  BY <1>0 DEF InsertAt
<1> HIDE DEF a, b
<1>4. t \in Seq(S) /\ Len(t) = n + 1 /\ \A j \in 1..(n + 1) : t[j] = IF j <= n THEN s[j] ELSE e
  BY <1>0, <1>1
<1> HIDE DEF t
<1> DEFINE r == t \o b
<1>5. /\ r \in Seq(S) /\ Len(r) = Len(s) + 1 /\ InsertAt(s, n + 1, e) = r
      /\ \A j \in 1..(Len(s) + 1) : r[j] = IF j <= n + 1 THEN t[j] ELSE b[j - (n + 1)]
  <2>0. t \in Seq(S) /\ b \in Seq(S)
    BY <1>2, <1>4
  <2>1. r \in Seq(S) /\ Len(r) = Len(t) + Len(b)
    BY <2>0, ConcatProperties
  <2>2. \A j \in 1..(Len(t) + Len(b)) : r[j] = IF j <= Len(t) THEN t[j] ELSE b[j - Len(t)]
    BY <1>2, <1>4
  <2>3. Len(t) + Len(b) = Len(s) + 1
    BY <1>0, <1>2, <1>4
  <2> QED BY <1>3, <1>4, <2>1, <2>2, <2>3
<1> HIDE DEF r
<1>6. ASSUME NEW j \in 1..(Len(s) + 1)
      PROVE  r[j] = IF j <= n THEN s[j] ELSE IF j = n + 1 THEN e ELSE s[j - 1]
  <2>1. CASE j <= n + 1
    BY <1>0, <1>4, <1>5, <2>1
  <2>2. CASE ~(j <= n + 1)
    <3>1. /\ j - (n + 1) \in 1..(Len(s) - n) /\ n + (j - (n + 1)) = j - 1
          /\ ~(j <= n) /\ j # n + 1
      BY <1>0, <2>2
    <3>2. r[j] = b[j - (n + 1)] /\ b[j - (n + 1)] = s[n + (j - (n + 1))]
      BY <1>2, <1>5, <2>2, <3>1
    <3> QED BY <3>1, <3>2
  <2> QED BY <2>1, <2>2
<1>7. DOMAIN r = 1..(Len(s) + 1)
  BY <1>5
<1> QED BY <1>5, <1>6, <1>7

\* Induction over sequences, for a set of sequences.
LEMMA SeqInd ==
    ASSUME NEW S, NEW D, <<>> \in D,
           \A s \in Seq(S), x \in S : s \in D => Append(s, x) \in D
    PROVE  Seq(S) \subseteq D
<1> DEFINE T == {n \in Nat : \A s \in Seq(S) : Len(s) = n => s \in D}
<1>1. 0 \in T
  BY EmptySeq
<1>2. ASSUME NEW n \in Nat, n \in T PROVE n + 1 \in T
  <2> SUFFICES ASSUME NEW s \in Seq(S), Len(s) = n + 1 PROVE s \in D
    OBVIOUS
  <2>1. s # <<>>
    BY EmptySeq
  <2>2. PICK t \in Seq(S), x \in S : s = Append(t, x)
    BY <2>1, SequenceEmptyOrAppend
  <2>3. Len(t) = n
    BY <2>2, AppendProperties
  <2> QED BY <1>2, <2>2, <2>3
<1> HIDE DEF T
<1>3. Nat \subseteq T
  BY <1>1, <1>2, NatInd
<1>4. ASSUME NEW s \in Seq(S) PROVE s \in D
  BY <1>3 DEF T
<1> QED BY <1>4

\* How concatenation and appending go together.
LEMMA ConcatAppend ==
    ASSUME NEW S, NEW s \in Seq(S), NEW t \in Seq(S), NEW x \in S
    PROVE  /\ s \o Append(t, x) = Append(s \o t, x)
           /\ s \o t \in Seq(S)
<1>1. /\ Append(t, x) = t \o <<x>> /\ <<x>> \in Seq(S) /\ s \o t \in Seq(S)
      /\ Append(t, x) \in Seq(S)
  BY AppendIsConcat, ConcatProperties, AppendProperties
<1>2. Append(s \o t, x) = (s \o t) \o <<x>>
  BY <1>1, AppendIsConcat
<1> QED BY <1>1, <1>2, ConcatAssociative

LEMMA HeadTailConcat ==
    ASSUME NEW S, NEW s \in Seq(S), s # <<>>
    PROVE  /\ Head(s) \in S /\ Tail(s) \in Seq(S) /\ <<Head(s)>> \in Seq(S)
           /\ s = <<Head(s)>> \o Tail(s) /\ Tail(s) = SubSeq(s, 2, Len(s))
<1>1. Head(s) \in S /\ Tail(s) \in Seq(S) /\ Tail(s) = SubSeq(s, 2, Len(s)) /\ Head(s) = s[1]
  BY HeadTailProperties, TailIsSubSeq, SeqFacts
<1>2. 1 \in 1..Len(s) /\ Len(s) \in 1..Len(s) /\ 1 + 1 = 2
  BY SeqFacts
<1>3. SubSeq(s, 1, Len(s)) = <<s[1]>> \o SubSeq(s, 2, Len(s))
  BY <1>2, SubSeqRecursiveFirst
<1>4. SubSeq(s, 1, Len(s)) = s
  BY SubSeqFull
<1> QED BY <1>1, <1>3, <1>4

\* Associativity, as a name that the provers need not look into.
Assoc(a, b, c) == (a \o b) \o c = a \o (b \o c)

LEMMA SeqAssoc ==
    ASSUME NEW S, NEW a \in Seq(S), NEW b \in Seq(S), NEW c \in Seq(S)
    PROVE  Assoc(a, b, c)
BY ConcatAssociative DEF Assoc

\* A function applied to each element of a sequence.
Each(s, f) == [i \in DOMAIN s |-> f[s[i]]]

IsEach(e, s, f, T) ==
    e \in Seq(T) /\ Len(e) = Len(s) /\ \A i \in 1..Len(s) : e[i] = f[s[i]]

LEMMA EachItem ==
    ASSUME NEW S, NEW T, NEW f \in [S -> T], NEW s \in Seq(S)
    PROVE  IsEach(Each(s, f), s, f, T)
<1>1. Len(s) \in Nat /\ DOMAIN s = 1..Len(s) /\ \A i \in 1..Len(s) : f[s[i]] \in T
  BY SeqFacts
<1>2. Each(s, f) = [i \in 1..Len(s) |-> f[s[i]]]
  BY <1>1 DEF Each
<1>3. Each(s, f) \in Seq(T)
  BY <1>1, <1>2, IsASeq
<1>4. Len(Each(s, f)) = Len(s)
  BY <1>1, <1>2
<1> QED BY <1>2, <1>3, <1>4 DEF IsEach

LEMMA EachFacts ==
    ASSUME NEW S, NEW T, NEW f \in [S -> T]
    PROVE  /\ Each(<<>>, f) = <<>>
           /\ \A s \in Seq(S) : /\ Each(s, f) \in Seq(T) /\ Len(Each(s, f)) = Len(s)
                              /\ \A i \in 1..Len(s) : Each(s, f)[i] = f[s[i]]
           /\ \A x \in S : Each(<<x>>, f) = <<f[x]>>
<1>1. Each(<<>>, f) = <<>>
  BY DEF Each
<1>2. ASSUME NEW s \in Seq(S)
      PROVE  /\ Each(s, f) \in Seq(T) /\ Len(Each(s, f)) = Len(s)
             /\ \A i \in 1..Len(s) : Each(s, f)[i] = f[s[i]]
  <2>1. IsEach(Each(s, f), s, f, T)
    BY EachItem
  <2> QED BY <2>1 DEF IsEach
<1>3. ASSUME NEW x \in S PROVE Each(<<x>>, f) = <<f[x]>>
  BY DEF Each
<1> QED BY <1>1, <1>2, <1>3

Appended(s, x, f) == Each(Append(s, x), f) = Append(Each(s, f), f[x])

LEMMA EachAppended ==
    ASSUME NEW S, NEW T, NEW f \in [S -> T], NEW s \in Seq(S), NEW x \in S
    PROVE  Appended(s, x, f)
<1>1. /\ Append(s, x) \in Seq(S) /\ Len(Append(s, x)) = Len(s) + 1 /\ Len(s) \in Nat
      /\ \A i \in 1..Len(s) : Append(s, x)[i] = s[i]
  BY AppendProperties, SeqFacts
<1>2. Append(s, x)[Len(s) + 1] = x
  BY AppendProperties
<1>3. /\ Each(s, f) \in Seq(T) /\ f[x] \in T /\ Len(Each(s, f)) = Len(s)
      /\ \A i \in 1..Len(s) : Each(s, f)[i] = f[s[i]]
  <2>1. IsEach(Each(s, f), s, f, T)
    BY EachItem
  <2> QED BY <2>1 DEF IsEach
<1> DEFINE l == Each(Append(s, x), f)
           r == Append(Each(s, f), f[x])
<1>4. /\ l \in Seq(T) /\ Len(l) = Len(s) + 1
      /\ \A i \in 1..(Len(s) + 1) : l[i] = f[Append(s, x)[i]]
  <2>1. PICK q \in Seq(S) : q = Append(s, x) /\ Len(q) = Len(s) + 1
    BY <1>1
  <2>2. IsEach(Each(q, f), q, f, T)
    BY EachItem
  <2> QED BY <2>1, <2>2 DEF IsEach
<1>5. /\ r \in Seq(T) /\ Len(r) = Len(s) + 1 /\ r[Len(s) + 1] = f[x]
      /\ \A i \in 1..Len(s) : r[i] = Each(s, f)[i]
  BY <1>3, AppendProperties
<1> HIDE DEF l, r
<1>6. ASSUME NEW i \in 1..(Len(s) + 1) PROVE l[i] = r[i]
  <2>1. CASE i \in 1..Len(s)
    BY <1>1, <1>3, <1>4, <1>5, <2>1
  <2>2. CASE i = Len(s) + 1
    BY <1>2, <1>4, <1>5, <2>2
  <2> QED BY <1>1, <2>1, <2>2
<1>7. l = r
  BY <1>4, <1>5, <1>6, SeqEqual
<1> QED BY <1>7 DEF l, r, Appended

LEMMA EachAppend ==
    ASSUME NEW S, NEW T, NEW f \in [S -> T], NEW s \in Seq(S), NEW x \in S
    PROVE  Each(Append(s, x), f) = Append(Each(s, f), f[x])
<1>1. Appended(s, x, f)
  BY EachAppended
<1> QED BY <1>1 DEF Appended

LEMMA EachConcat ==
    ASSUME NEW S, NEW T, NEW f \in [S -> T], NEW a \in Seq(S), NEW b \in Seq(S)
    PROVE  Each(a \o b, f) = Each(a, f) \o Each(b, f)
<1> DEFINE D == {c \in Seq(S) : Each(a \o c, f) = Each(a, f) \o Each(c, f)}
<1>0. /\ Each(a, f) \in Seq(T) /\ Each(<<>>, f) = <<>>
      /\ \A s \in Seq(S) : Each(s, f) \in Seq(T)
  BY EachFacts
<1>1. <<>> \in D
  BY <1>0, EmptySeq, ConcatEmptySeq
<1>2. ASSUME NEW c \in Seq(S), NEW x \in S, c \in D PROVE Append(c, x) \in D
  <2>1. /\ a \o Append(c, x) = Append(a \o c, x) /\ a \o c \in Seq(S)
        /\ Append(c, x) \in Seq(S)
    BY ConcatAppend, AppendProperties
  <2>2. /\ Each(Append(a \o c, x), f) = Append(Each(a \o c, f), f[x])
        /\ Each(Append(c, x), f) = Append(Each(c, f), f[x])
    <3>1. PICK u \in Seq(S) : u = a \o c
      BY <2>1
    <3>2. Appended(u, x, f) /\ Appended(c, x, f)
      BY EachAppended
    <3> QED BY <3>1, <3>2 DEF Appended
  <2>3. Each(a, f) \o Append(Each(c, f), f[x]) = Append(Each(a, f) \o Each(c, f), f[x])
    <3>1. Each(c, f) \in Seq(T) /\ f[x] \in T
      BY <1>0
    <3> QED BY <1>0, <3>1, ConcatAppend
  <2>4. Each(a \o c, f) = Each(a, f) \o Each(c, f)
    BY <1>2
  <2>5. Each(a \o Append(c, x), f) = Each(a, f) \o Each(Append(c, x), f)
    BY <2>1, <2>2, <2>3, <2>4
  <2> QED BY <2>1, <2>5
<1> HIDE DEF D
<1>3. Seq(S) \subseteq D
  BY <1>1, <1>2, SeqInd
<1> QED BY <1>3 DEF D

\* A sequence falls apart at an index.
LEMMA SplitAt ==
    ASSUME NEW S, NEW s \in Seq(S), NEW i \in 1..Len(s)
    PROVE  LET a == SubSeq(s, 1, i - 1)
               b == SubSeq(s, i + 1, Len(s))
           IN  /\ a \in Seq(S) /\ b \in Seq(S) /\ <<s[i]>> \in Seq(S) /\ s[i] \in S
               /\ s = a \o (<<s[i]>> \o b)
               /\ Len(a) = i - 1 /\ \A j \in 1..(i - 1) : a[j] = s[j]
<1> DEFINE N == Len(s)
           a == SubSeq(s, 1, i - 1)
           b == SubSeq(s, i + 1, N)
<1>1. N \in Nat /\ i \in 1..N /\ \A j \in 1..N : s[j] \in S
  BY SeqFacts
<1>2. /\ a \in Seq(S) /\ Len(a) = IF 1 <= i - 1 THEN (i - 1) - 1 + 1 ELSE 0
      /\ \A j \in 1..((i - 1) - 1 + 1) : a[j] = s[1 + j - 1]
  <2>1. \A j \in 1..(i - 1) : s[j] \in S
    BY <1>1
  <2> QED BY <1>1, <2>1, SubSeqProperties
<1>3. b \in Seq(S)
  <2>1. \A j \in (i + 1)..N : s[j] \in S
    BY <1>1
  <2> QED BY <1>1, <2>1, SubSeqProperties
<1>4. Len(a) = i - 1 /\ \A j \in 1..(i - 1) : a[j] = s[j]
  BY <1>1, <1>2
<1>5. SubSeq(s, i, N) = <<s[i]>> \o b
  BY <1>1, SubSeqRecursiveFirst
<1>6. s = a \o SubSeq(s, i, N)
  <2>1. SubSeq(s, 1, N) = s
    BY SubSeqFull
  <2>2. CASE i = 1
    <3>1. a = <<>>
      BY <2>2, SubSeqEmpty
    <3> QED BY <2>1, <2>2, <3>1, ConcatEmptySeq
  <2>3. CASE i # 1
    <3>1. 1 \in 1..N /\ i - 1 \in 1..N /\ (i - 1) + 1 = i
      BY <1>1, <2>3
    <3> QED BY <1>1, <2>1, <2>3, <3>1, ConcatAdjacentSubSeq
  <2> QED BY <2>2, <2>3
<1>7. <<s[i]>> \in Seq(S) /\ s[i] \in S
  BY <1>1
<1> QED BY <1>2, <1>3, <1>4, <1>5, <1>6, <1>7
=============================================================================
