------------------------ MODULE StreamReceiveProofs ------------------------
(***************************************************************************)
(* Proofs about module StreamReceive: what the receiving half of a stream  *)
(* promises holds for any sizes of segments, reads and buffers.            *)
(*                                                                         *)
(* First come the operators the model is built from: the total of a        *)
(* sequence of sizes and the segments with data, which are homomorphisms   *)
(* of sequences, and the search for the window.                            *)
(***************************************************************************)
EXTENDS StreamReceive, SequenceFacts, TLAPS

-----------------------------------------------------------------------------
(* The total of a sequence of sizes.                                       *)

LEMMA TotalSums ==
    ASSUME NEW s \in Seq(Nat)
    PROVE  \E f \in [0..Len(s) -> Nat] : /\ f[0] = 0
                                         /\ \A n \in 1..Len(s) : f[n] = f[n - 1] + s[n]
                                         /\ Total(s) = f[Len(s)]
<1> DEFINE N == Len(s)
           F == [x \in (1..N) \X Nat |-> x[2] + s[x[1]]]
           IsSum(f) == f = [n \in 0..N |-> IF n = 0 THEN 0 ELSE f[n - 1] + s[n]]
           sum == CHOOSE f : IsSum(f)
<1>1. N \in Nat /\ \A n \in 1..N : s[n] \in Nat
  BY SeqFacts
<1>2. Steps(F, N, Nat)
  BY <1>1 DEF Steps
<1>3. \A n \in 1..N, v \in Nat : F[<<n, v>>] = v + s[n]
  OBVIOUS
<1>4. Total(s) = sum[N]
  BY DEF Total
<1> HIDE DEF F, N
<1>5. PICK f \in [0..N -> Nat] : Follows(f, 0, F, N)
  BY <1>1, <1>2, Recursion
<1>6. ASSUME NEW n \in 1..N PROVE f[n] = f[n - 1] + s[n]
  <2>1. n - 1 \in 0..N
    BY <1>1
  <2> QED BY <1>3, <1>5, <2>1 DEF Follows
<1>7. IsSum(f)
  <2> DEFINE g == [n \in 0..N |-> IF n = 0 THEN 0 ELSE f[n - 1] + s[n]]
  <2>1. ASSUME NEW n \in 0..N PROVE f[n] = g[n]
    BY <1>1, <1>5, <1>6 DEF Follows
  <2>2. DOMAIN f = DOMAIN g /\ f = [n \in DOMAIN f |-> f[n]] /\ g = [n \in DOMAIN g |-> g[n]]
    OBVIOUS
  <2>3. DOMAIN g = 0..N
    OBVIOUS
  <2> HIDE DEF g
  <2>4. f = g
    BY <2>1, <2>2, <2>3
  <2> QED BY <2>4 DEF g
<1>8. IsSum(sum)
  BY <1>7
<1> HIDE DEF sum
<1>9. /\ sum[0] = 0 /\ \A n \in 1..N : sum[n] = sum[n - 1] + s[n]
  <2>1. \A n \in 0..N : sum[n] = IF n = 0 THEN 0 ELSE sum[n - 1] + s[n]
    BY <1>8, Zenon
  <2>2. 0 \in 0..N /\ \A n \in 1..N : n \in 0..N /\ n # 0
    BY <1>1
  <2> QED BY <2>1, <2>2
<1> DEFINE D == {n \in 0..N : sum[n] = f[n]}
<1>10. 0 \in D
  BY <1>1, <1>5, <1>9 DEF Follows
<1>11. ASSUME NEW n \in 1..N, n - 1 \in D PROVE n \in D
  BY <1>1, <1>6, <1>9, <1>11
<1> HIDE DEF D
<1>12. 0..N \subseteq D
  BY <1>1, <1>10, <1>11, RangeInd
<1>13. sum[N] = f[N]
  BY <1>1, <1>12 DEF D
<1> QED BY <1>4, <1>5, <1>6, <1>13 DEF Follows, N

LEMMA TotalAppend ==
    ASSUME NEW s \in Seq(Nat), NEW x \in Nat
    PROVE  Total(Append(s, x)) = Total(s) + x
<1> DEFINE t == Append(s, x)
           N == Len(s)
<1>1. /\ t \in Seq(Nat) /\ Len(t) = N + 1 /\ N \in Nat
      /\ \A i \in 1..N : t[i] = s[i] /\ t[N + 1] = x
  BY AppendProperties, SeqFacts
<1> HIDE DEF t
<1>2. PICK f \in [0..N -> Nat] : /\ f[0] = 0 /\ \A n \in 1..N : f[n] = f[n - 1] + s[n]
                                 /\ Total(s) = f[N]
  BY TotalSums
<1>3. PICK g \in [0..Len(t) -> Nat] : /\ g[0] = 0
                                      /\ \A n \in 1..Len(t) : g[n] = g[n - 1] + t[n]
                                      /\ Total(t) = g[Len(t)]
  BY <1>1, TotalSums
<1> DEFINE D == {n \in 0..N : g[n] = f[n]}
<1> HIDE DEF N
<1>4. 0 \in D
  BY <1>1, <1>2, <1>3
<1>5. ASSUME NEW n \in 1..N, n - 1 \in D PROVE n \in D
  <2>1. n \in 1..(N + 1) /\ n \in 0..N
    BY <1>1
  <2> QED BY <1>1, <1>2, <1>3, <1>5, <2>1
<1> HIDE DEF D
<1>6. 0..N \subseteq D
  BY <1>1, <1>4, <1>5, RangeInd
<1>7. g[N + 1] = g[(N + 1) - 1] + t[N + 1] /\ (N + 1) - 1 = N /\ t[N + 1] = x
  <2>1. N + 1 \in 1..(N + 1)
    BY <1>1
  <2>2. t[N + 1] = x
    BY AppendProperties DEF t, N
  <2> QED BY <1>1, <1>3, <2>1, <2>2
<1>8. g[N] = f[N]
  BY <1>1, <1>6 DEF D
<1>9. Total(t) = Total(s) + x
  BY <1>1, <1>2, <1>3, <1>7, <1>8
<1> QED BY <1>9 DEF t

LEMMA TotalFacts ==
    /\ Total(<<>>) = 0
    /\ \A s \in Seq(Nat) : Total(s) \in Nat
    /\ \A a, b \in Seq(Nat) : Total(a \o b) = Total(a) + Total(b)
<1>1. Total(<<>>) = 0
  <2>1. <<>> \in Seq(Nat) /\ Len(<<>>) = 0
    BY EmptySeq
  <2> QED BY <2>1, TotalSums
<1>2. ASSUME NEW s \in Seq(Nat) PROVE Total(s) \in Nat
  <2>1. PICK f \in [0..Len(s) -> Nat] : Total(s) = f[Len(s)]
    BY TotalSums
  <2>2. Len(s) \in 0..Len(s)
    BY SeqFacts
  <2> QED BY <2>1, <2>2
<1>3. ASSUME NEW a \in Seq(Nat), NEW b \in Seq(Nat)
      PROVE  Total(a \o b) = Total(a) + Total(b)
  <2> DEFINE D == {c \in Seq(Nat) : Total(a \o c) = Total(a) + Total(c)}
  <2>1. <<>> \in D
    BY <1>1, <1>2, EmptySeq, ConcatEmptySeq
  <2>2. ASSUME NEW c \in Seq(Nat), NEW x \in Nat, c \in D PROVE Append(c, x) \in D
    <3>1. /\ a \o Append(c, x) = Append(a \o c, x) /\ a \o c \in Seq(Nat)
          /\ Append(c, x) \in Seq(Nat)
      <4>1. a \o Append(c, x) = Append(a \o c, x)
        BY ConcatAppend
      <4>2. a \o c \in Seq(Nat)
        BY ConcatProperties
      <4>3. Append(c, x) \in Seq(Nat)
        BY AppendProperties
      <4> QED BY <4>1, <4>2, <4>3
    <3>2. Total(Append(a \o c, x)) = Total(a \o c) + x /\ Total(Append(c, x)) = Total(c) + x
      BY <3>1, TotalAppend
    <3>3. Total(a) \in Nat /\ Total(c) \in Nat /\ Total(a \o c) = Total(a) + Total(c)
      BY <1>2, <2>2
    <3>4. Total(a \o Append(c, x)) = Total(a) + Total(Append(c, x))
      BY <3>1, <3>2, <3>3
    <3> QED BY <3>1, <3>4
  <2> HIDE DEF D
  <2>3. Seq(Nat) \subseteq D
    BY <2>1, <2>2, SeqInd
  <2> QED BY <2>3 DEF D
<1> QED BY <1>1, <1>2, <1>3

-----------------------------------------------------------------------------
(* The segments, or datagrams, with data.                                  *)

LEMMA KeptSteps ==
    ASSUME NEW S, NEW s \in Seq(S)
    PROVE  \E f \in [0..Len(s) -> Seq(S)] :
              /\ f[0] = <<>> /\ WithData(s) = f[Len(s)]
              /\ \A n \in 1..Len(s) :
                    f[n] = IF s[n].size > 0 THEN Append(f[n - 1], s[n]) ELSE f[n - 1]
<1> DEFINE N == Len(s)
           Keep(q, n) == IF s[n].size > 0 THEN Append(q, s[n]) ELSE q
           F == [x \in (1..N) \X Seq(S) |-> Keep(x[2], x[1])]
           IsKept(f) == f = [n \in 0..N |-> IF n = 0 THEN <<>> ELSE Keep(f[n - 1], n)]
           kept == CHOOSE f : IsKept(f)
<1>1. N \in Nat /\ \A n \in 1..N : s[n] \in S
  BY SeqFacts
<1>2. Steps(F, N, Seq(S))
  <2>1. \A n \in 1..N, q \in Seq(S) : Keep(q, n) \in Seq(S)
    BY <1>1, AppendProperties
  <2> HIDE DEF Keep
  <2> QED BY <2>1 DEF Steps
<1>3. \A n \in 1..N, v \in Seq(S) : F[<<n, v>>] = Keep(v, n)
  OBVIOUS
<1>4. WithData(s) = kept[N]
  BY DEF WithData
<1> HIDE DEF F, N, Keep
<1>5. PICK f \in [0..N -> Seq(S)] : Follows(f, <<>>, F, N)
  BY <1>1, <1>2, Recursion, EmptySeq
<1>6. ASSUME NEW n \in 1..N PROVE f[n] = Keep(f[n - 1], n)
  <2>1. n - 1 \in 0..N
    BY <1>1
  <2> QED BY <1>3, <1>5, <2>1 DEF Follows
<1>7. IsKept(f)
  <2> DEFINE g == [n \in 0..N |-> IF n = 0 THEN <<>> ELSE Keep(f[n - 1], n)]
  <2>1. ASSUME NEW n \in 0..N PROVE f[n] = g[n]
    BY <1>1, <1>5, <1>6 DEF Follows
  <2>2. DOMAIN f = DOMAIN g /\ f = [n \in DOMAIN f |-> f[n]] /\ g = [n \in DOMAIN g |-> g[n]]
    OBVIOUS
  <2>3. DOMAIN g = 0..N
    OBVIOUS
  <2> HIDE DEF g
  <2>4. f = g
    BY <2>1, <2>2, <2>3
  <2> QED BY <2>4 DEF g
<1>8. IsKept(kept)
  BY <1>7
<1> HIDE DEF kept
<1>9. /\ kept[0] = <<>> /\ \A n \in 1..N : kept[n] = Keep(kept[n - 1], n)
  <2>1. \A n \in 0..N : kept[n] = IF n = 0 THEN <<>> ELSE Keep(kept[n - 1], n)
    BY <1>8, Zenon
  <2>2. 0 \in 0..N /\ \A n \in 1..N : n \in 0..N /\ n # 0
    BY <1>1
  <2> QED BY <2>1, <2>2
<1> DEFINE D == {n \in 0..N : kept[n] = f[n]}
<1>10. 0 \in D
  BY <1>1, <1>5, <1>9 DEF Follows
<1>11. ASSUME NEW n \in 1..N, n - 1 \in D PROVE n \in D
  BY <1>1, <1>6, <1>9, <1>11
<1> HIDE DEF D
<1>12. 0..N \subseteq D
  BY <1>1, <1>10, <1>11, RangeInd
<1>13. kept[N] = f[N]
  BY <1>1, <1>12 DEF D
<1> QED BY <1>4, <1>5, <1>6, <1>13 DEF Follows, N, Keep

LEMMA KeptAppend ==
    ASSUME NEW S, NEW s \in Seq(S), NEW x \in S
    PROVE  WithData(Append(s, x)) = IF x.size > 0 THEN Append(WithData(s), x) ELSE WithData(s)
<1> DEFINE t == Append(s, x)
           N == Len(s)
<1>1. /\ t \in Seq(S) /\ Len(t) = N + 1 /\ N \in Nat
      /\ \A i \in 1..N : t[i] = s[i]
  BY AppendProperties, SeqFacts
<1>2. t[N + 1] = x
  BY AppendProperties
<1> HIDE DEF t
<1>3. PICK f \in [0..Len(s) -> Seq(S)] :
        /\ f[0] = <<>> /\ WithData(s) = f[Len(s)]
        /\ \A n \in 1..Len(s) : f[n] = IF s[n].size > 0 THEN Append(f[n - 1], s[n]) ELSE f[n - 1]
  BY KeptSteps
<1>4. PICK g \in [0..Len(t) -> Seq(S)] :
        /\ g[0] = <<>> /\ WithData(t) = g[Len(t)]
        /\ \A n \in 1..Len(t) : g[n] = IF t[n].size > 0 THEN Append(g[n - 1], t[n]) ELSE g[n - 1]
  <2>1. t \in Seq(S)
    BY <1>1
  <2> QED BY <2>1, KeptSteps
<1> DEFINE D == {n \in 0..N : g[n] = f[n]}
<1>5. 0 \in D
  BY <1>1, <1>3, <1>4
<1>6. ASSUME NEW n \in 1..N, n - 1 \in D PROVE n \in D
  <2>1. n \in 1..Len(t) /\ n \in 1..Len(s) /\ n \in 0..N
    BY <1>1
  <2>2. t[n] = s[n] /\ g[n - 1] = f[n - 1]
    BY <1>1, <1>6
  <2> QED BY <1>3, <1>4, <2>1, <2>2
<1> HIDE DEF D
<1>7. 0..N \subseteq D
  BY <1>1, <1>5, <1>6, RangeInd
<1>8. g[N] = f[N]
  BY <1>1, <1>7 DEF D
<1>9. g[N + 1] = IF x.size > 0 THEN Append(g[N], x) ELSE g[N]
  <2>1. N + 1 \in 1..Len(t) /\ (N + 1) - 1 = N
    BY <1>1
  <2>2. g[N + 1] = IF t[N + 1].size > 0 THEN Append(g[(N + 1) - 1], t[N + 1])
                                        ELSE g[(N + 1) - 1]
    BY <1>4, <2>1
  <2> QED BY <1>2, <2>1, <2>2
<1>10. WithData(t) = g[N + 1] /\ WithData(s) = f[N]
  BY <1>1, <1>3, <1>4
<1>11. WithData(t) = IF x.size > 0 THEN Append(WithData(s), x) ELSE WithData(s)
  BY <1>8, <1>9, <1>10
<1> QED BY <1>11 DEF t

LEMMA KeptFacts ==
    ASSUME NEW S
    PROVE  /\ WithData(<<>>) = <<>>
           /\ \A s \in Seq(S) : WithData(s) \in Seq(S)
           /\ \A a, b \in Seq(S) : WithData(a \o b) = WithData(a) \o WithData(b)
<1>1. WithData(<<>>) = <<>>
  <2>1. PICK e \in Seq(S) : e = <<>> /\ Len(e) = 0
    BY EmptySeq
  <2>2. PICK f \in [0..Len(e) -> Seq(S)] : f[0] = <<>> /\ WithData(e) = f[Len(e)]
    BY KeptSteps
  <2> QED BY <2>1, <2>2
<1>2. ASSUME NEW s \in Seq(S) PROVE WithData(s) \in Seq(S)
  <2>1. PICK f \in [0..Len(s) -> Seq(S)] : WithData(s) = f[Len(s)]
    BY KeptSteps
  <2>2. Len(s) \in 0..Len(s)
    BY SeqFacts
  <2> QED BY <2>1, <2>2
<1>3. ASSUME NEW a \in Seq(S), NEW b \in Seq(S)
      PROVE  WithData(a \o b) = WithData(a) \o WithData(b)
  <2> DEFINE D == {c \in Seq(S) : WithData(a \o c) = WithData(a) \o WithData(c)}
  <2>1. <<>> \in D
    BY <1>1, <1>2, EmptySeq, ConcatEmptySeq
  <2>2. ASSUME NEW c \in Seq(S), NEW x \in S, c \in D PROVE Append(c, x) \in D
    <3>1. /\ a \o Append(c, x) = Append(a \o c, x) /\ a \o c \in Seq(S)
          /\ Append(c, x) \in Seq(S)
      BY ConcatAppend, AppendProperties
    <3>2. /\ WithData(Append(a \o c, x)) = IF x.size > 0 THEN Append(WithData(a \o c), x)
                                                         ELSE WithData(a \o c)
          /\ WithData(Append(c, x)) = IF x.size > 0 THEN Append(WithData(c), x)
                                                    ELSE WithData(c)
      BY <3>1, KeptAppend
    <3>3. WithData(a) \in Seq(S) /\ WithData(c) \in Seq(S)
      BY <1>2, <2>2
    <3>4. WithData(a) \o Append(WithData(c), x) = Append(WithData(a) \o WithData(c), x)
      BY <3>3, ConcatAppend
    <3>5. WithData(a \o c) = WithData(a) \o WithData(c)
      BY <2>2
    <3>6. WithData(a \o Append(c, x)) = WithData(a) \o WithData(Append(c, x))
      BY <3>1, <3>2, <3>4, <3>5
    <3> QED BY <3>1, <3>6
  <2> HIDE DEF D
  <2>3. Seq(S) \subseteq D
    BY <2>1, <2>2, SeqInd
  <2> QED BY <2>3 DEF D
<1> QED BY <1>1, <1>2, <1>3

\* One element; elements without data; elements with data.
LEMMA KeptOne ==
    ASSUME NEW S, NEW x \in S
    PROVE  WithData(<<x>>) = IF x.size > 0 THEN <<x>> ELSE <<>>
<1>1. <<>> \in Seq(S) /\ Append(<<>>, x) = <<x>>
  BY EmptySeq
<1>2. WithData(<<>>) = <<>>
  BY KeptFacts
<1>3. WithData(Append(<<>>, x)) = IF x.size > 0 THEN Append(WithData(<<>>), x) ELSE WithData(<<>>)
  BY <1>1, KeptAppend
<1> QED BY <1>1, <1>2, <1>3

LEMMA KeptNone ==
    ASSUME NEW S, NEW s \in Seq(S), \A i \in 1..Len(s) : ~(s[i].size > 0)
    PROVE  WithData(s) = <<>>
<1> DEFINE T == {x \in S : ~(x.size > 0)}
           D == {q \in Seq(T) : WithData(q) = <<>>}
<1>1. s \in Seq(T)
  <2>1. \A i \in 1..Len(s) : s[i] \in T
    BY SeqFacts
  <2>2. s = [i \in 1..Len(s) |-> s[i]] /\ Len(s) \in Nat
    OBVIOUS
  <2> HIDE DEF T
  <2> QED BY <2>1, <2>2, IsASeq
<1>2. <<>> \in D
  BY EmptySeq, KeptFacts
<1>3. ASSUME NEW q \in Seq(T), NEW x \in T, q \in D PROVE Append(q, x) \in D
  BY <1>3, KeptAppend, AppendProperties
<1> HIDE DEF D
<1>4. Seq(T) \subseteq D
  BY <1>2, <1>3, SeqInd
<1> QED BY <1>1, <1>4 DEF D

LEMMA KeptSome ==
    ASSUME NEW S, NEW s \in Seq(S)
    PROVE  WithData(s) \in Seq({x \in S : x.size > 0})
<1> DEFINE T == {x \in S : x.size > 0}
           D == {q \in Seq(S) : WithData(q) \in Seq(T)}
<1>1. <<>> \in D
  BY EmptySeq, KeptFacts
<1>2. ASSUME NEW q \in Seq(S), NEW x \in S, q \in D PROVE Append(q, x) \in D
  <2>1. WithData(q) \in Seq(T) /\ Append(q, x) \in Seq(S)
    BY <1>2, AppendProperties
  <2>2. CASE x.size > 0
    <3>1. x \in T /\ WithData(Append(q, x)) = Append(WithData(q), x)
      BY <2>2, KeptAppend
    <3> HIDE DEF T
    <3>2. Append(WithData(q), x) \in Seq(T)
      BY <2>1, <3>1, AppendProperties
    <3> QED BY <2>1, <3>1, <3>2
  <2>3. CASE ~(x.size > 0)
    <3>1. WithData(Append(q, x)) = WithData(q)
      BY <2>3, KeptAppend
    <3> QED BY <2>1, <3>1
  <2> QED BY <2>2, <2>3
<1> HIDE DEF D
<1>3. Seq(S) \subseteq D
  BY <1>1, <1>2, SeqInd
<1> QED BY <1>3 DEF D

-----------------------------------------------------------------------------
(* The sizes of a sequence of segments.                                    *)

LEMMA SizesFacts ==
    ASSUME NEW S, \A x \in S : x.size \in Nat
    PROVE  /\ Sizes(<<>>) = <<>>
           /\ \A s \in Seq(S) : Sizes(s) \in Seq(Nat) /\ Len(Sizes(s)) = Len(s)
           /\ \A s \in Seq(S), x \in S : Sizes(Append(s, x)) = Append(Sizes(s), x.size)
           /\ \A x \in S : Sizes(<<x>>) = <<x.size>>
           /\ \A a, b \in Seq(S) : Sizes(a \o b) = Sizes(a) \o Sizes(b)
<1> DEFINE f == [x \in S |-> x.size]
<1>1. f \in [S -> Nat] /\ \A x \in S : f[x] = x.size
  OBVIOUS
<1>2. Sizes(<<>>) = <<>> /\ \A x \in S : Sizes(<<x>>) = <<x.size>>
  BY DEF Sizes
<1> HIDE DEF f
<1>3. ASSUME NEW s \in Seq(S) PROVE Sizes(s) = Each(s, f)
  <2>1. \A i \in DOMAIN s : s[i] \in S
    BY SeqFacts
  <2> QED BY <1>1, <2>1 DEF Sizes, Each
<1>4. \A s \in Seq(S), x \in S : Append(s, x) \in Seq(S)
  BY AppendProperties
<1>5. \A a, b \in Seq(S) : a \o b \in Seq(S)
  BY ConcatProperties
<1>6. ASSUME NEW s \in Seq(S) PROVE Sizes(s) \in Seq(Nat) /\ Len(Sizes(s)) = Len(s)
  <2>1. Each(s, f) \in Seq(Nat) /\ Len(Each(s, f)) = Len(s)
    BY <1>1, EachFacts
  <2> QED BY <1>3, <2>1
<1>7. ASSUME NEW s \in Seq(S), NEW x \in S
      PROVE  Sizes(Append(s, x)) = Append(Sizes(s), x.size)
  <2>1. Each(Append(s, x), f) = Append(Each(s, f), f[x])
    BY <1>1, EachAppend
  <2> QED BY <1>1, <1>3, <1>4, <2>1
<1>8. ASSUME NEW a \in Seq(S), NEW b \in Seq(S) PROVE Sizes(a \o b) = Sizes(a) \o Sizes(b)
  <2>1. Each(a \o b, f) = Each(a, f) \o Each(b, f)
    BY <1>1, EachConcat
  <2> QED BY <1>3, <1>5, <2>1
<1> QED BY <1>2, <1>6, <1>7, <1>8

\* Segments without data do not count.
LEMMA KeptTotal ==
    ASSUME NEW S, \A x \in S : x.size \in Nat, NEW s \in Seq(S)
    PROVE  Total(Sizes(WithData(s))) = Total(Sizes(s))
<1> DEFINE D == {q \in Seq(S) : Total(Sizes(WithData(q))) = Total(Sizes(q))}
<1>1. <<>> \in D
  BY EmptySeq, KeptFacts
<1>2. ASSUME NEW q \in Seq(S), NEW x \in S, q \in D PROVE Append(q, x) \in D
  <2>1. WithData(q) \in Seq(S) /\ Append(q, x) \in Seq(S)
    BY KeptFacts, AppendProperties
  <2>2. /\ Sizes(q) \in Seq(Nat) /\ Sizes(WithData(q)) \in Seq(Nat)
        /\ Sizes(Append(q, x)) = Append(Sizes(q), x.size)
        /\ Sizes(Append(WithData(q), x)) = Append(Sizes(WithData(q)), x.size)
    BY <2>1, SizesFacts
  <2>3. /\ Total(Sizes(Append(q, x))) = Total(Sizes(q)) + x.size
        /\ Total(Sizes(Append(WithData(q), x))) = Total(Sizes(WithData(q))) + x.size
    BY <2>2, TotalAppend
  <2>4. Total(Sizes(WithData(q))) = Total(Sizes(q)) /\ Total(Sizes(q)) \in Nat
    BY <1>2, <2>2, TotalFacts
  <2>5. CASE x.size > 0
    <3>1. WithData(Append(q, x)) = Append(WithData(q), x)
      BY <2>5, KeptAppend
    <3> QED BY <2>1, <2>3, <2>4, <3>1
  <2>6. CASE ~(x.size > 0)
    <3>1. WithData(Append(q, x)) = WithData(q) /\ x.size = 0
      BY <2>6, KeptAppend
    <3> QED BY <2>1, <2>3, <2>4, <3>1
  <2> QED BY <2>5, <2>6
<1> HIDE DEF D
<1>3. Seq(S) \subseteq D
  BY <1>1, <1>2, SeqInd
<1> QED BY <1>3 DEF D

-----------------------------------------------------------------------------
(* The window.                                                             *)

LEMMA ShiftFacts ==
    /\ Shift[0] = 1 /\ \A n \in 1..30 : Shift[n] = 2 * Shift[n - 1]
    /\ \A n \in 0..30 : Shift[n] \in Nat \ {0}
<1> DEFINE V == Nat \ {0}
           F == [x \in (1..30) \X V |-> 2 * x[2]]
           IsShift(f) == f = [n \in 0..30 |-> IF n = 0 THEN 1 ELSE 2 * f[n - 1]]
<1>1. Steps(F, 30, V)
  BY DEF Steps
<1>2. \A n \in 1..30, v \in V : F[<<n, v>>] = 2 * v
  OBVIOUS
<1>3. Shift = CHOOSE f : IsShift(f)
  BY DEF Shift
<1>4. 1 \in V /\ V \subseteq Nat
  OBVIOUS
<1> HIDE DEF F, V
<1>5. PICK f \in [0..30 -> V] : Follows(f, 1, F, 30)
  BY <1>1, <1>4, Recursion
<1>6. ASSUME NEW n \in 1..30 PROVE f[n] = 2 * f[n - 1]
  <2>1. n - 1 \in 0..30
    OBVIOUS
  <2> QED BY <1>2, <1>5, <2>1 DEF Follows
<1>7. IsShift(f)
  <2> DEFINE g == [n \in 0..30 |-> IF n = 0 THEN 1 ELSE 2 * f[n - 1]]
  <2>1. ASSUME NEW n \in 0..30 PROVE f[n] = g[n]
    BY <1>5, <1>6 DEF Follows
  <2>2. DOMAIN f = DOMAIN g /\ f = [n \in DOMAIN f |-> f[n]] /\ g = [n \in DOMAIN g |-> g[n]]
    OBVIOUS
  <2>3. DOMAIN g = 0..30
    OBVIOUS
  <2> HIDE DEF g
  <2>4. f = g
    BY <2>1, <2>2, <2>3
  <2> QED BY <2>4 DEF g
<1>8. IsShift(Shift)
  BY <1>3, <1>7
<1>9. Shift[0] = 1 /\ \A n \in 1..30 : Shift[n] = 2 * Shift[n - 1]
  <2>1. \A n \in 0..30 : Shift[n] = IF n = 0 THEN 1 ELSE 2 * Shift[n - 1]
    BY <1>8, Zenon
  <2>2. 0 \in 0..30 /\ \A n \in 1..30 : n \in 0..30 /\ n # 0
    OBVIOUS
  <2> QED BY <2>1, <2>2
<1> DEFINE D == {n \in 0..30 : Shift[n] \in V}
<1>10. 0 \in D
  BY <1>4, <1>9
<1>11. ASSUME NEW n \in 1..30, n - 1 \in D PROVE n \in D
  BY <1>9, <1>11 DEF V
<1> HIDE DEF D
<1>12. 0..30 \subseteq D
  BY <1>10, <1>11, RangeInd
<1> QED BY <1>9, <1>12 DEF D, V

Fits(i, w) == 2 * Shift[i] - 1 > w /\ \A j \in 0..(i - 1) : 2 * Shift[j] - 1 <= w

\* The search for the window ends, for every size an int can have but one.
LEMMA WindowSearch ==
    ASSUME NEW w \in BufRange
    PROVE  /\ \E i \in 0..30 : Fits(i, w)
           /\ \A i \in 0..30 : Fits(i, w) => Promised(i) <= w /\ w <= 2 * Promised(i)
<1>1. \A n \in 0..30 : Shift[n] \in Nat
  BY ShiftFacts
<1>2. w \in Nat /\ w <= 2 * (Shift[30] - 1)
  BY <1>1 DEF BufRange
<1>3. \E i \in 0..30 : Fits(i, w)
  <2> DEFINE T == {i \in 0..30 : 2 * Shift[i] - 1 > w}
  <2>1. 30 \in T
    BY <1>1, <1>2
  <2>2. PICK i \in T : \A j \in T : i <= j
    <3>1. T \subseteq Nat /\ T # {}
      BY <2>1
    <3> HIDE DEF T
    <3> QED BY <3>1, LeastNat
  <2>3. ASSUME NEW j \in 0..(i - 1) PROVE 2 * Shift[j] - 1 <= w
    <3>1. j \in 0..30 /\ ~(i <= j)
      BY <2>2
    <3>2. ~(2 * Shift[j] - 1 > w)
      BY <2>2, <3>1
    <3> QED BY <1>1, <1>2, <3>1, <3>2
  <2> QED BY <2>2, <2>3 DEF Fits
<1>4. ASSUME NEW i \in 0..30, Fits(i, w) PROVE Promised(i) <= w /\ w <= 2 * Promised(i)
  <2>1. w <= 2 * Promised(i)
    BY <1>1, <1>2, <1>4 DEF Fits, Promised
  <2>2. CASE i = 0
    BY <1>2, <2>1, <2>2, ShiftFacts DEF Promised
  <2>3. CASE i # 0
    <3>1. i \in 1..30 /\ i - 1 \in 0..(i - 1) /\ i - 1 \in 0..30
      BY <2>3
    <3>2. 2 * Shift[i - 1] - 1 <= w /\ Shift[i] = 2 * Shift[i - 1]
      BY <1>4, <3>1, ShiftFacts DEF Fits
    <3> QED BY <1>1, <1>2, <2>1, <3>1, <3>2 DEF Promised
  <2> QED BY <2>2, <2>3
<1> QED BY <1>3, <1>4

\* What recalculate_receive_window calculates.
LEMMA WindowFacts ==
    ASSUME NEW size \in BufRange, NEW r, r.used \in Nat, r.used = r.avail
    PROVE  /\ WindowByte(r, size) \in 0..30
           /\ Promised(WindowByte(r, size)) <= Larger(0, size - r.used)
           /\ Larger(0, size - r.used) <= 2 * Promised(WindowByte(r, size))
<1> DEFINE w == Larger(0, size - r.used)
<1>1. w \in BufRange
  BY ShiftFacts DEF Larger, BufRange
<1>2. ~(r.avail = 0 /\ r.used > 0)
  OBVIOUS
<1>3. WindowByte(r, size) = CHOOSE i \in 0..30 : Fits(i, w)
  BY <1>2 DEF WindowByte, Fits
<1> HIDE DEF w
<1>4. WindowByte(r, size) \in 0..30 /\ Fits(WindowByte(r, size), w)
  BY <1>1, <1>3, WindowSearch
<1> QED BY <1>1, <1>4, WindowSearch DEF w

-----------------------------------------------------------------------------
(* The states of the receive buffer.  The queued segments determine all    *)
(* counters: every segment with data is a record of its own.               *)

Seg == [id : Nat, size : SegSizes]

Cell(a, b, c, d, e, f) ==
    [segs |-> a, recs |-> b, avail |-> c, recAvail |-> d, used |-> e, endRead |-> f]

Rx(queue, end) ==
    Cell(queue, Sizes(WithData(queue)), Total(Sizes(queue)), 0, Total(Sizes(queue)), end)

\* The values of endRead, as names that the provers need not take for formulas.
Open == FALSE
Shut == TRUE

RxStates == {Rx(queue, Open) : queue \in Seq(Seg)} \cup {Rx(<<>>, Shut)}

LEMMA CellFields ==
    ASSUME NEW a, NEW b, NEW c, NEW d, NEW e, NEW f
    PROVE  LET r == Cell(a, b, c, d, e, f)
           IN  /\ r.segs = a /\ r.recs = b /\ r.avail = c /\ r.recAvail = d /\ r.used = e
               /\ r.endRead = f
BY DEF Cell

LEMMA SetSegs ==
    ASSUME NEW a, NEW b, NEW c, NEW d, NEW e, NEW f, NEW x
    PROVE  [Cell(a, b, c, d, e, f) EXCEPT !.segs = x] = Cell(x, b, c, d, e, f)
BY DEF Cell

LEMMA SetRecs ==
    ASSUME NEW a, NEW b, NEW c, NEW d, NEW e, NEW f, NEW x
    PROVE  [Cell(a, b, c, d, e, f) EXCEPT !.recs = x] = Cell(a, x, c, d, e, f)
BY DEF Cell

LEMMA SetFirst ==
    ASSUME NEW a, NEW b, NEW c, NEW d, NEW e, NEW f, NEW x
    PROVE  [Cell(a, b, c, d, e, f) EXCEPT !.recs[1] = x] = Cell(a, [b EXCEPT ![1] = x], c, d, e, f)
BY DEF Cell

LEMMA SetAvail ==
    ASSUME NEW a, NEW b, NEW c, NEW d, NEW e, NEW f, NEW x
    PROVE  [Cell(a, b, c, d, e, f) EXCEPT !.avail = x] = Cell(a, b, x, d, e, f)
BY DEF Cell

LEMMA SetRecAvail ==
    ASSUME NEW a, NEW b, NEW c, NEW d, NEW e, NEW f, NEW x
    PROVE  [Cell(a, b, c, d, e, f) EXCEPT !.recAvail = x] = Cell(a, b, c, x, e, f)
BY DEF Cell

LEMMA SetUsed ==
    ASSUME NEW a, NEW b, NEW c, NEW d, NEW e, NEW f, NEW x
    PROVE  [Cell(a, b, c, d, e, f) EXCEPT !.used = x] = Cell(a, b, c, d, x, f)
BY DEF Cell

LEMMA SetEnd ==
    ASSUME NEW a, NEW b, NEW c, NEW d, NEW e, NEW f, NEW x
    PROVE  [Cell(a, b, c, d, e, f) EXCEPT !.endRead = x] = Cell(a, b, c, d, e, x)
BY DEF Cell

LEMMA SegSized == \A x \in Seg : x.size \in Nat /\ x.size \in SegSizes /\ x.id \in Nat
BY SizeAssumption DEF Seg

LEMMA RxFields ==
    ASSUME NEW r \in RxStates
    PROVE  /\ r.segs \in Seq(Seg) /\ r = Rx(r.segs, r.endRead) /\ r.endRead \in BOOLEAN
           /\ r.endRead => r.segs = <<>>
           /\ r.recs = Sizes(WithData(r.segs)) /\ r.recs \in Seq(Nat)
           /\ r.avail = Total(Sizes(r.segs)) /\ r.avail \in Nat
           /\ r.used = r.avail /\ r.recAvail = 0
<1>1. PICK q \in Seq(Seg), e \in {Open, Shut} : r = Rx(q, e) /\ (e = Open \/ q = <<>>)
  <2>1. <<>> \in Seq(Seg)
    BY EmptySeq
  <2> QED BY <2>1 DEF RxStates
<1>2. WithData(q) \in Seq(Seg)
  BY KeptFacts
<1>3. Sizes(q) \in Seq(Nat) /\ Sizes(WithData(q)) \in Seq(Nat)
  BY <1>2, SegSized, SizesFacts
<1>4. Total(Sizes(q)) \in Nat
  BY <1>3, TotalFacts
<1>5. r = Cell(q, Sizes(WithData(q)), Total(Sizes(q)), 0, Total(Sizes(q)), e)
  BY <1>1 DEF Rx
<1>6. /\ r.segs = q /\ r.recs = Sizes(WithData(q)) /\ r.avail = Total(Sizes(q))
      /\ r.used = Total(Sizes(q)) /\ r.recAvail = 0 /\ r.endRead = e
  BY <1>5, CellFields
<1>7. e \in BOOLEAN /\ (e => q = <<>>)
  BY <1>1, Zenon DEF Open, Shut
<1>8. r.endRead \in BOOLEAN /\ (r.endRead => q = <<>>)
  BY <1>6, <1>7, Zenon
<1> QED BY <1>1, <1>3, <1>4, <1>6, <1>8

\* A new stream, and one that was shut down for reading.
LEMMA EmptyIsRx == Empty = Rx(<<>>, Open) /\ [Empty EXCEPT !.endRead = TRUE] = Rx(<<>>, Shut)
<1>1. Sizes(<<>>) = <<>>
  BY SegSized, SizesFacts
<1>2. WithData(<<>>) = <<>>
  BY KeptFacts
<1>3. Total(<<>>) = 0
  BY TotalFacts
<1>4. Empty = Cell(<<>>, <<>>, 0, 0, 0, Open)
  BY Zenon DEF Empty, Cell, Open
<1>5. [Empty EXCEPT !.endRead = Shut] = Cell(<<>>, <<>>, 0, 0, 0, Shut)
  BY <1>4, SetEnd
<1>6. Rx(<<>>, Open) = Cell(<<>>, <<>>, 0, 0, 0, Open) /\ Rx(<<>>, Shut) = Cell(<<>>, <<>>, 0, 0, 0, Shut)
  BY <1>1, <1>2, <1>3 DEF Rx
<1>7. [Empty EXCEPT !.endRead = Shut] = Rx(<<>>, Shut)
  BY <1>5, <1>6
<1>8. Shut = TRUE
  BY DEF Shut
<1> QED BY <1>4, <1>6, <1>7, <1>8, Zenon

\* The first segment and the rest.
LEMMA FirstSegment ==
    ASSUME NEW q \in Seq(Seg), q # <<>>
    PROVE  /\ Head(q) \in Seg /\ Tail(q) \in Seq(Seg)
           /\ Total(Sizes(q)) = Head(q).size + Total(Sizes(Tail(q)))
           /\ WithData(q) = WithData(<<Head(q)>>) \o WithData(Tail(q))
           /\ Head(q).size > 0 =>
                 /\ WithData(<<Head(q)>>) = <<Head(q)>>
                 /\ Sizes(WithData(q)) = <<Head(q).size>> \o Sizes(WithData(Tail(q)))
           /\ Head(q).size = 0 =>
                 WithData(<<Head(q)>>) = <<>> /\ WithData(q) = WithData(Tail(q))
<1> DEFINE x == Head(q)
           t == Tail(q)
<1>1. x \in Seg /\ t \in Seq(Seg) /\ <<x>> \in Seq(Seg) /\ q = <<x>> \o t /\ x.size \in Nat
  BY HeadTailConcat, SegSized
<1> HIDE DEF x, t
<1>2. WithData(q) = WithData(<<x>>) \o WithData(t) /\ WithData(t) \in Seq(Seg)
  BY <1>1, KeptFacts
<1>3. WithData(<<x>>) = IF x.size > 0 THEN <<x>> ELSE <<>>
  BY <1>1, KeptOne
<1>4. /\ Sizes(q) = Sizes(<<x>>) \o Sizes(t) /\ Sizes(<<x>>) = <<x.size>>
      /\ Sizes(t) \in Seq(Nat) /\ Sizes(<<x>>) \in Seq(Nat)
  BY <1>1, SegSized, SizesFacts
<1>5. Total(<<x.size>>) = x.size
  <2>1. Append(<<>>, x.size) = <<x.size>> /\ <<>> \in Seq(Nat)
    BY EmptySeq
  <2>2. Total(Append(<<>>, x.size)) = Total(<<>>) + x.size
    BY <1>1, <2>1, TotalAppend
  <2> QED BY <1>1, <2>1, <2>2, TotalFacts
<1>6. Total(Sizes(q)) = x.size + Total(Sizes(t))
  <2>1. PICK a \in Seq(Nat), b \in Seq(Nat) : a = Sizes(<<x>>) /\ b = Sizes(t)
    BY <1>4
  <2>2. Total(a \o b) = Total(a) + Total(b)
    BY TotalFacts
  <2> QED BY <1>4, <1>5, <2>1, <2>2
<1>7. ASSUME x.size > 0
      PROVE  WithData(<<x>>) = <<x>> /\ Sizes(WithData(q)) = <<x.size>> \o Sizes(WithData(t))
  <2>1. WithData(<<x>>) = <<x>> /\ WithData(q) = <<x>> \o WithData(t)
    BY <1>2, <1>3, <1>7
  <2>2. Sizes(<<x>> \o WithData(t)) = Sizes(<<x>>) \o Sizes(WithData(t))
    BY <1>1, <1>2, SegSized, SizesFacts
  <2> QED BY <1>4, <2>1, <2>2
<1>8. ASSUME x.size = 0 PROVE WithData(<<x>>) = <<>> /\ WithData(q) = WithData(t)
  <2>1. WithData(<<x>>) = <<>> /\ WithData(q) = <<>> \o WithData(t)
    BY <1>2, <1>3, <1>8
  <2>2. PICK k \in Seq(Seg) : k = WithData(t)
    BY <1>2
  <2>3. <<>> \o k = k
    BY ConcatEmptySeq
  <2> QED BY <2>1, <2>2, <2>3
<1> QED BY <1>1, <1>2, <1>6, <1>7, <1>8 DEF x, t

\* One turn of read_data.  A segment with data is a whole record and ends the
\* read; after one without, the stream may be shut down for reading.
LEMMA TurnFacts ==
    ASSUME NEW l, l.r \in RxStates, l.r.avail > 0
    PROVE  LET q == l.r.segs
               k == ReadTurn(l)
           IN  /\ ~l.r.endRead /\ q # <<>>
               /\ k.left = l.left - Head(q).size /\ k.out = Append(l.out, Head(q))
               /\ Head(q).size > 0 => k.r = Rx(Tail(q), Open) /\ k.stop = TRUE
               /\ Head(q).size = 0 => /\ k.r \in {Rx(Tail(q), Open), Rx(<<>>, Shut)}
                                      /\ k.stop = FALSE
               /\ k = [r |-> k.r, left |-> k.left, out |-> k.out, stop |-> k.stop]
<1> DEFINE q == l.r.segs
           x == Head(q)
           t == Tail(q)
           k == ReadTurn(l)
           T(s) == Total(Sizes(s))
           R(s) == Sizes(WithData(s))
           cropped == TakeSegment(l.r)
           ends == l.r.recs # <<>> /\ cropped.recs[1] = 0
<1>1. /\ q \in Seq(Seg) /\ l.r = Rx(q, l.r.endRead) /\ l.r.endRead \in BOOLEAN
      /\ l.r.endRead => q = <<>>
      /\ l.r.recs = R(q) /\ R(q) \in Seq(Nat) /\ l.r.avail = T(q)
  BY RxFields
<1>2. q # <<>> /\ ~l.r.endRead
  <2>1. Sizes(<<>>) = <<>>
    BY SegSized, SizesFacts
  <2>2. T(<<>>) = 0
    BY <2>1, TotalFacts
  <2> QED BY <1>1, <2>2
<1>3. /\ x \in Seg /\ t \in Seq(Seg) /\ T(q) = x.size + T(t) /\ x.size \in Nat
      /\ T(t) \in Nat /\ R(t) \in Seq(Nat)
  <2>1. x \in Seg /\ t \in Seq(Seg) /\ T(q) = x.size + T(t)
    BY <1>1, <1>2, FirstSegment
  <2>2. WithData(t) \in Seq(Seg)
    BY <2>1, KeptFacts
  <2>3. Sizes(t) \in Seq(Nat) /\ R(t) \in Seq(Nat)
    BY <2>1, <2>2, SegSized, SizesFacts
  <2> QED BY <2>1, <2>3, SegSized, TotalFacts
<1>4. R(q) # <<>>
  <2>1. Total(R(q)) = T(q)
    BY <1>1, SegSized, KeptTotal
  <2> QED BY <1>1, <2>1, TotalFacts
<1>5. l.r = Cell(q, R(q), T(q), 0, T(q), Open)
  <2>1. l.r = Cell(q, R(q), T(q), 0, T(q), l.r.endRead)
    BY <1>1 DEF Rx
  <2>2. l.r.endRead = Open
    BY <1>1, <1>2, Zenon DEF Open
  <2> QED BY <2>1, <2>2
<1>6. Rx(t, Open) = Cell(t, R(t), T(t), 0, T(t), Open)
  BY DEF Rx
<1>7. cropped = Cell(t, [R(q) EXCEPT ![1] = R(q)[1] - x.size], T(q) - x.size, 0, T(q) - x.size,
                   Open)
  <2> DEFINE R0 == l.r
             Q == R(q)
             A == T(q)
             B == A - x.size
             rest == [R0 EXCEPT !.segs = t, !.avail = B, !.used = B]
  <2> HIDE DEF Q, A, R0
  <2>1. R0 = Cell(q, Q, A, 0, A, Open) /\ Q # <<>>
    BY <1>4, <1>5 DEF Q, A, R0
  <2>2. R0.segs = q /\ R0.recs = Q /\ R0.avail = A /\ R0.used = A
    BY <2>1, CellFields
  <2>3. cropped = [rest EXCEPT !.recs[1] = Q[1] - x.size]
    BY <2>1, <2>2 DEF TakeSegment, R0
  <2> HIDE DEF q, x, t, B
  <2> DEFINE r1 == [R0 EXCEPT !.segs = t]
             r2 == [r1 EXCEPT !.avail = B]
  <2>4. rest = [r2 EXCEPT !.used = B]
    OBVIOUS
  <2>5. r1 = Cell(t, Q, A, 0, A, Open)
    BY <2>1, SetSegs
  <2> HIDE DEF r1
  <2>6. r2 = Cell(t, Q, B, 0, A, Open)
    BY <2>5, SetAvail
  <2> HIDE DEF r2, rest
  <2>7. rest = Cell(t, Q, B, 0, B, Open)
    BY <2>4, <2>6, SetUsed
  <2>8. cropped = Cell(t, [Q EXCEPT ![1] = Q[1] - x.size], B, 0, B, Open)
    BY <2>3, <2>7, SetFirst
  <2> QED BY <2>8 DEF Q, A, B
<1>8. T(q) - x.size = T(t)
  BY <1>3
<1>9. k = [r |-> IF ends THEN [cropped EXCEPT !.recs = Tail(cropped.recs)]
                 ELSE ShutRead(cropped, linkUp),
           left |-> l.left - x.size, out |-> Append(l.out, x), stop |-> ends]
  BY DEF ReadTurn
<1> HIDE DEF k, q, x, t, cropped, R, T
<1>10. ASSUME x.size > 0 PROVE k.r = Rx(t, Open) /\ k.stop = TRUE
  <2>1. R(q) = <<x.size>> \o R(t)
    BY <1>1, <1>2, <1>10, FirstSegment DEF R, x, t
  <2> DEFINE c == [R(q) EXCEPT ![1] = R(q)[1] - x.size]
  <2>2. R(q)[1] = x.size /\ Len(R(q)) = 1 + Len(R(t)) /\ DOMAIN R(q) = 1..Len(R(q))
    BY <1>1, <1>3, <2>1
  <2>3. c[1] = 0
    BY <1>1, <1>3, <1>4, <2>2
  <2>4. Tail(c) = R(t)
    <3>1. Len(R(t)) \in Nat /\ \A i \in 1..Len(R(t)) : R(q)[i + 1] = R(t)[i]
      BY <1>3, <2>1
    <3>2. c \in Seq(Int) /\ Len(c) = 1 + Len(R(t))
      BY <1>1, <1>3, <2>2
    <3>3. \A i \in 1..Len(R(t)) : c[i + 1] = R(t)[i]
      BY <1>1, <2>2, <3>1
    <3> HIDE DEF c
    <3>4. Tail(c) \in Seq(Int) /\ Len(Tail(c)) = Len(R(t)) /\ R(t) \in Seq(Int)
          /\ \A i \in 1..Len(R(t)) : Tail(c)[i] = c[i + 1]
      BY <1>3, <3>1, <3>2, EmptySeq, HeadTailProperties
    <3>5. \A i \in 1..Len(R(t)) : Tail(c)[i] = R(t)[i]
      BY <3>3, <3>4
    <3> QED BY <3>4, <3>5, SeqEqual
  <2> HIDE DEF c
  <2>5. cropped = Cell(t, c, T(t), 0, T(t), Open)
    BY <1>7, <1>8 DEF c
  <2>6. ends = TRUE
    <3>1. cropped.recs = c /\ l.r.recs # <<>>
      BY <1>1, <1>4, <2>5, CellFields
    <3>2. cropped.recs[1] = 0 /\ l.r.recs # <<>>
      BY <2>3, <3>1
    <3> QED BY <3>2, Zenon
  <2>7. [cropped EXCEPT !.recs = Tail(cropped.recs)] = Rx(t, Open)
    <3>1. cropped.recs = c
      BY <2>5, CellFields
    <3>2. [cropped EXCEPT !.recs = R(t)] = Cell(t, R(t), T(t), 0, T(t), Open)
      BY <2>5, SetRecs
    <3> QED BY <1>6, <2>4, <3>1, <3>2
  <2> QED BY <1>9, <2>6, <2>7
<1>11. ASSUME x.size = 0
       PROVE  k.r \in {Rx(t, Open), Rx(<<>>, Shut)} /\ k.stop = FALSE
  <2>1. R(q) = R(t)
    BY <1>1, <1>2, <1>11, FirstSegment DEF R, x, t
  <2>2. R(q)[1] \in Nat \ {0}
    <3>1. WithData(q) \in Seq({y \in Seg : y.size > 0})
      BY <1>1, KeptSome
    <3>2. WithData(q) # <<>>
      <4>1. Sizes(<<>>) = <<>>
        BY SegSized, SizesFacts
      <4> QED BY <1>4, <4>1 DEF R
    <3>3. /\ WithData(q)[1] \in {y \in Seg : y.size > 0} /\ 1 \in DOMAIN WithData(q)
      BY <3>1, <3>2, SeqFacts
    <3>4. R(q)[1] = WithData(q)[1].size
      BY <3>3 DEF R, Sizes
    <3> QED BY <3>3, <3>4, SegSized
  <2>3. [R(q) EXCEPT ![1] = R(q)[1] - x.size] = R(q)
    <3>1. R(q)[1] - x.size = R(q)[1]
      BY <1>11, <2>2
    <3> QED BY <1>1, <3>1
  <2>4. cropped = Rx(t, Open)
    BY <1>6, <1>7, <1>8, <2>1, <2>3
  <2>5. cropped.recs[1] # 0
    <3>1. cropped.recs = R(t)
      BY <1>6, <2>4, CellFields
    <3> QED BY <2>1, <2>2, <3>1
  <2>6. ends = FALSE
    BY <2>5, Zenon
  <2>7. ShutRead(cropped, linkUp) \in {Rx(t, Open), Rx(<<>>, Shut)}
    <3>1. [Empty EXCEPT !.endRead = TRUE] = Rx(<<>>, Shut)
      BY EmptyIsRx
    <3>2. CASE linkUp /\ ~cropped.endRead
      BY <3>1, <3>2 DEF ShutRead
    <3>3. CASE ~(linkUp /\ ~cropped.endRead)
      BY <2>4, <3>3 DEF ShutRead
    <3> QED BY <3>2, <3>3
  <2> QED BY <1>9, <2>6, <2>7
<1>12. k.left = l.left - x.size /\ k.out = Append(l.out, x)
       /\ k = [r |-> k.r, left |-> k.left, out |-> k.out, stop |-> k.stop]
  BY <1>9
<1> QED BY <1>2, <1>10, <1>11, <1>12 DEF k, q, x, t

-----------------------------------------------------------------------------
(* The loop of read_data.                                                  *)

\* What a read that began with r may leave behind: it took at most one record,
\* and unless it shut the stream, what it took and what is left is what was
\* there.
Reads(l, r) ==
    /\ l.r \in RxStates /\ l.out \in Seq(Seg)
    /\ Len(WithData(l.out)) <= 1
    /\ r.endRead => l.r.endRead
    /\ ~l.r.endRead => WithData(l.out) \o WithData(l.r.segs) = WithData(r.segs)

\* Before the read ends, nothing was taken; it ends when a record x is taken.
Turns(r, max) ==
    {l \in [r : RxStates, left : Int, out : Seq(Seg), stop : BOOLEAN] :
        /\ Reads(l, r)
        /\ ~l.stop => WithData(l.out) = <<>> /\ l.left = max
        /\ l.stop => \E x \in Seg : x.size > 0 /\ WithData(l.out) = <<x>> /\ l.left = max - x.size}

LEMMA TurnReads ==
    ASSUME NEW r, NEW max \in Int, NEW l \in Turns(r, max), ~l.stop, l.r.avail > 0
    PROVE  /\ ReadTurn(l) \in Turns(r, max)
           /\ Len(ReadTurn(l).r.segs) + 1 <= Len(l.r.segs)
<1> DEFINE q == l.r.segs
           x == Head(q)
           t == Tail(q)
           k == ReadTurn(l)
<1>1. /\ l.r \in RxStates /\ l.left \in Int /\ l.out \in Seq(Seg) /\ WithData(l.out) = <<>>
      /\ Reads(l, r) /\ l.left = max
  BY DEF Turns
<1>2. /\ ~l.r.endRead /\ q # <<>> /\ q \in Seq(Seg)
      /\ k.left = l.left - x.size /\ k.out = Append(l.out, x)
      /\ x.size > 0 => k.r = Rx(t, Open) /\ k.stop = TRUE
      /\ x.size = 0 => k.r \in {Rx(t, Open), Rx(<<>>, Shut)} /\ k.stop = FALSE
      /\ k = [r |-> k.r, left |-> k.left, out |-> k.out, stop |-> k.stop]
  BY <1>1, TurnFacts, RxFields
<1>3. /\ x \in Seg /\ t \in Seq(Seg) /\ x.size \in Nat
      /\ WithData(q) = WithData(<<x>>) \o WithData(t)
      /\ x.size > 0 => WithData(<<x>>) = <<x>>
      /\ x.size = 0 => WithData(<<x>>) = <<>>
  BY <1>2, FirstSegment, SegSized
<1> HIDE DEF q, x, t, k
<1>4. Rx(t, Open).segs = t /\ Rx(t, Open).endRead = Open /\ Rx(<<>>, Shut).endRead = Shut
  BY CellFields DEF Rx
<1>5. k.r \in RxStates /\ k.stop \in BOOLEAN /\ k.left \in Int /\ k.out \in Seq(Seg)
  <2>1. k.r \in {Rx(t, Open), Rx(<<>>, Shut)} /\ k.stop \in BOOLEAN
    <3>1. CASE x.size > 0
      BY <1>2, <3>1
    <3>2. CASE x.size = 0
      BY <1>2, <3>2
    <3>3. x.size > 0 \/ x.size = 0
      BY <1>3
    <3> QED BY <3>1, <3>2, <3>3
  <2>2. k.r \in RxStates
    BY <1>3, <2>1 DEF RxStates
  <2>3. k.left \in Int
    BY <1>1, <1>2, <1>3
  <2>4. k.out \in Seq(Seg)
    BY <1>1, <1>2, <1>3, AppendProperties
  <2> QED BY <2>1, <2>2, <2>3, <2>4
<1>6. WithData(k.out) = WithData(<<x>>)
  <2>1. WithData(k.out) = IF x.size > 0 THEN Append(WithData(l.out), x) ELSE WithData(l.out)
    BY <1>1, <1>2, <1>3, KeptAppend
  <2> QED BY <1>1, <1>3, <2>1
<1>7. Len(WithData(k.out)) <= 1 /\ (~k.stop => WithData(k.out) = <<>>)
  <2>1. CASE x.size > 0
    <3>1. WithData(k.out) = <<x>> /\ k.stop
      BY <1>2, <1>3, <1>6, <2>1
    <3>2. Len(<<x>>) = 1
      OBVIOUS
    <3> QED BY <3>1, <3>2
  <2>2. CASE x.size = 0
    <3>1. WithData(k.out) = <<>> /\ Len(<<>>) = 0
      BY <1>3, <1>6, <2>2
    <3> QED BY <3>1
  <2> QED BY <1>3, <2>1, <2>2
<1>8. ~r.endRead /\ WithData(q) = WithData(r.segs)
  <2>1. ~r.endRead /\ WithData(l.out) \o WithData(q) = WithData(r.segs)
    BY <1>1, <1>2 DEF Reads, q
  <2>2. WithData(q) \in Seq(Seg)
    BY <1>2, KeptFacts
  <2>3. <<>> \o WithData(q) = WithData(q)
    BY <2>2, ConcatEmptySeq
  <2> QED BY <1>1, <2>1, <2>3
<1>9. ~k.r.endRead => WithData(k.out) \o WithData(k.r.segs) = WithData(r.segs)
  <2>1. k.r \in {Rx(t, Open), Rx(<<>>, Shut)}
    <3>1. CASE x.size > 0
      BY <1>2, <3>1
    <3>2. CASE x.size = 0
      BY <1>2, <3>2
    <3>3. x.size > 0 \/ x.size = 0
      BY <1>3
    <3> QED BY <3>1, <3>2, <3>3
  <2>2. ~k.r.endRead => k.r.segs = t
    <3>1. CASE k.r = Rx(t, Open)
      BY <1>4, <3>1
    <3>2. CASE k.r = Rx(<<>>, Shut)
      BY <1>4, <3>2, Zenon DEF Shut
    <3> QED BY <2>1, <3>1, <3>2
  <2> QED BY <1>3, <1>6, <1>8, <2>2
<1>10. Reads(k, r)
  BY <1>5, <1>7, <1>8, <1>9 DEF Reads
<1>11. k \in [r : RxStates, left : Int, out : Seq(Seg), stop : BOOLEAN]
  <2> DEFINE kr == k.r
             kl == k.left
             ko == k.out
             ks == k.stop
  <2>1. k = [r |-> kr, left |-> kl, out |-> ko, stop |-> ks]
    BY <1>2
  <2>2. kr \in RxStates /\ kl \in Int /\ ko \in Seq(Seg) /\ ks \in BOOLEAN
    BY <1>5
  <2> HIDE DEF kr, kl, ko, ks
  <2> QED BY <2>1, <2>2
<1>12. ~k.stop => k.left = max
  <2>1. ~k.stop => x.size = 0
    BY <1>2, <1>3
  <2> QED BY <1>1, <1>2, <2>1
<1>13. k.stop => \E y \in Seg : y.size > 0 /\ WithData(k.out) = <<y>> /\ k.left = max - y.size
  <2> SUFFICES ASSUME k.stop PROVE x.size > 0 /\ WithData(k.out) = <<x>> /\ k.left = max - x.size
    BY <1>3
  <2>1. x.size > 0
    BY <1>2, <1>3
  <2> QED BY <1>1, <1>2, <1>3, <1>6, <2>1
<1>14. k \in Turns(r, max)
  BY <1>7, <1>10, <1>11, <1>12, <1>13 DEF Turns
<1>15. Len(k.r.segs) + 1 <= Len(q)
  <2>1. k.r.segs = t \/ k.r.segs = <<>>
    <3>1. Rx(<<>>, Shut).segs = <<>>
      BY CellFields DEF Rx
    <3>2. CASE x.size > 0
      BY <1>2, <1>4, <3>2
    <3>3. CASE x.size = 0
      BY <1>2, <1>4, <3>1, <3>3
    <3> QED BY <1>3, <3>2, <3>3
  <2>2. Len(q) \in Nat /\ Len(q) # 0 /\ Len(<<>>) = 0
    BY <1>2, EmptySeq, SeqFacts
  <2>3. Len(t) = Len(q) - 1
    BY <1>2, HeadTailProperties DEF t
  <2> QED BY <2>1, <2>2, <2>3
<1> QED BY <1>14, <1>15 DEF k, q

\* The condition of the loop is false.
Done(l) == l.stop \/ l.left <= 0 \/ l.r.avail <= 0

LEMMA LoopReads ==
    ASSUME NEW r \in RxStates, NEW max \in Int
    PROVE  /\ ReadLoop(r, max) \in Turns(r, max)
           /\ Len(ReadLoop(r, max).r.segs) <= Len(r.segs)
           /\ Len(r.segs) <= MaxSegments => Done(ReadLoop(r, max))
<1> DEFINE N == MaxSegments
           V == Turns(r, max)
           a == [r |-> r, left |-> max, out |-> <<>>, stop |-> FALSE]
           Step(l) == IF l.stop \/ l.left <= 0 \/ l.r.avail <= 0 THEN l ELSE ReadTurn(l)
           F == [x \in (1..N) \X V |-> Step(x[2])]
           IsLoop(f) == f = [n \in 0..N |-> IF n = 0 THEN a ELSE Step(f[n - 1])]
           loop == CHOOSE f : IsLoop(f)
           Short(l, n) == \/ Done(l) /\ Len(l.r.segs) <= Len(r.segs)
                          \/ Len(l.r.segs) + n <= Len(r.segs)
<1>1. N \in Nat
  BY CountAssumption
<1>0. ASSUME NEW l \in V
      PROVE  /\ Step(l) \in V /\ l.r \in RxStates
             /\ IF Done(l) THEN Step(l) = l ELSE Len(Step(l).r.segs) + 1 <= Len(l.r.segs)
  <2>1. l.r \in RxStates /\ l.r.avail \in Nat /\ l.stop \in BOOLEAN /\ l.left \in Int
    BY RxFields DEF Turns
  <2>2. ~(l.stop \/ l.left <= 0 \/ l.r.avail <= 0) => ~l.stop /\ l.r.avail > 0
    BY <2>1
  <2>3. CASE Done(l)
    BY <2>1, <2>3 DEF Done
  <2>4. CASE ~Done(l)
    <3>1. Step(l) = ReadTurn(l)
      BY <2>4 DEF Done
    <3>2. ~l.stop /\ l.r.avail > 0
      BY <2>2, <2>4 DEF Done
    <3> HIDE DEF Step
    <3> QED BY <2>1, <2>4, <3>1, <3>2, TurnReads
  <2> QED BY <2>3, <2>4
<1>2. ASSUME NEW l \in V PROVE Step(l) \in V
  BY <1>0
<1>3. a \in V
  <2>1. /\ <<>> \in Seq(Seg) /\ WithData(<<>>) = <<>> /\ WithData(r.segs) \in Seq(Seg)
        /\ Len(<<>>) = 0
    BY EmptySeq, RxFields, KeptFacts
  <2>2. a.r = r /\ a.out = <<>> /\ a.left = max /\ a.stop = FALSE
    OBVIOUS
  <2>3. <<>> \o WithData(r.segs) = WithData(r.segs)
    BY <2>1, ConcatEmptySeq
  <2>4. Reads(a, r)
    BY <2>1, <2>2, <2>3 DEF Reads
  <2>5. a \in [r : RxStates, left : Int, out : Seq(Seg), stop : BOOLEAN]
    BY <2>1
  <2> HIDE DEF a
  <2> QED BY <2>1, <2>2, <2>4, <2>5 DEF Turns
<1>4. ReadLoop(r, max) = loop[N]
  BY DEF ReadLoop
<1>16. a.r = r
  OBVIOUS
<1> HIDE DEF Step, V, a, N
<1>5. Steps(F, N, V)
  BY <1>2 DEF Steps
<1>6. \A n \in 1..N, v \in V : F[<<n, v>>] = Step(v)
  OBVIOUS
<1> HIDE DEF F
<1>7. PICK f \in [0..N -> V] : Follows(f, a, F, N)
  BY <1>1, <1>3, <1>5, Recursion
<1>8. ASSUME NEW n \in 1..N PROVE f[n] = Step(f[n - 1])
  <2>1. n - 1 \in 0..N
    BY <1>1
  <2> QED BY <1>6, <1>7, <2>1 DEF Follows
<1>9. IsLoop(f)
  <2> DEFINE g == [n \in 0..N |-> IF n = 0 THEN a ELSE Step(f[n - 1])]
  <2>1. ASSUME NEW n \in 0..N PROVE f[n] = g[n]
    BY <1>1, <1>7, <1>8 DEF Follows
  <2>2. DOMAIN f = DOMAIN g /\ f = [n \in DOMAIN f |-> f[n]] /\ g = [n \in DOMAIN g |-> g[n]]
    OBVIOUS
  <2>3. DOMAIN g = 0..N
    OBVIOUS
  <2> HIDE DEF g
  <2>4. f = g
    BY <2>1, <2>2, <2>3
  <2> QED BY <2>4 DEF g
<1>10. IsLoop(loop)
  BY <1>9
<1> HIDE DEF loop
<1>11. loop[0] = a /\ \A n \in 1..N : loop[n] = Step(loop[n - 1])
  <2>1. \A n \in 0..N : loop[n] = IF n = 0 THEN a ELSE Step(loop[n - 1])
    BY <1>10, Zenon
  <2>2. 0 \in 0..N /\ \A n \in 1..N : n \in 0..N /\ n # 0
    BY <1>1
  <2> QED BY <2>1, <2>2
<1> DEFINE D == {n \in 0..N : loop[n] \in V /\ Short(loop[n], n)}
<1>17. Len(r.segs) \in Nat
  BY RxFields, SeqFacts
<1>18. ASSUME NEW l \in V PROVE Len(l.r.segs) \in Nat
  <2>1. l.r \in RxStates
    BY <1>0
  <2> QED BY <2>1, RxFields, SeqFacts
<1>12. 0 \in D
  BY <1>1, <1>3, <1>11, <1>16, <1>17
<1>13. ASSUME NEW n \in 1..N, n - 1 \in D PROVE n \in D
  <2> DEFINE l == loop[n - 1]
             k == loop[n]
  <2>1. l \in V /\ Short(l, n - 1) /\ k = Step(l) /\ n \in 0..N /\ n \in Int
    BY <1>1, <1>11, <1>13
  <2>2. k \in V /\ (IF Done(l) THEN k = l ELSE Len(k.r.segs) + 1 <= Len(l.r.segs))
    BY <1>0, <2>1
  <2> HIDE DEF l, k
  <2>3. Len(k.r.segs) \in Nat /\ Len(l.r.segs) \in Nat
    BY <1>18, <2>1, <2>2
  <2>4. CASE Done(l)
    <3>1. Len(l.r.segs) <= Len(r.segs)
      BY <1>17, <2>1, <2>3
    <3> QED BY <2>1, <2>2, <2>4, <3>1 DEF k
  <2>5. CASE ~Done(l)
    <3>1. Len(k.r.segs) + n <= Len(r.segs)
      BY <1>17, <2>1, <2>2, <2>3, <2>5
    <3> QED BY <2>1, <2>2, <3>1 DEF k
  <2> QED BY <2>4, <2>5
<1> HIDE DEF D
<1>14. 0..N \subseteq D
  BY <1>1, <1>12, <1>13, RangeInd
<1>15. loop[N] \in V /\ Short(loop[N], N)
  BY <1>1, <1>14 DEF D
<1> DEFINE z == loop[N]
<1>19. z.r \in RxStates /\ z \in V /\ Short(z, N) /\ Len(z.r.segs) \in Nat
  BY <1>0, <1>15, <1>18
<1> HIDE DEF z
<1>20. Len(z.r.segs) <= Len(r.segs)
  BY <1>1, <1>17, <1>19
<1>21. Len(r.segs) <= N => Done(z)
  <2> SUFFICES ASSUME Len(r.segs) <= N, ~Done(z) PROVE FALSE
    OBVIOUS
  <2>1. Len(z.r.segs) = 0
    BY <1>1, <1>17, <1>19
  <2>2. z.r.segs \in Seq(Seg) /\ z.r.avail = Total(Sizes(z.r.segs))
    BY <1>19, RxFields
  <2>3. z.r.segs = <<>>
    BY <2>1, <2>2, EmptySeq
  <2>4. Sizes(<<>>) = <<>> /\ Total(<<>>) = 0
    BY SizesFacts, TotalFacts, SegSized
  <2> QED BY <2>2, <2>3, <2>4 DEF Done
<1> QED BY <1>4, <1>19, <1>20, <1>21 DEF V, z, N

-----------------------------------------------------------------------------
(* The invariant of the stream data.                                       *)

RInv ==
    /\ rx \in RxStates /\ linkUp \in BOOLEAN /\ stale \in BOOLEAN
    /\ bufSize \in BufRange /\ bufSize >= MinBuf
    /\ winByte \in 0..30 /\ WindowTight
    /\ delivered \in Seq(Seg) /\ taken \in Seq(Seg) /\ NothingLost
    /\ Len(rx.segs) <= MaxSegments

LEMMA Recalculated ==
    ASSUME rx' \in RxStates, bufSize' \in BufRange, winByte' = WindowByte(rx', bufSize')
    PROVE  winByte' \in 0..30 /\ WindowTight'
<1>1. rx'.used \in Nat /\ rx'.used = rx'.avail
  BY RxFields
<1>2. /\ winByte' \in 0..30
      /\ Promised(winByte') <= Larger(0, bufSize' - rx'.used)
      /\ Larger(0, bufSize' - rx'.used) <= 2 * Promised(winByte')
  BY <1>1, WindowFacts
<1> QED BY <1>2 DEF WindowTight

\* The records among segments of which only x has data.
LEMMA CutOne ==
    ASSUME NEW out, NEW max, NEW x, WithData(out) = <<x>>
    PROVE  \A c \in Cut(out, max) : c.max = max /\ c.size = x.size
<1>1. ToSet(<<x>>) = {x}
  BY DEF ToSet
<1> QED BY <1>1 DEF Cut

\* A read that takes a record has room for it, or max is too small.
Fair(l, whole, max) == whole \/ \A c \in Cut(l.out, max) : c.max < c.size

\* After a read, of data or of a record.
LEMMA AfterReadPreserves ==
    ASSUME RInv, NEW l, NEW whole \in BOOLEAN, NEW max, Reads(l, rx), Len(l.r.segs) <= Len(rx.segs),
           Fair(l, whole, max), AfterRead(l, whole, max)
    PROVE  RInv' /\ Len(taken') <= Len(taken) + 1
<1>1. /\ rx' = l.r /\ taken' = taken \o WithData(l.out) /\ winByte' = WindowByte(rx', bufSize)
      /\ stale' = FALSE /\ linkUp' = linkUp /\ bufSize' = bufSize /\ delivered' = delivered
  BY DEF AfterRead, Recalculate
<1>8. \A c \in cut' : c.max < c.size
  <2>1. cut' \subseteq cut \cup Cut(l.out, max) /\ (whole => cut' = cut)
    BY DEF AfterRead
  <2>2. \A c \in cut : c.max < c.size
    BY DEF RInv, NothingLost
  <2> QED BY <2>1, <2>2 DEF Fair
<1>9. Len(rx'.segs) <= MaxSegments
  <2>1. Len(rx.segs) \in Nat /\ Len(l.r.segs) \in Nat /\ Len(rx.segs) <= MaxSegments
    BY RxFields, SeqFacts DEF RInv, Reads
  <2> QED BY <1>1, <2>1, CountAssumption
<1>2. /\ l.r \in RxStates /\ l.out \in Seq(Seg) /\ Len(WithData(l.out)) <= 1
      /\ rx.endRead => l.r.endRead
      /\ ~l.r.endRead => WithData(l.out) \o WithData(l.r.segs) = WithData(rx.segs)
  BY DEF Reads
<1>3. winByte' \in 0..30 /\ WindowTight'
  BY <1>1, <1>2, Recalculated DEF RInv
<1>4. WithData(l.out) \in Seq(Seg) /\ WithData(l.r.segs) \in Seq(Seg)
  BY <1>2, RxFields, KeptFacts
<1>5. taken' \in Seq(Seg) /\ Len(taken') = Len(taken) + Len(WithData(l.out))
  BY <1>1, <1>4, ConcatProperties DEF RInv
<1>6. Len(taken') <= Len(taken) + 1
  BY <1>2, <1>4, <1>5, SeqFacts DEF RInv
<1>7. NothingLost'
  <2> SUFFICES ASSUME ~rx'.endRead PROVE taken' \o WithData(rx'.segs) = delivered'
    BY <1>8 DEF NothingLost
  <2>1. ~l.r.endRead /\ ~rx.endRead
    BY <1>1, <1>2
  <2>2. taken \o WithData(rx.segs) = delivered
    BY <2>1 DEF RInv, NothingLost
  <2>3. (taken \o WithData(l.out)) \o WithData(l.r.segs) = taken \o (WithData(l.out) \o WithData(l.r.segs))
    <3>1. taken \in Seq(Seg)
      BY DEF RInv
    <3> QED BY <1>4, <3>1, ConcatAssociative
  <2> QED BY <1>1, <1>2, <2>1, <2>2, <2>3
<1> QED BY <1>1, <1>2, <1>3, <1>5, <1>6, <1>7, <1>9 DEF RInv

\* The data of a read overruns the buffer only if max is too small.
LEMMA TurnFair ==
    ASSUME NEW r, NEW max \in Int, NEW l \in Turns(r, max)
    PROVE  Fair(l, l.left >= 0, max)
<1>1. l.left \in Int /\ l.stop \in BOOLEAN
  BY DEF Turns
<1>2. CASE l.stop
  <2>1. PICK x \in Seg : x.size > 0 /\ WithData(l.out) = <<x>> /\ l.left = max - x.size
    BY <1>2 DEF Turns
  <2>2. \A c \in Cut(l.out, max) : c.max = max /\ c.size = x.size
    BY <2>1, CutOne
  <2>3. x.size \in Int
    BY SegSized
  <2>4. l.left >= 0 \/ max < x.size
    BY <2>1, <2>3
  <2> QED BY <2>2, <2>4 DEF Fair
<1>3. CASE ~l.stop
  <2>1. WithData(l.out) = <<>>
    BY <1>3 DEF Turns
  <2>2. Cut(l.out, max) = {}
    BY <2>1 DEF Cut, ToSet
  <2> QED BY <2>2 DEF Fair
<1> QED BY <1>1, <1>2, <1>3

LEMMA ReadDataPreserves ==
    ASSUME RInv, NEW max \in ReadSizes, ReadData(max)
    PROVE  RInv' /\ Len(taken') <= Len(taken) + 1
<1>1. max \in Int /\ rx \in RxStates
  BY SizeAssumption DEF RInv
<1> DEFINE l == ReadLoop(rx, max)
<1>2. l \in Turns(rx, max) /\ Len(l.r.segs) <= Len(rx.segs)
  BY <1>1, LoopReads
<1>3. AfterRead(l, l.left >= 0, max)
  BY DEF ReadData
<1> HIDE DEF l
<1>4. Reads(l, rx)
  BY <1>2 DEF Turns
<1>5. Fair(l, l.left >= 0, max)
  BY <1>1, <1>2, TurnFair
<1>6. (l.left >= 0) \in BOOLEAN
  OBVIOUS
<1> QED BY <1>2, <1>3, <1>4, <1>5, <1>6, AfterReadPreserves

\* A queue with a record has bytes.
LEMMA RecordsAvail ==
    ASSUME NEW r \in RxStates, r.recs # <<>>
    PROVE  r.avail > 0
<1>1. /\ r.segs \in Seq(Seg) /\ r.recs = Sizes(WithData(r.segs)) /\ r.avail \in Nat
      /\ r.avail = Total(Sizes(r.segs))
  BY RxFields
<1> DEFINE k == WithData(r.segs)
           Full == {x \in Seg : x.size > 0}
<1>2. k \in Seq(Seg) /\ k \in Seq(Full) /\ Total(Sizes(k)) = r.avail
  BY <1>1, SegSized, KeptFacts, KeptSome, KeptTotal
<1>3. k # <<>>
  BY <1>1, SegSized, SizesFacts
<1>4. Head(k) \in Full
  <2> HIDE DEF k, Full
  <2> QED BY <1>2, <1>3, HeadTailProperties
<1> HIDE DEF k
<1>5. Total(Sizes(k)) = Head(k).size + Total(Sizes(Tail(k))) /\ Tail(k) \in Seq(Seg)
  BY <1>2, <1>3, FirstSegment
<1>6. Total(Sizes(Tail(k))) \in Nat
  BY <1>5, SegSized, SizesFacts, TotalFacts
<1> QED BY <1>2, <1>4, <1>5, <1>6, SegSized

LEMMA ReadRecordPreserves ==
    ASSUME RInv, NEW max \in ReadSizes, ReadRecord(max)
    PROVE  RInv' /\ Len(taken') <= Len(taken) + 1
<1> DEFINE first == ReadLoop(rx, max)
           total == Total(Sizes(first.r.segs))
           skip == ReadLoop(first.r, total)
           both == [skip EXCEPT !.out = first.out \o skip.out]
<1>1. /\ rx.recs # <<>>
      /\ IF Len(first.r.recs) = Len(rx.recs) THEN AfterRead(both, FALSE, max)
         ELSE AfterRead(first, first.left >= 0, max)
  BY DEF ReadRecord
<1>2. max \in Int /\ rx \in RxStates
  BY SizeAssumption DEF RInv
<1>6. /\ first \in Turns(rx, max) /\ Len(first.r.segs) <= Len(rx.segs) /\ Done(first)
  BY <1>2, LoopReads DEF RInv
<1> HIDE DEF first
<1>3. Reads(first, rx)
  BY <1>6 DEF Turns
<1>4. CASE Len(first.r.recs) # Len(rx.recs)
  <2>1. Fair(first, first.left >= 0, max)
    BY <1>2, <1>6, TurnFair
  <2>2. (first.left >= 0) \in BOOLEAN
    OBVIOUS
  <2>3. AfterRead(first, first.left >= 0, max)
    BY <1>1, <1>4
  <2> QED BY <1>3, <1>6, <2>1, <2>2, <2>3, AfterReadPreserves
<1>5. CASE Len(first.r.recs) = Len(rx.recs)
  <2>1. /\ first.r \in RxStates /\ first.out \in Seq(Seg)
        /\ rx.endRead => first.r.endRead
        /\ ~first.r.endRead => WithData(first.out) \o WithData(first.r.segs) = WithData(rx.segs)
    BY <1>3 DEF Reads
  <2>2. /\ first.r.segs \in Seq(Seg) /\ first.r.endRead \in BOOLEAN
        /\ first.r.endRead => first.r.segs = <<>>
        /\ first.r.recs = Sizes(WithData(first.r.segs)) /\ first.r.avail \in Nat
        /\ first.r.avail = total
    BY <2>1, RxFields
  <2>3. rx.recs = Sizes(WithData(rx.segs)) /\ rx.recs \in Seq(Nat) /\ rx.segs \in Seq(Seg)
    BY <1>2, RxFields
  <2>4. /\ WithData(first.out) \in Seq(Seg) /\ WithData(first.r.segs) \in Seq(Seg)
        /\ WithData(rx.segs) \in Seq(Seg) /\ WithData(<<>>) = <<>>
    BY <2>1, <2>2, <2>3, KeptFacts
  <2>5. /\ Len(first.r.recs) = Len(WithData(first.r.segs))
        /\ Len(rx.recs) = Len(WithData(rx.segs)) /\ Sizes(<<>>) = <<>>
    BY <2>2, <2>3, <2>4, SegSized, SizesFacts
  <2>6. ~first.r.endRead
    <3>1. Len(rx.recs) # 0
      BY <1>1, <2>3, EmptySeq
    <3>2. Len(<<>>) = 0
      OBVIOUS
    <3> QED BY <1>5, <2>2, <2>4, <2>5, <3>1, <3>2
  <2>7. Len(WithData(rx.segs)) = Len(WithData(first.out)) + Len(WithData(first.r.segs))
    BY <2>1, <2>4, <2>6, ConcatProperties
  <2>8. WithData(first.out) = <<>>
    <3>1. Len(WithData(first.out)) = 0
      <4>1. Len(WithData(first.out)) \in Nat /\ Len(WithData(first.r.segs)) \in Nat
        BY <2>4, SeqFacts
      <4>2. Len(WithData(first.r.segs)) = Len(WithData(rx.segs))
        BY <1>5, <2>5
      <4> QED BY <2>7, <4>1, <4>2
    <3> QED BY <2>4, <3>1, EmptySeq
  <2>9. WithData(first.r.segs) = WithData(rx.segs) /\ ~rx.endRead
    <3>1. <<>> \o WithData(first.r.segs) = WithData(first.r.segs)
      BY <2>4, ConcatEmptySeq
    <3> QED BY <2>1, <2>6, <2>8, <3>1
  <2>10. total \in Int
    BY <2>2
  <2> HIDE DEF total
  <2>11. skip \in Turns(first.r, total) /\ Len(skip.r.segs) <= Len(first.r.segs)
    BY <2>1, <2>10, LoopReads
  <2>12. /\ skip \in [r : RxStates, left : Int, out : Seq(Seg), stop : BOOLEAN]
         /\ skip.out \in Seq(Seg) /\ Len(WithData(skip.out)) <= 1 /\ skip.r \in RxStates
         /\ ~skip.r.endRead => WithData(skip.out) \o WithData(skip.r.segs) = WithData(first.r.segs)
    BY <2>11 DEF Turns, Reads
  <2> HIDE DEF skip
  <2>13. both.r = skip.r /\ both.out = first.out \o skip.out
    BY <2>12
  <2>14. first.out \o skip.out \in Seq(Seg)
    BY <2>1, <2>12, ConcatProperties
  <2>15. WithData(first.out \o skip.out) = WithData(skip.out)
    <3>1. WithData(first.out \o skip.out) = WithData(first.out) \o WithData(skip.out)
      BY <2>1, <2>12, KeptFacts
    <3>2. WithData(skip.out) \in Seq(Seg)
      BY <2>12, KeptFacts
    <3> QED BY <2>8, <3>1, <3>2, ConcatEmptySeq
  <2> HIDE DEF both
  <2>16. Reads(both, rx)
    BY <2>9, <2>12, <2>13, <2>14, <2>15 DEF Reads
  <2>17. AfterRead(both, FALSE, max)
    BY <1>1, <1>5
  <2>18. max <= 0
    <3>1. first.stop \in BOOLEAN /\ first.left \in Int
      BY <1>6 DEF Turns
    <3>2. ~first.stop
      <4> SUFFICES ASSUME first.stop PROVE FALSE
        OBVIOUS
      <4>1. PICK x \in Seg : WithData(first.out) = <<x>>
        BY <1>6 DEF Turns
      <4> QED BY <2>8, <4>1
    <3>3. first.left = max
      BY <1>6, <3>2 DEF Turns
    <3>4. first.r.avail > 0
      BY <1>1, <2>1, <2>2, <2>3, <2>9, RecordsAvail
    <3> QED BY <1>2, <1>6, <2>2, <3>2, <3>3, <3>4 DEF Done
  <2>19. Fair(both, FALSE, max)
    <3> SUFFICES ASSUME NEW c \in Cut(both.out, max) PROVE c.max < c.size
      BY DEF Fair
    <3>1. CASE ~skip.stop
      <4>1. WithData(skip.out) = <<>>
        BY <2>11, <3>1 DEF Turns
      <4>2. Cut(both.out, max) = {}
        BY <2>13, <2>15, <4>1 DEF Cut, ToSet
      <4> QED BY <4>2
    <3>2. CASE skip.stop
      <4>1. PICK x \in Seg : x.size > 0 /\ WithData(skip.out) = <<x>>
        BY <2>11, <3>2 DEF Turns
      <4>2. c.max = max /\ c.size = x.size
        BY <2>13, <2>15, <4>1, CutOne
      <4> QED BY <1>2, <2>18, <4>1, <4>2, SegSized
    <3> QED BY <3>1, <3>2
  <2>20. Len(both.r.segs) <= Len(rx.segs)
    <3>1. Len(rx.segs) \in Nat /\ Len(first.r.segs) \in Nat /\ Len(skip.r.segs) \in Nat
      BY <1>2, <2>1, <2>12, RxFields, SeqFacts
    <3> QED BY <1>6, <2>11, <2>13, <3>1
  <2>21. FALSE \in BOOLEAN
    OBVIOUS
  <2> QED BY <2>16, <2>17, <2>19, <2>20, <2>21, AfterReadPreserves
<1> QED BY <1>4, <1>5

LEMMA RxSegmentPreserves ==
    ASSUME RInv, NEW size \in SegSizes, RxSegment(size)
    PROVE  RInv' /\ taken' = taken
<1> DEFINE seg == [id |-> Len(delivered) + 1, size |-> size]
           q == rx.segs
           T(s) == Total(Sizes(s))
           R(s) == Sizes(WithData(s))
           p == Append(q, seg)
<1>1. /\ ~rx.endRead /\ rx' = EnqueueSegment(seg) /\ winByte' = WindowByte(rx', bufSize)
      /\ delivered' = IF size > 0 THEN Append(delivered, seg) ELSE delivered
      /\ stale' = FALSE /\ linkUp' = linkUp /\ bufSize' = bufSize /\ taken' = taken /\ cut' = cut
      /\ Len(rx.segs) < MaxSegments
  BY DEF RxSegment, Recalculate
<1>2. seg \in Seg /\ seg.size = size /\ size \in Nat
  <2>1. Len(delivered) \in Nat
    BY SeqFacts DEF RInv
  <2> QED BY <2>1, SizeAssumption DEF Seg
<1>3. rx \in RxStates /\ q \in Seq(Seg) /\ rx = Rx(q, rx.endRead) /\ rx.endRead \in BOOLEAN
  BY RxFields DEF RInv
<1>4. rx = Cell(q, R(q), T(q), 0, T(q), Open)
  <2>1. rx = Cell(q, R(q), T(q), 0, T(q), rx.endRead)
    BY <1>3 DEF Rx
  <2>2. rx.endRead = Open
    BY <1>1, <1>3, Zenon DEF Open
  <2> QED BY <2>1, <2>2
<1> HIDE DEF seg, q
<1>5. /\ p \in Seq(Seg)
      /\ WithData(p) = IF size > 0 THEN Append(WithData(q), seg) ELSE WithData(q)
  BY <1>2, <1>3, AppendProperties, KeptAppend
<1>6. WithData(q) \in Seq(Seg)
  BY <1>3, KeptFacts
<1>7. /\ Sizes(p) = Append(Sizes(q), size) /\ Sizes(q) \in Seq(Nat)
      /\ Sizes(Append(WithData(q), seg)) = Append(R(q), size)
  BY <1>2, <1>3, <1>6, SegSized, SizesFacts
<1>8. T(p) = T(q) + size /\ T(q) \in Nat
  BY <1>2, <1>7, TotalAppend, TotalFacts
<1>9. rx' = Rx(p, Open)
  <2> DEFINE A == T(q)
             Q == R(q)
             B == A + size
             r == [rx EXCEPT !.segs = p, !.avail = B, !.used = B]
             r1 == [rx EXCEPT !.segs = p]
             r2 == [r1 EXCEPT !.avail = B]
  <2>1. rx = Cell(q, Q, A, 0, A, Open)
    BY <1>4
  <2> HIDE DEF A, Q
  <2>2. rx.segs = q /\ rx.recs = Q /\ rx.avail = A /\ rx.recAvail = 0 /\ rx.used = A
    BY <2>1, CellFields
  <2>3. rx' = IF size > 0 THEN [r EXCEPT !.recs = Append(Q, size), !.recAvail = 0]
                          ELSE [r EXCEPT !.recAvail = size]
    <3>1. seg.size = size /\ rx.recAvail + seg.size = size
      BY <1>2, <2>2
    <3> QED BY <1>1, <2>2, <3>1 DEF EnqueueSegment
  <2> HIDE DEF B, p
  <2>4. r = [r2 EXCEPT !.used = B]
    OBVIOUS
  <2>5. r1 = Cell(p, Q, A, 0, A, Open)
    BY <2>1, SetSegs
  <2> HIDE DEF r1
  <2>6. r2 = Cell(p, Q, B, 0, A, Open)
    BY <2>5, SetAvail
  <2> HIDE DEF r2, r
  <2>7. r = Cell(p, Q, B, 0, B, Open)
    BY <2>4, <2>6, SetUsed
  <2>8. CASE size > 0
    <3> DEFINE Q2 == Append(Q, size)
               r3 == [r EXCEPT !.recs = Q2]
    <3>1. rx' = [r EXCEPT !.recs = Q2, !.recAvail = 0]
      BY <2>3, <2>8
    <3> HIDE DEF Q2
    <3>2. [r EXCEPT !.recs = Q2, !.recAvail = 0] = [r3 EXCEPT !.recAvail = 0]
      OBVIOUS
    <3>3. r3 = Cell(p, Q2, B, 0, B, Open)
      BY <2>7, SetRecs
    <3> HIDE DEF r3
    <3>4. rx' = Cell(p, Q2, B, 0, B, Open)
      BY <3>1, <3>2, <3>3, SetRecAvail
    <3>5. Q2 = R(p) /\ B = T(p)
      BY <1>5, <1>7, <1>8, <2>8 DEF Q2, Q, A, B
    <3> QED BY <3>4, <3>5 DEF Rx
  <2>9. CASE size = 0
    <3>1. rx' = [r EXCEPT !.recAvail = 0]
      BY <2>3, <2>9
    <3>2. rx' = Cell(p, Q, B, 0, B, Open)
      BY <2>7, <3>1, SetRecAvail
    <3>3. Q = R(p) /\ B = T(p)
      BY <1>5, <1>7, <1>8, <2>9 DEF Q, A, B
    <3> QED BY <3>2, <3>3 DEF Rx
  <2> QED BY <1>2, <2>8, <2>9
<1>10. rx'.segs = p
  <2> HIDE DEF p, R, T
  <2>1. rx' = Cell(p, R(p), T(p), 0, T(p), Open)
    BY <1>9 DEF Rx, R, T
  <2> QED BY <2>1, CellFields
<1>11. rx' \in RxStates
  BY <1>5, <1>9 DEF RxStates
<1>12. winByte' \in 0..30 /\ WindowTight'
  BY <1>1, <1>11, Recalculated DEF RInv
<1>13. delivered' \in Seq(Seg)
  BY <1>1, <1>2, AppendProperties DEF RInv
<1>14. NothingLost'
  <2>1. taken \o WithData(q) = delivered /\ taken \in Seq(Seg)
    BY <1>1 DEF RInv, NothingLost, q
  <2>2. taken \o Append(WithData(q), seg) = Append(taken \o WithData(q), seg)
    BY <1>2, <1>6, <2>1, ConcatAppend
  <2>3. taken \o WithData(p) = delivered'
    BY <1>1, <1>5, <2>1, <2>2
  <2>4. \A c \in cut' : c.max < c.size
    BY <1>1 DEF RInv, NothingLost
  <2> QED BY <1>1, <1>10, <2>3, <2>4 DEF NothingLost
<1>15. Len(rx'.segs) <= MaxSegments
  <2>1. Len(p) = Len(q) + 1 /\ Len(q) \in Nat
    BY <1>2, <1>3, AppendProperties, SeqFacts
  <2> QED BY <1>1, <1>10, <2>1, CountAssumption DEF q
<1> QED BY <1>1, <1>11, <1>12, <1>13, <1>14, <1>15 DEF RInv

\* The other actions on the stream.
LEMMA RestPreserves ==
    ASSUME RInv,
           \/ LinkUp \/ Disconnect \/ ShutdownRead
           \/ \E size \in BufSizes : SetReceiveBufferSize(size)
    PROVE  RInv' /\ taken' = taken
<1>1. CASE LinkUp \/ Disconnect
  <2>1. UNCHANGED <<rx, bufSize, winByte, stale, delivered, taken, cut>> /\ linkUp' \in BOOLEAN
    BY <1>1 DEF LinkUp, Disconnect
  <2> QED BY <2>1 DEF RInv, WindowTight, NothingLost
<1>2. CASE ShutdownRead
  <2>1. /\ rx' = ShutRead(rx, linkUp) /\ stale' = TRUE
        /\ UNCHANGED <<linkUp, bufSize, winByte, delivered, taken, cut>>
    BY <1>2 DEF ShutdownRead
  <2>2. rx' = rx \/ rx' = Rx(<<>>, Shut)
    <3>1. CASE linkUp /\ ~rx.endRead
      BY <2>1, <3>1, EmptyIsRx DEF ShutRead
    <3>2. CASE ~(linkUp /\ ~rx.endRead)
      BY <2>1, <3>2 DEF ShutRead
    <3> QED BY <3>1, <3>2
  <2>3. rx' \in RxStates
    BY <2>2 DEF RInv, RxStates
  <2>4. rx' = rx \/ rx'.endRead
    <3>1. Rx(<<>>, Shut).endRead = Shut
      BY CellFields DEF Rx
    <3> QED BY <2>2, <3>1, Zenon DEF Shut
  <2>5. NothingLost'
    BY <2>1, <2>4 DEF RInv, NothingLost
  <2>6. WindowTight'
    BY <2>1 DEF WindowTight
  <2>7. Len(rx'.segs) <= MaxSegments
    <3>1. Rx(<<>>, Shut).segs = <<>> /\ Len(<<>>) = 0
      BY CellFields DEF Rx
    <3> QED BY <2>2, <3>1, CountAssumption DEF RInv
  <2> QED BY <2>1, <2>3, <2>5, <2>6, <2>7 DEF RInv
<1>3. ASSUME NEW size \in BufSizes, SetReceiveBufferSize(size) PROVE RInv' /\ taken' = taken
  <2>1. /\ bufSize' = Larger(size, MinBuf) /\ stale' = TRUE
        /\ UNCHANGED <<rx, linkUp, winByte, delivered, taken, cut>>
    BY <1>3 DEF SetReceiveBufferSize
  <2>2. /\ size \in BufRange /\ MinBuf \in BufRange
    BY SizeAssumption
  <2>3. size \in Int /\ MinBuf \in Int
    BY <2>2 DEF BufRange
  <2>4. bufSize' \in BufRange /\ bufSize' >= MinBuf
    BY <2>1, <2>2, <2>3 DEF Larger
  <2>5. WindowTight' /\ NothingLost'
    BY <2>1 DEF RInv, WindowTight, NothingLost
  <2> QED BY <2>1, <2>4, <2>5 DEF RInv
<1> QED BY <1>1, <1>2, <1>3

-----------------------------------------------------------------------------
(* The theorems about the stream.                                          *)

LEMMA InitRInv ==
    ASSUME Init PROVE RInv
<1>1. rx = Rx(<<>>, Open) /\ rx \in RxStates
  <2>1. <<>> \in Seq(Seg)
    BY EmptySeq
  <2>2. rx = Rx(<<>>, Open)
    BY EmptyIsRx DEF Init
  <2> QED BY <2>1, <2>2 DEF RxStates
<1>2. /\ bufSize = DefaultBuf /\ winByte = WindowByte(rx, bufSize) /\ linkUp \in BOOLEAN
      /\ stale \in BOOLEAN /\ taken = <<>> /\ cut = {} /\ delivered = <<>>
  BY DEF Init
<1>3. bufSize \in BufRange /\ bufSize >= MinBuf
  <2>1. DefaultBuf \in BufRange /\ MinBuf <= DefaultBuf /\ MinBuf \in BufRange
    BY SizeAssumption
  <2> QED BY <1>2, <2>1 DEF BufRange
<1>4. rx.used \in Nat /\ rx.used = rx.avail /\ rx.segs = <<>>
  <2>1. rx.segs = <<>>
    BY <1>1, CellFields DEF Rx
  <2> QED BY <1>1, <2>1, RxFields
<1>5. winByte \in 0..30 /\ WindowTight
  BY <1>2, <1>3, <1>4, WindowFacts DEF WindowTight
<1>6. taken \in Seq(Seg) /\ delivered \in Seq(Seg) /\ NothingLost
  <2>1. WithData(<<>>) = <<>> /\ <<>> \in Seq(Seg) /\ <<>> \o <<>> = <<>>
    BY KeptFacts, EmptySeq, ConcatEmptySeq
  <2> QED BY <1>2, <1>4, <2>1 DEF NothingLost
<1>7. Len(rx.segs) <= MaxSegments
  <2>1. Len(<<>>) = 0
    OBVIOUS
  <2> QED BY <1>4, <2>1, CountAssumption
<1> QED BY <1>1, <1>2, <1>3, <1>5, <1>6, <1>7 DEF RInv

\* A step keeps RInv and reads at most one record.
LEMMA NextRInv ==
    ASSUME RInv, [Next]_vars
    PROVE  RInv' /\ Len(taken') <= Len(taken) + 1
<1>1. Len(taken) \in Nat
  BY SeqFacts DEF RInv
<1>2. CASE UNCHANGED <<rx, bufVars, delivered, taken, cut>>
  <2>1. UNCHANGED <<rx, linkUp, bufSize, winByte, stale, delivered, taken, cut>>
    BY <1>2 DEF bufVars
  <2> QED BY <1>1, <2>1 DEF RInv, WindowTight, NothingLost
<1>3. CASE UNCHANGED vars
  BY <1>2, <1>3 DEF vars, bufVars
<1>4. CASE LinkUp \/ Disconnect \/ ShutdownRead
  BY <1>1, <1>4, RestPreserves
<1>5. ASSUME NEW size \in SegSizes, RxSegment(size) PROVE RInv' /\ Len(taken') <= Len(taken) + 1
  BY <1>1, <1>5, RxSegmentPreserves
<1>6. ASSUME NEW max \in ReadSizes, ReadData(max) \/ ReadRecord(max)
      PROVE  RInv' /\ Len(taken') <= Len(taken) + 1
  BY <1>6, ReadDataPreserves, ReadRecordPreserves
<1>7. ASSUME NEW size \in BufSizes, SetReceiveBufferSize(size)
      PROVE  RInv' /\ Len(taken') <= Len(taken) + 1
  BY <1>1, <1>7, RestPreserves
<1>8. CASE \E size \in DatagramSizes : RxDatagram(size)
  BY <1>2, <1>8 DEF RxDatagram
<1>9. CASE \E max \in ReadSizes : ReadDatagram(max)
  BY <1>2, <1>9 DEF ReadDatagram
<1> QED BY <1>3, <1>4, <1>5, <1>6, <1>7, <1>8, <1>9 DEF Next

LEMMA SpecRInv == Spec => []RInv
<1>1. Init => RInv
  BY InitRInv
<1>2. RInv /\ [Next]_vars => RInv'
  BY NextRInv
<1> QED BY <1>1, <1>2, PTL DEF Spec

\* The counters of the receive buffer and the sizes of the records stay
\* naturals, no record is empty, and the window is the exponent of an int.
THEOREM StreamReceiveTypes == Spec => []TypeOK
<1>1. RInv => TypeOK
  <2> SUFFICES ASSUME RInv PROVE TypeOK
    OBVIOUS
  <2>1. /\ rx \in RxStates /\ linkUp \in BOOLEAN /\ stale \in BOOLEAN
        /\ bufSize \in BufRange /\ bufSize >= MinBuf /\ winByte \in 0..30
    BY DEF RInv
  <2>2. /\ rx.segs \in Seq(Seg) /\ rx.endRead \in BOOLEAN /\ rx.recs = Sizes(WithData(rx.segs))
        /\ rx.avail \in Nat /\ rx.used \in Nat /\ rx.recAvail \in Nat
    BY <2>1, RxFields
  <2>3. bufSize \in Nat
    BY <2>1 DEF BufRange
  <2>4. \A i \in DOMAIN rx.segs : rx.segs[i].size \in SegSizes
    <3>1. \A i \in DOMAIN rx.segs : rx.segs[i] \in Seg
      BY <2>2, SeqFacts
    <3> QED BY <3>1, SegSized
  <2>5. \A i \in DOMAIN rx.recs : rx.recs[i] \in Nat \ {0}
    <3> DEFINE Full == {x \in Seg : x.size > 0}
               k == WithData(rx.segs)
    <3>1. k \in Seq(Full)
      BY <2>2, KeptSome
    <3>2. \A x \in Full : x.size \in Nat \ {0}
      BY SegSized
    <3> HIDE DEF Full, k
    <3>3. \A i \in DOMAIN k : k[i] \in Full
      BY <3>1, SeqFacts
    <3>4. rx.recs = [i \in DOMAIN k |-> k[i].size]
      BY <2>2 DEF Sizes, k
    <3> QED BY <3>2, <3>3, <3>4
  <2> QED BY <2>1, <2>2, <2>3, <2>4, <2>5 DEF TypeOK
<1> QED BY <1>1, SpecRInv, PTL

\* However reads, records and shutdowns follow on each other, the three
\* counters of the receive buffer are the bytes of the queued segments.
THEOREM CountersStayExact == Spec => []AccountingExact
<1>1. RInv => AccountingExact
  <2> SUFFICES ASSUME RInv PROVE AccountingExact
    OBVIOUS
  <2>1. rx \in RxStates
    BY DEF RInv
  <2>2. /\ rx.segs \in Seq(Seg) /\ rx.recs = Sizes(WithData(rx.segs)) /\ rx.recAvail = 0
        /\ rx.avail = Total(Sizes(rx.segs)) /\ rx.avail \in Nat /\ rx.used = rx.avail
    BY <2>1, RxFields
  <2>3. Total(rx.recs) = Total(Sizes(rx.segs))
    BY <2>2, SegSized, KeptTotal
  <2> QED BY <2>2, <2>3 DEF AccountingExact
<1> QED BY <1>1, SpecRInv, PTL

\* The window that recalculate_receive_window advertises fits in the free part
\* of the buffer, and is the largest of its kind that does, for every size of
\* buffer that an int holds.
THEOREM WindowStaysTight == Spec => []WindowTight
<1>1. RInv => WindowTight
  BY DEF RInv
<1> QED BY <1>1, SpecRInv, PTL

\* While the stream is open, what reads took off the queue and what is queued
\* make up what was received, in order: no read loses or repeats a segment.
\* And a reader whose max_size is not too small gets the whole record: the loop
\* of read_data ends at the record, and read_record discards nothing else.
THEOREM ReadsLoseNothing == Spec => []NothingLost
<1>1. RInv => NothingLost
  BY DEF RInv
<1> QED BY <1>1, SpecRInv, PTL

\* No call of read_data or read_record returns data of two records.
THEOREM ReadsEndWithRecords == Spec => OneRecordPerRead
<1>1. RInv /\ [Next]_vars => [Len(taken') <= Len(taken) + 1]_vars
  BY NextRInv
<1> QED BY <1>1, SpecRInv, PTL DEF Spec, OneRecordPerRead

-----------------------------------------------------------------------------
(* Datagrams.  A datagram is removed when it is first read, so that those  *)
(* in the queue are unread.                                                *)

Datagram == [id : Nat, size : DatagramSizes, pos : {0}]
Answer == [id : Nat, size : Nat]

Ids(s) == [i \in DOMAIN s |-> s[i].id]

LEMMA IdsFacts ==
    ASSUME NEW S, \A x \in S : x.id \in Nat
    PROVE  /\ Ids(<<>>) = <<>>
           /\ \A s \in Seq(S) : Ids(s) \in Seq(Nat)
           /\ \A s \in Seq(S), x \in S : Ids(Append(s, x)) = Append(Ids(s), x.id)
           /\ \A x \in S : Ids(<<x>>) = <<x.id>>
           /\ \A a, b \in Seq(S) : Ids(a \o b) = Ids(a) \o Ids(b)
<1> DEFINE f == [x \in S |-> x.id]
<1>1. f \in [S -> Nat] /\ \A x \in S : f[x] = x.id
  OBVIOUS
<1>2. Ids(<<>>) = <<>> /\ \A x \in S : Ids(<<x>>) = <<x.id>>
  BY DEF Ids
<1> HIDE DEF f
<1>3. ASSUME NEW s \in Seq(S) PROVE Ids(s) = Each(s, f)
  <2>1. \A i \in DOMAIN s : s[i] \in S
    BY SeqFacts
  <2> QED BY <1>1, <2>1 DEF Ids, Each
<1>4. \A s \in Seq(S), x \in S : Append(s, x) \in Seq(S)
  BY AppendProperties
<1>5. \A a, b \in Seq(S) : a \o b \in Seq(S)
  BY ConcatProperties
<1>6. ASSUME NEW s \in Seq(S) PROVE Ids(s) \in Seq(Nat)
  <2>1. Each(s, f) \in Seq(Nat)
    BY <1>1, EachFacts
  <2> QED BY <1>3, <2>1
<1>7. ASSUME NEW s \in Seq(S), NEW x \in S
      PROVE  Ids(Append(s, x)) = Append(Ids(s), x.id)
  <2>1. Each(Append(s, x), f) = Append(Each(s, f), f[x])
    BY <1>1, EachAppend
  <2> QED BY <1>1, <1>3, <1>4, <2>1
<1>8. ASSUME NEW a \in Seq(S), NEW b \in Seq(S) PROVE Ids(a \o b) = Ids(a) \o Ids(b)
  <2>1. Each(a \o b, f) = Each(a, f) \o Each(b, f)
    BY <1>1, EachConcat
  <2> QED BY <1>3, <1>5, <2>1
<1> QED BY <1>2, <1>6, <1>7, <1>8

DInv ==
    /\ datagrams \in Seq(Datagram) /\ rxDatagrams \in Seq(Datagram)
    /\ readDatagrams \in Seq(Answer)
    /\ Ids(readDatagrams) \o Ids(WithData(datagrams)) = Ids(WithData(rxDatagrams))

LEMMA DatagramFields ==
    /\ \A x \in Datagram : x.id \in Nat /\ x.size \in Nat /\ Remain(x) = x.size
    /\ \A x \in Answer : x.id \in Nat
<1>1. DatagramSizes \subseteq Nat
  BY SizeAssumption
<1>2. \A x \in Datagram : x.id \in Nat /\ x.size \in Nat /\ x.pos = 0
  BY <1>1 DEF Datagram
<1>3. \A x \in Datagram : Remain(x) = x.size
  BY <1>2 DEF Remain
<1>4. \A x \in Answer : x.id \in Nat
  BY DEF Answer
<1> QED BY <1>2, <1>3, <1>4

LEMMA RxDatagramPreserves ==
    ASSUME DInv, NEW size \in DatagramSizes, RxDatagram(size)
    PROVE  DInv'
<1> DEFINE d == [id |-> Len(rxDatagrams) + 1, size |-> size, pos |-> 0]
<1>1. /\ datagrams' = Append(datagrams, d) /\ rxDatagrams' = Append(rxDatagrams, d)
      /\ readDatagrams' = readDatagrams
  BY DEF RxDatagram
<1>2. d \in Datagram
  <2>1. Len(rxDatagrams) \in Nat
    BY SeqFacts DEF DInv
  <2> QED BY <2>1 DEF Datagram
<1> HIDE DEF d
<1>3. /\ datagrams \in Seq(Datagram) /\ rxDatagrams \in Seq(Datagram)
      /\ readDatagrams \in Seq(Answer)
      /\ Ids(readDatagrams) \o Ids(WithData(datagrams)) = Ids(WithData(rxDatagrams))
  BY DEF DInv
<1>4. datagrams' \in Seq(Datagram) /\ rxDatagrams' \in Seq(Datagram)
  BY <1>1, <1>2, <1>3, AppendProperties
<1>5. WithData(datagrams) \in Seq(Datagram) /\ WithData(rxDatagrams) \in Seq(Datagram)
  BY <1>3, KeptFacts
<1>6. /\ WithData(datagrams') = IF d.size > 0 THEN Append(WithData(datagrams), d)
                                             ELSE WithData(datagrams)
      /\ WithData(rxDatagrams') = IF d.size > 0 THEN Append(WithData(rxDatagrams), d)
                                               ELSE WithData(rxDatagrams)
  BY <1>1, <1>2, <1>3, KeptAppend
<1>7. CASE d.size > 0
  <2>1. /\ Ids(WithData(datagrams')) = Append(Ids(WithData(datagrams)), d.id)
        /\ Ids(WithData(rxDatagrams')) = Append(Ids(WithData(rxDatagrams)), d.id)
    BY <1>2, <1>5, <1>6, <1>7, DatagramFields, IdsFacts
  <2>2. Ids(readDatagrams) \in Seq(Nat) /\ Ids(WithData(datagrams)) \in Seq(Nat) /\ d.id \in Nat
    BY <1>2, <1>3, <1>5, DatagramFields, IdsFacts
  <2>3. Ids(readDatagrams) \o Append(Ids(WithData(datagrams)), d.id)
          = Append(Ids(readDatagrams) \o Ids(WithData(datagrams)), d.id)
    BY <2>2, ConcatAppend
  <2>4. Ids(readDatagrams) \o Ids(WithData(datagrams')) = Ids(WithData(rxDatagrams'))
    BY <1>3, <2>1, <2>3
  <2> QED BY <1>1, <1>3, <1>4, <2>4 DEF DInv
<1>8. CASE ~(d.size > 0)
  BY <1>1, <1>3, <1>4, <1>6, <1>8 DEF DInv
<1> QED BY <1>7, <1>8

\* The datagrams before the first one with data have none.
LEMMA ReadDatagramPreserves ==
    ASSUME DInv, NEW max \in ReadSizes, ReadDatagram(max)
    PROVE  DInv'
<1> DEFINE i == Min(Pending)
           d == datagrams[i]
           n == Smaller(Remain(d), max)
           answer == [id |-> d.id, size |-> n]
           a == SubSeq(datagrams, 1, i - 1)
           b == SubSeq(datagrams, i + 1, Len(datagrams))
<1>1. /\ Pending # {} /\ datagrams' = a \o b /\ readDatagrams' = Append(readDatagrams, answer)
      /\ rxDatagrams' = rxDatagrams
  BY DEF ReadDatagram, RemoveAt
<1>2. /\ datagrams \in Seq(Datagram) /\ rxDatagrams \in Seq(Datagram)
      /\ readDatagrams \in Seq(Answer)
      /\ Ids(readDatagrams) \o Ids(WithData(datagrams)) = Ids(WithData(rxDatagrams))
  BY DEF DInv
<1>3. /\ Len(datagrams) \in Nat /\ DOMAIN datagrams = 1..Len(datagrams)
      /\ \A j \in 1..Len(datagrams) : datagrams[j] \in Datagram
  BY <1>2, SeqFacts
<1>4. Pending \subseteq Nat /\ Pending \subseteq 1..Len(datagrams)
  BY <1>3 DEF Pending
<1>5. i \in Pending /\ \A j \in Pending : i <= j
  <2>1. \E x \in Pending : \A y \in Pending : x <= y
    BY <1>1, <1>4, LeastNat
  <2> QED BY <2>1 DEF Min
<1>6. i \in 1..Len(datagrams) /\ d.size > 0 /\ d \in Datagram
  BY <1>3, <1>4, <1>5, DatagramFields DEF Pending
<1> HIDE DEF i
<1>7. /\ a \in Seq(Datagram) /\ b \in Seq(Datagram) /\ <<d>> \in Seq(Datagram)
      /\ datagrams = a \o (<<d>> \o b)
      /\ Len(a) = i - 1 /\ \A j \in 1..(i - 1) : a[j] = datagrams[j]
  BY <1>2, <1>6, SplitAt
<1>8. \A j \in 1..Len(a) : ~(a[j].size > 0)
  <2> SUFFICES ASSUME NEW j \in 1..Len(a) PROVE ~(a[j].size > 0)
    OBVIOUS
  <2>1. j \in 1..(i - 1) /\ a[j] = datagrams[j] /\ j \in DOMAIN datagrams /\ ~(i <= j)
    BY <1>3, <1>6, <1>7
  <2>2. j \notin Pending /\ datagrams[j] \in Datagram
    BY <1>3, <1>5, <2>1
  <2> QED BY <2>1, <2>2, DatagramFields DEF Pending
<1>9. answer \in Answer /\ answer.id = d.id /\ d.id \in Nat
  <2>1. d.id \in Nat /\ Remain(d) \in Nat /\ max \in Nat
    BY <1>6, DatagramFields, SizeAssumption
  <2>2. n \in Nat
    BY <2>1 DEF Smaller
  <2> HIDE DEF n
  <2> QED BY <2>1, <2>2 DEF Answer
<1> HIDE DEF a, b, d, answer
<1>10. WithData(a) = <<>>
  BY <1>7, <1>8, KeptNone
<1>11. WithData(b) \in Seq(Datagram) /\ WithData(<<d>>) = <<d>> /\ <<d>> \o b \in Seq(Datagram)
  BY <1>6, <1>7, KeptFacts, KeptOne, ConcatProperties
<1>12. WithData(datagrams') = WithData(b) /\ datagrams' \in Seq(Datagram)
  <2>1. WithData(a \o b) = WithData(a) \o WithData(b) /\ a \o b \in Seq(Datagram)
    BY <1>7, KeptFacts, ConcatProperties
  <2> QED BY <1>1, <1>10, <1>11, <2>1, ConcatEmptySeq
<1>13. WithData(datagrams) = <<d>> \o WithData(b)
  <2>1. /\ WithData(a \o (<<d>> \o b)) = WithData(a) \o WithData(<<d>> \o b)
        /\ WithData(<<d>> \o b) = WithData(<<d>>) \o WithData(b)
    BY <1>7, <1>11, KeptFacts
  <2>2. <<d>> \o WithData(b) \in Seq(Datagram)
    BY <1>7, <1>11, ConcatProperties
  <2> QED BY <1>7, <1>10, <1>11, <2>1, <2>2, ConcatEmptySeq
<1>14. Ids(WithData(datagrams)) = <<d.id>> \o Ids(WithData(b)) /\ Ids(WithData(b)) \in Seq(Nat)
  <2> DEFINE k == WithData(b)
  <2>1. k \in Seq(Datagram)
    BY <1>11
  <2> HIDE DEF k
  <2>2. /\ Ids(<<d>> \o k) = Ids(<<d>>) \o Ids(k) /\ Ids(<<d>>) = <<d.id>>
        /\ Ids(k) \in Seq(Nat)
    BY <1>6, <1>7, <2>1, DatagramFields, IdsFacts
  <2> QED BY <1>13, <2>2 DEF k
<1>15. readDatagrams' \in Seq(Answer) /\ Ids(readDatagrams') = Append(Ids(readDatagrams), d.id)
       /\ Ids(readDatagrams) \in Seq(Nat)
  <2>1. readDatagrams' \in Seq(Answer)
    BY <1>1, <1>2, <1>9, AppendProperties
  <2>2. /\ \A z \in Seq(Answer) : Ids(z) \in Seq(Nat)
        /\ \A z \in Seq(Answer), y \in Answer : Ids(Append(z, y)) = Append(Ids(z), y.id)
    BY DatagramFields, IdsFacts
  <2> QED BY <1>1, <1>2, <1>9, <2>1, <2>2
<1>16. Append(Ids(readDatagrams), d.id) \o Ids(WithData(b))
         = Ids(readDatagrams) \o (<<d.id>> \o Ids(WithData(b)))
  <2>1. PICK m \in Nat, u \in Seq(Nat), v \in Seq(Nat) :
          m = d.id /\ u = Ids(readDatagrams) /\ v = Ids(WithData(b))
    BY <1>9, <1>14, <1>15
  <2>2. Append(u, m) = u \o <<m>>
    BY AppendIsConcat
  <2>3. PICK k \in Seq(Nat) : k = <<m>>
    <3>1. <<m>> \in Seq(Nat)
      OBVIOUS
    <3> QED BY <3>1
  <2>4. (u \o k) \o v = u \o (k \o v)
    <3>1. Assoc(u, k, v)
      BY SeqAssoc
    <3> QED BY <3>1 DEF Assoc
  <2> QED BY <2>1, <2>2, <2>3, <2>4
<1>17. Ids(readDatagrams') \o Ids(WithData(datagrams')) = Ids(WithData(rxDatagrams'))
  BY <1>1, <1>2, <1>12, <1>14, <1>15, <1>16
<1> QED BY <1>1, <1>2, <1>12, <1>15, <1>17 DEF DInv

\* read_datagram returns the datagrams with data in the order of arrival, each
\* once, whatever empty ones are queued between them.
THEOREM DatagramsStayInOrder == Spec => []DatagramsInOrder
<1>1. Init => DInv
  <2>1. WithData(<<>>) = <<>> /\ Ids(<<>>) = <<>> /\ <<>> \o <<>> = <<>>
    BY KeptFacts, ConcatEmptySeq, EmptySeq DEF Ids
  <2> QED BY <2>1, EmptySeq DEF Init, DInv
<1>2. DInv /\ [Next]_vars => DInv'
  <2> SUFFICES ASSUME DInv, [Next]_vars PROVE DInv'
    OBVIOUS
  <2>1. CASE UNCHANGED dgVars
    BY <2>1 DEF DInv, dgVars
  <2>2. CASE LinkUp \/ Disconnect \/ ShutdownRead \/ UNCHANGED vars
    BY <2>1, <2>2 DEF LinkUp, Disconnect, ShutdownRead, vars, dgVars
  <2>3. ASSUME NEW size \in SegSizes, RxSegment(size) PROVE DInv'
    BY <2>1, <2>3 DEF RxSegment, dgVars
  <2>4. ASSUME NEW max \in ReadSizes, ReadData(max) \/ ReadRecord(max) PROVE DInv'
    <3>1. UNCHANGED dgVars
      BY <2>4 DEF ReadData, ReadRecord, AfterRead
    <3> QED BY <2>1, <3>1
  <2>5. ASSUME NEW size \in BufSizes, SetReceiveBufferSize(size) PROVE DInv'
    BY <2>1, <2>5 DEF SetReceiveBufferSize, dgVars
  <2>6. ASSUME NEW size \in DatagramSizes, RxDatagram(size) PROVE DInv'
    BY <2>6, RxDatagramPreserves
  <2>7. ASSUME NEW max \in ReadSizes, ReadDatagram(max) PROVE DInv'
    BY <2>7, ReadDatagramPreserves
  <2> QED BY <2>2, <2>3, <2>4, <2>5, <2>6, <2>7 DEF Next
<1>3. DInv => DatagramsInOrder
  BY DEF DInv, DatagramsInOrder, Ids
<1> QED BY <1>1, <1>2, <1>3, PTL DEF Spec
=============================================================================
