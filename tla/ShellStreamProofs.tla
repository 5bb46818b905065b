------------------------- MODULE ShellStreamProofs -------------------------
(***************************************************************************)
(* Proofs about module ShellStream: the receiver of a shell stream keeps   *)
(* step with the sender, for any width of a byte, any limit on messages    *)
(* and any way the stream below cuts the bytes into chunks.                *)
(***************************************************************************)
EXTENDS ShellStream, SequenceFacts, TLAPS

-----------------------------------------------------------------------------
(* Division by the radix.                                                  *)

LEMMA DivFacts ==
    ASSUME NEW R \in Nat \ {0}, NEW n \in Nat
    PROVE  /\ n \div R \in Nat /\ n % R \in 0..(R - 1)
           /\ n = (n \div R) * R + (n % R)
OBVIOUS

LEMMA DivDown ==
    ASSUME NEW R \in Nat \ {0, 1}, NEW n \in Nat \ {0}
    PROVE  n \div R < n
<1> DEFINE q == n \div R
<1>1. q \in Nat /\ n % R \in Nat /\ n = q * R + (n % R)
  BY DivFacts
<1> HIDE DEF q
<1>2. q * R >= q * 2
  BY <1>1
<1> QED BY <1>1, <1>2

LEMMA ModFacts ==
    ASSUME NEW R \in Nat \ {0}, NEW d \in 0..(R - 1)
    PROVE  d % R = d /\ (d + R) % R = d
OBVIOUS

LEMMA LengthBound ==
    ASSUME NEW R \in Nat \ {0}, NEW m \in Nat, NEW a \in 0..(m - 1), NEW d \in 0..(R - 1)
    PROVE  a * R + d \in 0..(m * R - 1)
OBVIOUS

-----------------------------------------------------------------------------
(* Flattening a sequence of sequences.                                     *)

\* Sequences of bytes, as a name that the provers need not look into.
Words == Seq(Bytes)

LEMMA WordFacts ==
    /\ <<>> \in Words
    /\ \A a, b \in Words : a \o b \in Words /\ Len(a \o b) = Len(a) + Len(b)
    /\ \A a \in Words : <<>> \o a = a /\ a \o <<>> = a /\ Len(a) \in Nat
    /\ \A b \in Bytes : <<b>> \in Words
<1>1. /\ <<>> \in Seq(Bytes) /\ \A b \in Bytes : <<b>> \in Seq(Bytes)
      /\ \A a \in Seq(Bytes) : <<>> \o a = a /\ a \o <<>> = a /\ Len(a) \in Nat
  BY EmptySeq, ConcatEmptySeq, SeqFacts
<1>2. \A a, b \in Seq(Bytes) : a \o b \in Seq(Bytes) /\ Len(a \o b) = Len(a) + Len(b)
  BY ConcatProperties
<1> QED BY <1>1, <1>2 DEF Words

LEMMA WordAssoc ==
    ASSUME NEW a \in Words, NEW b \in Words, NEW c \in Words
    PROVE  Assoc(a, b, c)
BY SeqAssoc DEF Words

LEMMA FlattenSteps ==
    ASSUME NEW s \in Seq(Words)
    PROVE  \E f \in [0..Len(s) -> Words] :
              /\ f[0] = <<>> /\ FlattenSeq(s) = f[Len(s)]
              /\ \A n \in 1..Len(s) : f[n] = f[n - 1] \o s[n]
<1> DEFINE N == Len(s)
           F == [x \in (1..N) \X Words |-> x[2] \o s[x[1]]]
           IsFlat(f) == f = [n \in 1..N |-> IF n = 1 THEN s[n] ELSE f[n - 1] \o s[n]]
           flatten == CHOOSE f : IsFlat(f)
<1>1. N \in Nat /\ \A n \in 1..N : s[n] \in Words
  BY SeqFacts
<1>2. Steps(F, N, Words)
  <2>1. \A n \in 1..N, q \in Words : q \o s[n] \in Words
    BY <1>1, WordFacts
  <2> QED BY <2>1 DEF Steps
<1>3. \A n \in 1..N, v \in Words : F[<<n, v>>] = v \o s[n]
  OBVIOUS
<1>4. FlattenSeq(s) = IF N = 0 THEN s ELSE flatten[N]
  BY DEF FlattenSeq
<1> HIDE DEF F, N
<1>5. PICK f \in [0..N -> Words] : Follows(f, <<>>, F, N)
  BY <1>1, <1>2, Recursion, WordFacts
<1>6. ASSUME NEW n \in 1..N PROVE f[n] = f[n - 1] \o s[n]
  <2>1. n - 1 \in 0..N
    BY <1>1
  <2> QED BY <1>3, <1>5, <2>1 DEF Follows
<1>7. f[0] = <<>>
  BY <1>5 DEF Follows
<1> DEFINE e == [n \in 1..N |-> f[n]]
<1>8. IsFlat(e)
  <2> DEFINE g == [n \in 1..N |-> IF n = 1 THEN s[n] ELSE e[n - 1] \o s[n]]
  <2>1. ASSUME NEW n \in 1..N PROVE e[n] = g[n]
    <3>1. CASE n = 1
      <4>1. f[n] = <<>> \o s[n] /\ s[n] \in Words
        BY <1>1, <1>6, <1>7, <3>1
      <4> QED BY <3>1, <4>1, WordFacts
    <3>2. CASE n # 1
      <4>1. n - 1 \in 1..N
        BY <1>1, <3>2
      <4> QED BY <1>6, <3>2, <4>1
    <3> QED BY <3>1, <3>2
  <2>2. DOMAIN e = DOMAIN g /\ e = [n \in DOMAIN e |-> e[n]] /\ g = [n \in DOMAIN g |-> g[n]]
    OBVIOUS
  <2>3. DOMAIN g = 1..N
    OBVIOUS
  <2> HIDE DEF g, e
  <2>4. e = g
    BY <2>1, <2>2, <2>3
  <2> QED BY <2>4 DEF g
<1>9. IsFlat(flatten)
  BY <1>8
<1> HIDE DEF flatten
<1>10. \A n \in 1..N : flatten[n] = IF n = 1 THEN s[n] ELSE flatten[n - 1] \o s[n]
  BY <1>9, Zenon
<1> DEFINE D == {n \in 0..N : n = 0 \/ flatten[n] = f[n]}
<1>11. 0 \in D
  BY <1>1
<1>12. ASSUME NEW n \in 1..N, n - 1 \in D PROVE n \in D
  <2>1. CASE n = 1
    <3>1. flatten[n] = s[n]
      BY <1>10, <2>1
    <3>2. n - 1 = 0 /\ n \in 0..N /\ s[n] \in Words
      BY <1>1, <2>1
    <3>3. f[n] = <<>> \o s[n]
      BY <1>6, <1>7, <3>2
    <3>4. <<>> \o s[n] = s[n]
      BY <3>2, WordFacts
    <3> QED BY <3>1, <3>2, <3>3, <3>4
  <2>2. CASE n # 1
    <3>1. n - 1 # 0 /\ n \in 0..N
      BY <1>1, <2>2
    <3>2. flatten[n - 1] = f[n - 1]
      BY <1>12, <3>1
    <3>3. flatten[n] = flatten[n - 1] \o s[n] /\ f[n] = f[n - 1] \o s[n]
      BY <1>6, <1>10, <2>2
    <3> QED BY <3>1, <3>2, <3>3
  <2> QED BY <2>1, <2>2
<1> HIDE DEF D
<1>13. 0..N \subseteq D
  BY <1>1, <1>11, <1>12, RangeInd
<1>14. N = 0 \/ flatten[N] = f[N]
  BY <1>1, <1>13 DEF D
<1>15. N = 0 => s = <<>>
  BY SeqFacts DEF N
<1>16. FlattenSeq(s) = f[N]
  BY <1>4, <1>7, <1>14, <1>15
<1> QED BY <1>5, <1>6, <1>7, <1>16 DEF N

LEMMA FlattenAppend ==
    ASSUME NEW s \in Seq(Words), NEW x \in Words
    PROVE  FlattenSeq(Append(s, x)) = FlattenSeq(s) \o x
<1> DEFINE t == Append(s, x)
           N == Len(s)
<1>1. /\ t \in Seq(Words) /\ Len(t) = N + 1 /\ N \in Nat
      /\ \A i \in 1..N : t[i] = s[i]
  BY AppendProperties, SeqFacts
<1>2. t[N + 1] = x
  BY AppendProperties
<1> HIDE DEF t
<1>3. PICK f \in [0..Len(s) -> Words] :
        /\ f[0] = <<>> /\ FlattenSeq(s) = f[Len(s)]
        /\ \A n \in 1..Len(s) : f[n] = f[n - 1] \o s[n]
  BY FlattenSteps
<1>4. PICK g \in [0..Len(t) -> Words] :
        /\ g[0] = <<>> /\ FlattenSeq(t) = g[Len(t)]
        /\ \A n \in 1..Len(t) : g[n] = g[n - 1] \o t[n]
  <2>1. t \in Seq(Words)
    BY <1>1
  <2> QED BY <2>1, FlattenSteps
<1> DEFINE D == {n \in 0..N : g[n] = f[n]}
<1>5. 0 \in D
  BY <1>1, <1>3, <1>4
<1>6. ASSUME NEW n \in 1..N, n - 1 \in D PROVE n \in D
  <2>1. n \in 1..Len(t) /\ n \in 1..Len(s) /\ n \in 0..N
    BY <1>1
  <2>2. t[n] = s[n] /\ g[n - 1] = f[n - 1]
    BY <1>1, <1>6
  <2> QED BY <1>3, <1>4, <2>1, <2>2
<1> HIDE DEF D
<1>7. 0..N \subseteq D
  BY <1>1, <1>5, <1>6, RangeInd
<1>8. g[N] = f[N]
  BY <1>1, <1>7 DEF D
<1>9. g[N + 1] = g[N] \o x
  <2>1. N + 1 \in 1..Len(t) /\ (N + 1) - 1 = N
    BY <1>1
  <2>2. g[N + 1] = g[(N + 1) - 1] \o t[N + 1]
    BY <1>4, <2>1
  <2> QED BY <1>2, <2>1, <2>2
<1>10. FlattenSeq(t) = g[N + 1] /\ FlattenSeq(s) = f[N]
  BY <1>1, <1>3, <1>4
<1>11. FlattenSeq(t) = FlattenSeq(s) \o x
  BY <1>8, <1>9, <1>10
<1> QED BY <1>11 DEF t

LEMMA FlattenFacts ==
    /\ FlattenSeq(<<>>) = <<>>
    /\ \A s \in Seq(Words) : FlattenSeq(s) \in Words
<1>1. FlattenSeq(<<>>) = <<>>
  <2>1. <<>> \in Seq(Words) /\ Len(<<>>) = 0
    BY EmptySeq
  <2> QED BY <2>1, FlattenSteps
<1>2. ASSUME NEW s \in Seq(Words) PROVE FlattenSeq(s) \in Words
  <2>1. PICK f \in [0..Len(s) -> Words] : FlattenSeq(s) = f[Len(s)]
    BY FlattenSteps
  <2>2. Len(s) \in 0..Len(s)
    BY SeqFacts
  <2> QED BY <2>1, <2>2
<1> QED BY <1>1, <1>2

-----------------------------------------------------------------------------
(* The length of a control message.  Lengths(v, h, len) says that the      *)
(* length bytes h take ctl_len_ from v to len, and that the high bit marks *)
(* the last of them.                                                       *)

LengthStep(v, b) == v * Radix + (b % Radix)

Lengths(v, h, len) ==
    /\ h # <<>>
    /\ \E f \in [0..Len(h) -> Nat] :
          /\ f[0] = v /\ f[Len(h)] = len
          /\ \A i \in 1..Len(h) : /\ f[i] = LengthStep(f[i - 1], h[i])
                                  /\ h[i] >= HighBit <=> i = Len(h)

\* What one length byte does.
LEMMA FirstLength ==
    ASSUME NEW v \in Nat, NEW len \in Nat, NEW h \in Words, Lengths(v, h, len)
    PROVE  /\ Head(h) \in Bytes /\ Tail(h) \in Words /\ h = <<Head(h)>> \o Tail(h)
           /\ LengthStep(v, Head(h)) \in Nat
           /\ \/ Head(h) >= HighBit /\ Tail(h) = <<>> /\ LengthStep(v, Head(h)) = len
              \/ ~(Head(h) >= HighBit) /\ Lengths(LengthStep(v, Head(h)), Tail(h), len)
<1>1. h \in Seq(Bytes) /\ h # <<>>
  BY DEF Words, Lengths
<1> DEFINE N == Len(h)
           t == Tail(h)
<1>2. /\ N \in Nat /\ N >= 1 /\ Head(h) = h[1] /\ Head(h) \in Bytes
      /\ t \in Seq(Bytes) /\ Len(t) = N - 1
      /\ \A i \in 1..(N - 1) : t[i] = h[i + 1]
  BY <1>1, SeqFacts
<1>3. h = <<Head(h)>> \o t
  BY <1>1, HeadTailConcat
<1>4. PICK f \in [0..N -> Nat] :
        /\ f[0] = v /\ f[N] = len
        /\ \A i \in 1..N : f[i] = LengthStep(f[i - 1], h[i]) /\ (h[i] >= HighBit <=> i = N)
  BY DEF Lengths
<1> HIDE DEF N, t
<1>5. 1 \in 1..N /\ 1 \in 0..N /\ 0 \in 0..N /\ 1 - 1 = 0
  BY <1>2
<1>6. f[1] = LengthStep(v, Head(h)) /\ f[1] \in Nat /\ (Head(h) >= HighBit <=> N = 1)
  BY <1>2, <1>4, <1>5
<1>7. CASE N = 1
  <2>1. t = <<>>
    BY <1>2, <1>7, EmptySeq
  <2>2. LengthStep(v, Head(h)) = len
    BY <1>4, <1>6, <1>7
  <2> QED BY <1>2, <1>3, <1>6, <1>7, <2>1, <2>2 DEF t, Words
<1>8. CASE N # 1
  <2> DEFINE g == [i \in 0..(N - 1) |-> f[i + 1]]
  <2>1. N - 1 \in Nat /\ N - 1 >= 1 /\ N - 1 \in 0..(N - 1) /\ 0 \in 0..(N - 1)
    BY <1>2, <1>8
  <2>2. \A i \in 0..(N - 1) : i + 1 \in 0..N /\ f[i + 1] \in Nat
    BY <1>2
  <2>3. g \in [0..(N - 1) -> Nat]
    BY <2>2
  <2>4. g[0] = f[1] /\ g[N - 1] = len
    BY <1>2, <1>4, <2>1
  <2>5. ASSUME NEW i \in 1..(N - 1)
        PROVE  /\ g[i] = LengthStep(g[i - 1], t[i])
               /\ t[i] >= HighBit <=> i = N - 1
    <3>1. i + 1 \in 1..N /\ i - 1 \in 0..(N - 1) /\ i \in 0..(N - 1) /\ (i + 1) - 1 = i
          /\ (i - 1) + 1 = i /\ (i + 1 = N <=> i = N - 1)
      BY <1>2
    <3>2. f[i + 1] = LengthStep(f[(i + 1) - 1], h[i + 1]) /\ (h[i + 1] >= HighBit <=> i + 1 = N)
      BY <1>4, <3>1
    <3>3. g[i] = f[i + 1] /\ g[i - 1] = f[i] /\ t[i] = h[i + 1]
      BY <1>2, <3>1
    <3> QED BY <3>1, <3>2, <3>3
  <2> HIDE DEF g
  <2>6. t # <<>>
    BY <1>2, <2>1, EmptySeq
  <2>7. Lengths(f[1], t, len)
    <3>1. Len(t) = N - 1 /\ N - 1 \in Nat
      BY <1>2, <2>1
    <3> DEFINE M == N - 1
    <3> HIDE DEF M
    <3>2. /\ Len(t) = M /\ g \in [0..M -> Nat] /\ g[0] = f[1] /\ g[M] = len
          /\ \A i \in 1..M : g[i] = LengthStep(g[i - 1], t[i]) /\ (t[i] >= HighBit <=> i = M)
      BY <2>3, <2>4, <2>5, <3>1 DEF M
    <3> QED BY <2>6, <3>2 DEF Lengths
  <2> QED BY <1>2, <1>3, <1>6, <1>8, <2>7 DEF t, Words
<1> QED BY <1>7, <1>8

\* The digits of a length, with the last one marked, spell it.
LEMMA DigitsSpell ==
    ASSUME NEW len \in Nat \ {0}
    PROVE  LET d == Digits(len)
               h == [d EXCEPT ![Len(d)] = @ + HighBit]
           IN  h \in Words /\ Lengths(0, h, len)
<1> DEFINE F == [x \in (1..len) \X Nat |-> x[2] \div Radix]
           IsRest(f) == f = [n \in 0..len |-> IF n = 0 THEN len ELSE f[n - 1] \div Radix]
           rest == CHOOSE f : IsRest(f)
           turns == CHOOSE n \in 1..len : rest[n] = 0 /\ rest[n - 1] > 0
<1>0. Radix \in Nat \ {0, 1} /\ Radix \in Nat \ {0}
  BY CodeAssumption
<1>1. \A n \in Nat : n \div Radix \in Nat
  BY <1>0, DivFacts
<1>2. Steps(F, len, Nat)
  BY <1>1 DEF Steps
<1>3. \A n \in 1..len, v \in Nat : F[<<n, v>>] = v \div Radix
  OBVIOUS
<1>4. Digits(len) = [i \in 1..turns |-> rest[turns - i] % Radix]
  BY DEF Digits
<1> HIDE DEF F
<1>5. PICK f \in [0..len -> Nat] : Follows(f, len, F, len)
  BY <1>2, Recursion
<1>6. ASSUME NEW n \in 1..len PROVE f[n] = f[n - 1] \div Radix
  <2>1. n - 1 \in 0..len
    OBVIOUS
  <2> QED BY <1>3, <1>5, <2>1 DEF Follows
<1>7. IsRest(f)
  <2> DEFINE g == [n \in 0..len |-> IF n = 0 THEN len ELSE f[n - 1] \div Radix]
  <2>1. ASSUME NEW n \in 0..len PROVE f[n] = g[n]
    BY <1>5, <1>6 DEF Follows
  <2>2. DOMAIN f = DOMAIN g /\ f = [n \in DOMAIN f |-> f[n]] /\ g = [n \in DOMAIN g |-> g[n]]
    OBVIOUS
  <2>3. DOMAIN g = 0..len
    OBVIOUS
  <2> HIDE DEF g
  <2>4. f = g
    BY <2>1, <2>2, <2>3
  <2> QED BY <2>4 DEF g
<1>8. IsRest(rest)
  BY <1>7
<1> HIDE DEF rest
<1>9. rest[0] = len /\ \A n \in 1..len : rest[n] = rest[n - 1] \div Radix
  <2>1. \A n \in 0..len : rest[n] = IF n = 0 THEN len ELSE rest[n - 1] \div Radix
    BY <1>8, Zenon
  <2>2. 0 \in 0..len /\ \A n \in 1..len : n \in 0..len /\ n # 0
    OBVIOUS
  <2> QED BY <2>1, <2>2
\* The loop ends: every turn takes at least 1 off the length.
<1> DEFINE D == {n \in 0..len : rest[n] \in Nat /\ rest[n] <= len - n}
<1>10. 0 \in D
  BY <1>9
<1>11. ASSUME NEW n \in 1..len, n - 1 \in D PROVE n \in D
  <2>0. n \in 0..len /\ n \in Int
    OBVIOUS
  <2>1. rest[n - 1] \in Nat /\ rest[n - 1] <= len - (n - 1) /\ rest[n] = rest[n - 1] \div Radix
    BY <1>9, <1>11
  <2>2. rest[n] \in Nat
    BY <1>1, <2>1
  <2>3. CASE rest[n - 1] = 0
    <3>1. 0 \div Radix = 0
      BY <1>0
    <3> QED BY <2>0, <2>1, <2>2, <2>3, <3>1
  <2>4. CASE rest[n - 1] # 0
    <3>1. rest[n - 1] \div Radix < rest[n - 1]
      BY <1>0, <2>1, <2>4, DivDown
    <3> QED BY <2>0, <2>1, <2>2, <3>1
  <2> QED BY <2>3, <2>4
<1> HIDE DEF D
<1>12. 0..len \subseteq D
  BY <1>10, <1>11, RangeInd
<1>13. \A n \in 0..len : rest[n] \in Nat
  BY <1>12 DEF D
<1>14. rest[len] = 0
  <2>1. len \in D
    BY <1>12
  <2> QED BY <2>1 DEF D
<1> DEFINE Z == {n \in 1..len : rest[n] = 0}
<1>15. Z \subseteq Nat /\ Z # {}
  BY <1>14
<1> HIDE DEF Z
<1>16. PICK z \in Z : \A y \in Z : z <= y
  BY <1>15, LeastNat
<1>17. z \in 1..len /\ rest[z] = 0 /\ rest[z - 1] > 0
  <2>1. z \in 1..len /\ rest[z] = 0
    BY <1>16 DEF Z
  <2>2. CASE z = 1
    BY <1>9, <2>1, <2>2
  <2>3. CASE z # 1
    <3>1. z - 1 \in 1..len /\ z - 1 \in 0..len /\ ~(z <= z - 1)
      BY <2>1, <2>3
    <3>2. rest[z - 1] # 0
      BY <1>16, <3>1 DEF Z
    <3> QED BY <1>13, <2>1, <3>1, <3>2
  <2> QED BY <2>2, <2>3
<1>18. turns \in 1..len /\ rest[turns] = 0
  BY <1>17
<1> HIDE DEF turns
<1> DEFINE d == Digits(len)
           h == [d EXCEPT ![Len(d)] = @ + HighBit]
           v == [i \in 0..turns |-> rest[turns - i]]
<1>19. turns \in Nat /\ turns >= 1
  BY <1>18
<1>20. ASSUME NEW i \in 1..turns
       PROVE  /\ rest[turns - i] \in Nat /\ rest[turns - (i - 1)] = rest[turns - i] \div Radix
              /\ i - 1 \in 0..turns /\ i \in 0..turns
  <2>1. /\ turns - i \in 0..len /\ turns - (i - 1) \in 1..len
        /\ (turns - (i - 1)) - 1 = turns - i
    BY <1>18, <1>19
  <2> QED BY <1>9, <1>13, <1>19, <2>1
<1>21. d = [i \in 1..turns |-> rest[turns - i] % Radix]
  BY <1>4
<1>22. \A i \in 1..turns : rest[turns - i] % Radix \in 0..(Radix - 1)
  BY <1>0, <1>20, DivFacts
<1>23. Len(d) = turns /\ DOMAIN d = 1..turns
  BY <1>19, <1>21
<1>24. /\ h = [i \in 1..turns |-> IF i = turns THEN d[i] + HighBit ELSE d[i]]
  BY <1>19, <1>23
<1> HIDE DEF d, h
<1>25. ASSUME NEW i \in 1..turns
       PROVE  /\ h[i] \in Bytes /\ h[i] % Radix = rest[turns - i] % Radix
              /\ h[i] >= HighBit <=> i = turns
  <2> DEFINE c == rest[turns - i] % Radix
  <2>1. d[i] = c /\ c \in 0..(Radix - 1)
    BY <1>21, <1>22
  <2> HIDE DEF c
  <2>2. c % Radix = c /\ (c + Radix) % Radix = c
    BY <1>0, <2>1, ModFacts
  <2>3. h[i] = IF i = turns THEN c + Radix ELSE c
    BY <1>24, <2>1 DEF HighBit
  <2>4. c \in Bytes /\ c + Radix \in Bytes /\ ~(c >= HighBit) /\ c + Radix >= HighBit
    BY <1>0, <2>1 DEF HighBit, Bytes
  <2>5. CASE i = turns
    BY <2>2, <2>3, <2>4, <2>5 DEF c
  <2>6. CASE i # turns
    BY <2>2, <2>3, <2>4, <2>6 DEF c
  <2> QED BY <2>5, <2>6
<1>26. h \in Words /\ Len(h) = turns
  <2>1. h = [i \in 1..turns |-> h[i]]
    BY <1>24
  <2>2. h \in Seq(Bytes)
    BY <1>19, <1>25, <2>1, IsASeq
  <2> QED BY <1>19, <2>1, <2>2 DEF Words
<1>27. v \in [0..turns -> Nat] /\ v[0] = 0 /\ v[turns] = len
  <2>1. \A i \in 0..turns : turns - i \in 0..len
    BY <1>18, <1>19
  <2>2. turns - 0 = turns /\ turns - turns = 0 /\ 0 \in 0..turns /\ turns \in 0..turns
    BY <1>19
  <2> QED BY <1>9, <1>13, <1>18, <2>1, <2>2
<1>28. ASSUME NEW i \in 1..turns
       PROVE  v[i] = LengthStep(v[i - 1], h[i])
  <2> DEFINE w == rest[turns - i]
  <2>1. v[i] = w /\ v[i - 1] = w \div Radix /\ w \in Nat
    BY <1>20
  <2>2. h[i] % Radix = w % Radix
    BY <1>25
  <2> HIDE DEF w, v
  <2>3. w = (w \div Radix) * Radix + (w % Radix)
    BY <1>0, <2>1, DivFacts
  <2> QED BY <2>1, <2>2, <2>3 DEF LengthStep
<1> HIDE DEF v
<1>29. h # <<>>
  BY <1>19, <1>26, EmptySeq
<1>30. Lengths(0, h, len)
  BY <1>25, <1>26, <1>27, <1>28, <1>29 DEF Lengths
<1> QED BY <1>26, <1>30 DEF h, d

-----------------------------------------------------------------------------
(* Sequences of bytes that are equal are cut in the same places.           *)

LEMMA WordParts ==
    ASSUME NEW a \in Words, NEW n \in 0..Len(a)
    PROVE  /\ SubSeq(a, 1, n) \in Words /\ SubSeq(a, n + 1, Len(a)) \in Words
           /\ a = SubSeq(a, 1, n) \o SubSeq(a, n + 1, Len(a))
           /\ Len(SubSeq(a, 1, n)) = n /\ Len(SubSeq(a, n + 1, Len(a))) = Len(a) - n
           /\ \A i \in 1..n : SubSeq(a, 1, n)[i] = a[i]
           /\ \A i \in 1..(Len(a) - n) : SubSeq(a, n + 1, Len(a))[i] = a[n + i]
<1> DEFINE N == Len(a)
           p == SubSeq(a, 1, n)
           q == SubSeq(a, n + 1, N)
<1>1. a \in Seq(Bytes) /\ N \in Nat /\ n \in 0..N /\ \A j \in 1..N : a[j] \in Bytes
  BY SeqFacts DEF Words
<1>2. /\ p \in Seq(Bytes) /\ Len(p) = (IF 1 <= n THEN n - 1 + 1 ELSE 0)
      /\ \A i \in 1..(n - 1 + 1) : p[i] = a[1 + i - 1]
  <2>1. \A j \in 1..n : a[j] \in Bytes
    BY <1>1
  <2> QED BY <1>1, <2>1, SubSeqProperties
<1>3. /\ q \in Seq(Bytes) /\ Len(q) = (IF n + 1 <= N THEN N - (n + 1) + 1 ELSE 0)
      /\ \A i \in 1..(N - (n + 1) + 1) : q[i] = a[(n + 1) + i - 1]
  <2>1. \A j \in (n + 1)..N : a[j] \in Bytes
    BY <1>1
  <2> QED BY <1>1, <2>1, SubSeqProperties
<1>4. a = p \o q
  <2>1. SubSeq(a, 1, N) = a
    BY <1>1, SubSeqFull
  <2>2. 1 \in 1..(N + 1) /\ n \in (1 - 1)..N /\ N \in n..N
    BY <1>1
  <2> QED BY <1>1, <2>1, <2>2, ConcatAdjacentSubSeq
<1>5. Len(p) = n /\ \A i \in 1..n : p[i] = a[i]
  BY <1>1, <1>2
<1>6. Len(q) = N - n /\ \A i \in 1..(N - n) : q[i] = a[n + i]
  BY <1>1, <1>3
<1> QED BY <1>2, <1>3, <1>4, <1>5, <1>6 DEF Words

LEMMA WordItems ==
    ASSUME NEW a \in Words, NEW b \in Words
    PROVE  /\ \A i \in 1..Len(a) : (a \o b)[i] = a[i]
           /\ \A i \in 1..Len(b) : (a \o b)[Len(a) + i] = b[i]
<1>1. a \in Seq(Bytes) /\ b \in Seq(Bytes) /\ Len(a) \in Nat /\ Len(b) \in Nat
  BY SeqFacts DEF Words
<1>2. \A i \in 1..(Len(a) + Len(b)) : (a \o b)[i] = IF i <= Len(a) THEN a[i] ELSE b[i - Len(a)]
  BY <1>1, ConcatProperties
<1>3. ASSUME NEW i \in 1..Len(a) PROVE (a \o b)[i] = a[i]
  <2>1. i \in 1..(Len(a) + Len(b)) /\ i <= Len(a)
    BY <1>1
  <2> QED BY <1>2, <2>1
<1>4. ASSUME NEW i \in 1..Len(b) PROVE (a \o b)[Len(a) + i] = b[i]
  <2>1. /\ Len(a) + i \in 1..(Len(a) + Len(b)) /\ ~(Len(a) + i <= Len(a))
        /\ (Len(a) + i) - Len(a) = i
    BY <1>1
  <2> QED BY <1>2, <2>1
<1> QED BY <1>3, <1>4

LEMMA ByteAssoc ==
    ASSUME NEW a \in Words, NEW b \in Bytes, NEW c \in Words
    PROVE  Assoc(a, <<b>>, c) /\ Assoc(<<b>>, a, c)
<1> DEFINE u == <<b>>
<1>1. u \in Words
  BY WordFacts
<1> HIDE DEF u
<1>2. Assoc(a, u, c) /\ Assoc(u, a, c)
  BY <1>1, WordAssoc
<1> QED BY <1>2 DEF u

LEMMA WordEqual ==
    ASSUME NEW a \in Words, NEW b \in Words, Len(a) = Len(b), \A i \in 1..Len(a) : a[i] = b[i]
    PROVE  a = b
BY SeqEqual DEF Words

\* c is a followed by what b has before d.
Extends(c, a, b, d) ==
    \E e \in Words : c = a \o e /\ b = e \o d /\ Len(e) = Len(c) - Len(a)

LEMMA CommonPrefix ==
    ASSUME NEW a \in Words, NEW b \in Words, NEW c \in Words, NEW d \in Words,
           a \o b = c \o d, Len(a) <= Len(c)
    PROVE  Extends(c, a, b, d)
<1> DEFINE m == Len(a)
           p == SubSeq(c, 1, m)
           e == SubSeq(c, m + 1, Len(c))
<1>1. /\ Len(a) \in Nat /\ Len(b) \in Nat /\ Len(c) \in Nat /\ Len(d) \in Nat
      /\ Len(a) + Len(b) = Len(c) + Len(d)
  BY WordFacts
<1>2. m \in 0..Len(c)
  BY <1>1
<1>3. /\ p \in Words /\ e \in Words /\ c = p \o e /\ Len(p) = m /\ Len(e) = Len(c) - m
      /\ \A i \in 1..m : p[i] = c[i]
      /\ \A i \in 1..(Len(c) - m) : e[i] = c[m + i]
  BY <1>2, WordParts
<1> HIDE DEF p, e
<1>4. /\ \A i \in 1..m : (a \o b)[i] = a[i]
      /\ \A i \in 1..Len(b) : (a \o b)[m + i] = b[i]
      /\ \A i \in 1..Len(c) : (c \o d)[i] = c[i]
      /\ \A i \in 1..Len(d) : (c \o d)[Len(c) + i] = d[i]
      /\ \A i \in 1..Len(e) : (e \o d)[i] = e[i]
      /\ \A i \in 1..Len(d) : (e \o d)[Len(e) + i] = d[i]
  <2>1. /\ \A i \in 1..m : (a \o b)[i] = a[i]
        /\ \A i \in 1..Len(b) : (a \o b)[m + i] = b[i]
    BY WordItems
  <2>2. /\ \A i \in 1..Len(c) : (c \o d)[i] = c[i]
        /\ \A i \in 1..Len(d) : (c \o d)[Len(c) + i] = d[i]
    BY WordItems
  <2>3. /\ \A i \in 1..Len(e) : (e \o d)[i] = e[i]
        /\ \A i \in 1..Len(d) : (e \o d)[Len(e) + i] = d[i]
    BY <1>3, WordItems
  <2> QED BY <2>1, <2>2, <2>3
<1>5. p = a
  <2>1. ASSUME NEW i \in 1..m PROVE p[i] = a[i]
    <3>1. i \in 1..Len(c)
      BY <1>1
    <3> QED BY <1>3, <1>4, <3>1
  <2> QED BY <1>3, <2>1, WordEqual
<1>6. e \o d \in Words /\ Len(e \o d) = Len(b)
  BY <1>1, <1>3, WordFacts
<1>7. ASSUME NEW i \in 1..Len(b) PROVE b[i] = (e \o d)[i]
  <2>1. b[i] = (c \o d)[m + i]
    BY <1>4
  <2>2. CASE i <= Len(e)
    <3>1. i \in 1..Len(e) /\ i \in 1..(Len(c) - m) /\ m + i \in 1..Len(c)
      BY <1>1, <1>3, <2>2
    <3> QED BY <1>3, <1>4, <2>1, <3>1
  <2>3. CASE ~(i <= Len(e))
    <3> DEFINE j == i - Len(e)
    <3>1. j \in 1..Len(d) /\ i = Len(e) + j /\ m + i = Len(c) + j
      BY <1>1, <1>3, <2>3
    <3> HIDE DEF j
    <3> QED BY <1>4, <2>1, <3>1
  <2> QED BY <2>2, <2>3
<1>8. b = e \o d
  BY <1>6, <1>7, WordEqual
<1> QED BY <1>3, <1>5, <1>8 DEF Extends

LEMMA SameLength ==
    ASSUME NEW u \in Words, NEW p \in Words, NEW w \in Words, NEW q \in Words,
           Len(u) = Len(w), u \o p = w \o q
    PROVE  u = w /\ p = q
<1>1. Len(u) \in Nat /\ Len(u) <= Len(w)
  BY WordFacts
<1>2. Extends(w, u, p, q)
  BY <1>1, CommonPrefix
<1>3. PICK e \in Words : w = u \o e /\ p = e \o q /\ Len(e) = Len(w) - Len(u)
  BY <1>2 DEF Extends
<1>4. e = <<>>
  BY <1>1, <1>3, EmptySeq DEF Words
<1> QED BY <1>3, <1>4, WordFacts

LEMMA HeadTailWord ==
    ASSUME NEW a \in Words, a # <<>>
    PROVE  /\ Head(a) \in Bytes /\ Tail(a) \in Words /\ a = <<Head(a)>> \o Tail(a)
           /\ Len(a) >= 1
<1>1. a \in Seq(Bytes)
  BY DEF Words
<1>2. Head(a) \in Bytes /\ Tail(a) \in Seq(Bytes) /\ a = <<Head(a)>> \o Tail(a)
  BY <1>1, HeadTailConcat
<1> QED BY <1>1, <1>2, SeqFacts DEF Words

-----------------------------------------------------------------------------
(* What was sent, as a sequence of items, and its bytes.                   *)

MarkerItem == DataItem(ControlMarker)
Item == {DataItem(b) : b \in Bytes} \cup {ControlItem(m) : m \in Words \ {<<>>}}

Code(x) == IF x.type = "Data" THEN Escaped(x.data[1]) ELSE EncodeControl(x.data)
Encoded(items) == FlattenSeq([i \in DOMAIN items |-> Code(items[i])])

\* The item x whose bytes end with body, after a marker and length bytes.
Framed(x, body) == \/ x = MarkerItem /\ body = <<>>
                   \/ x = ControlItem(body) /\ body # <<>>

LEMMA BasicBytes ==
    /\ Radix \in Nat \ {0, 1} /\ Radix \in Nat \ {0} /\ HighBit \in Bytes /\ HighBit % Radix = 0
    /\ ControlMarker \in Bytes /\ MarkerItem \in Item
<1>1. /\ Radix \in Nat \ {0, 1} /\ ControlMarker \in 0..(Radix - 1)
  BY CodeAssumption
<1>2. ControlMarker \in Bytes /\ HighBit \in Bytes
  BY <1>1 DEF Bytes, HighBit
<1>3. HighBit % Radix = 0
  <2>1. 0 \in 0..(Radix - 1) /\ 0 + Radix = Radix
    BY <1>1
  <2>2. (0 + Radix) % Radix = 0
    BY <1>1, <2>1, ModFacts
  <2> QED BY <2>1, <2>2 DEF HighBit
<1> QED BY <1>1, <1>2, <1>3 DEF MarkerItem, Item

LEMMA ItemKinds ==
    /\ \A b \in Bytes : DataItem(b) \in Item /\ Code(DataItem(b)) = Escaped(b)
    /\ \A m \in Words \ {<<>>} : ControlItem(m) \in Item /\ Code(ControlItem(m)) = EncodeControl(m)
    /\ \A b, c \in Bytes : DataItem(b) = DataItem(c) => b = c
    /\ \A b \in Bytes, m \in Words : DataItem(b) # ControlItem(m)
<1>1. \A b \in Bytes : DataItem(b).type = "Data" /\ DataItem(b).data[1] = b
  BY DEF DataItem
<1>2. \A m \in Words : ControlItem(m).type = "Control" /\ ControlItem(m).data = m
  BY DEF ControlItem
<1>3. \A b \in Bytes : Code(DataItem(b)) = Escaped(b)
  BY <1>1 DEF Code
<1>4. \A m \in Words : Code(ControlItem(m)) = EncodeControl(m)
  BY <1>2 DEF Code
<1>5. \A b, c \in Bytes : DataItem(b) = DataItem(c) => b = c
  <2> SUFFICES ASSUME NEW b \in Bytes, NEW c \in Bytes, DataItem(b) = DataItem(c) PROVE b = c
    OBVIOUS
  <2> QED BY <1>1
<1>6. \A b \in Bytes, m \in Words : DataItem(b) # ControlItem(m)
  <2> SUFFICES ASSUME NEW b \in Bytes, NEW m \in Words, DataItem(b) = ControlItem(m) PROVE FALSE
    OBVIOUS
  <2>1. DataItem(b).type = "Data" /\ ControlItem(m).type = "Control"
    BY <1>1, <1>2
  <2> QED BY <2>1
<1> QED BY <1>3, <1>4, <1>5, <1>6 DEF Item

\* The bytes of an item: a byte of data as it is, or a marker, length bytes
\* that spell the length of the body, and the body.
Plain(x, w) == \E b \in Bytes : b # ControlMarker /\ x = DataItem(b) /\ w = <<b>>
Marked(x, w) ==
    \E h \in Words, body \in Words :
        /\ Framed(x, body) /\ Lengths(0, h, Len(body))
        /\ w = <<ControlMarker>> \o (h \o body)

LEMMA ItemBytes ==
    ASSUME NEW x \in Item
    PROVE  Code(x) \in Words /\ (Plain(x, Code(x)) \/ Marked(x, Code(x)))
<1>1. <<ControlMarker>> \in Words /\ <<HighBit>> \in Words
  BY BasicBytes, WordFacts
<1>2. ASSUME NEW b \in Bytes, x = DataItem(b), b # ControlMarker
      PROVE  Code(x) \in Words /\ Plain(x, Code(x))
  <2>1. Code(x) = <<b>>
    BY <1>2, ItemKinds DEF Escaped
  <2> QED BY <1>2, <2>1, WordFacts DEF Plain
<1>3. ASSUME x = MarkerItem
      PROVE  Code(x) \in Words /\ Marked(x, Code(x))
  <2> DEFINE h == <<HighBit>>
  <2>1. Code(x) = <<ControlMarker, HighBit>>
    BY <1>3, ItemKinds, BasicBytes DEF Escaped, MarkerItem
  <2>2. Code(x) = <<ControlMarker>> \o h
    BY <2>1
  <2>3. Lengths(0, h, 0)
    <3> DEFINE f == [i \in 0..1 |-> 0]
    <3>1. Len(h) = 1 /\ h[1] = HighBit /\ h # <<>>
      OBVIOUS
    <3>2. f \in [0..1 -> Nat] /\ f[0] = 0 /\ f[1] = 0
      OBVIOUS
    <3> HIDE DEF h, f
    <3>3. HighBit >= HighBit
      BY BasicBytes DEF Bytes
    <3>4. LengthStep(0, HighBit) = 0
      BY BasicBytes DEF LengthStep
    <3>5. \A i \in 1..1 : /\ f[i] = LengthStep(f[i - 1], h[i])
                          /\ h[i] >= HighBit <=> i = 1
      BY <3>1, <3>2, <3>3, <3>4
    <3> QED BY <3>1, <3>2, <3>5 DEF Lengths
  <2>4. h \o <<>> = h /\ Len(<<>>) = 0 /\ <<>> \in Words /\ <<ControlMarker>> \o h \in Words
    BY <1>1, WordFacts
  <2> HIDE DEF h
  <2>5. Code(x) = <<ControlMarker>> \o (h \o <<>>) /\ h \in Words
    BY <1>1, <2>2, <2>4 DEF h
  <2>6. Framed(x, <<>>)
    BY <1>3 DEF Framed
  <2> QED BY <2>2, <2>3, <2>4, <2>5, <2>6 DEF Marked
<1>4. ASSUME NEW m \in Words \ {<<>>}, x = ControlItem(m)
      PROVE  Code(x) \in Words /\ Marked(x, Code(x))
  <2> DEFINE d == Digits(Len(m))
             h == [d EXCEPT ![Len(d)] = @ + HighBit]
  <2>1. Len(m) \in Nat \ {0}
    BY EmptySeq, SeqFacts DEF Words
  <2>2. h \in Words /\ Lengths(0, h, Len(m))
    BY <2>1, DigitsSpell
  <2>3. Code(x) = (<<ControlMarker>> \o h) \o m
    BY <1>4, ItemKinds DEF EncodeControl
  <2> HIDE DEF h
  <2>4. Code(x) = <<ControlMarker>> \o (h \o m) /\ h \o m \in Words
    <3>1. (<<ControlMarker>> \o h) \o m = <<ControlMarker>> \o (h \o m)
      <4>1. Assoc(<<ControlMarker>>, h, m)
        BY <1>1, <2>2, WordAssoc
      <4> QED BY <4>1 DEF Assoc
    <3> QED BY <2>2, <2>3, <3>1, WordFacts
  <2>5. Code(x) \in Words
    BY <1>1, <2>4, WordFacts
  <2>6. Framed(x, m)
    BY <1>4 DEF Framed
  <2> QED BY <2>2, <2>4, <2>5, <2>6 DEF Marked
<1> QED BY <1>2, <1>3, <1>4 DEF Item, MarkerItem

LEMMA EncodedFacts ==
    /\ Encoded(<<>>) = <<>>
    /\ \A s \in Seq(Item) : Encoded(s) \in Words
    /\ \A s \in Seq(Item), x \in Item : Encoded(Append(s, x)) = Encoded(s) \o Code(x)
    /\ \A s, t \in Seq(Item) : Encoded(s \o t) = Encoded(s) \o Encoded(t)
    /\ \A x \in Item : Encoded(<<x>>) = Code(x)
<1> DEFINE f == [x \in Item |-> Code(x)]
<1>1. f \in [Item -> Words] /\ \A x \in Item : f[x] = Code(x)
  BY ItemBytes
<1> HIDE DEF f
<1>2. ASSUME NEW s \in Seq(Item) PROVE Encoded(s) = FlattenSeq(Each(s, f)) /\ Each(s, f) \in Seq(Words)
  <2>1. \A i \in DOMAIN s : s[i] \in Item
    BY SeqFacts
  <2>2. Each(s, f) = [i \in DOMAIN s |-> Code(s[i])]
    BY <1>1, <2>1 DEF Each
  <2>3. Each(s, f) \in Seq(Words)
    BY <1>1, EachFacts
  <2> QED BY <2>2, <2>3 DEF Encoded
<1>3. <<>> \in Seq(Item) /\ \A s \in Seq(Item), x \in Item : Append(s, x) \in Seq(Item)
  BY EmptySeq, AppendProperties
<1>4. Encoded(<<>>) = <<>>
  <2>1. Each(<<>>, f) = <<>>
    BY <1>1, EachFacts
  <2> QED BY <1>2, <1>3, <2>1, FlattenFacts
<1>5. \A s \in Seq(Item) : Encoded(s) \in Words
  BY <1>2, FlattenFacts
<1>6. ASSUME NEW s \in Seq(Item), NEW x \in Item PROVE Encoded(Append(s, x)) = Encoded(s) \o Code(x)
  <2>1. Each(Append(s, x), f) = Append(Each(s, f), f[x])
    BY <1>1, EachAppend
  <2>2. f[x] \in Words /\ f[x] = Code(x) /\ Each(s, f) \in Seq(Words)
    BY <1>1, <1>2
  <2>3. FlattenSeq(Append(Each(s, f), f[x])) = FlattenSeq(Each(s, f)) \o f[x]
    BY <2>2, FlattenAppend
  <2> QED BY <1>2, <1>3, <2>1, <2>2, <2>3
<1>7. ASSUME NEW s \in Seq(Item), NEW t \in Seq(Item) PROVE Encoded(s \o t) = Encoded(s) \o Encoded(t)
  <2> DEFINE D == {c \in Seq(Item) : Encoded(s \o c) = Encoded(s) \o Encoded(c)}
  <2>1. <<>> \in D
    <3>1. s \o <<>> = s /\ Encoded(s) \o <<>> = Encoded(s)
      BY <1>5, ConcatEmptySeq, WordFacts
    <3> QED BY <1>3, <1>4, <3>1
  <2>2. ASSUME NEW c \in Seq(Item), NEW x \in Item, c \in D PROVE Append(c, x) \in D
    <3>1. s \o Append(c, x) = Append(s \o c, x) /\ s \o c \in Seq(Item)
      BY ConcatAppend
    <3>2. /\ Encoded(Append(s \o c, x)) = Encoded(s \o c) \o Code(x)
          /\ Encoded(Append(c, x)) = Encoded(c) \o Code(x)
      BY <1>6, <3>1
    <3>3. Encoded(s \o c) = Encoded(s) \o Encoded(c)
      BY <2>2
    <3>4. (Encoded(s) \o Encoded(c)) \o Code(x) = Encoded(s) \o (Encoded(c) \o Code(x))
      <4>1. Encoded(s) \in Words /\ Encoded(c) \in Words /\ Code(x) \in Words
        BY <1>5, ItemBytes
      <4>2. Assoc(Encoded(s), Encoded(c), Code(x))
        BY <4>1, WordAssoc
      <4> QED BY <4>2 DEF Assoc
    <3>5. Encoded(s \o Append(c, x)) = Encoded(s) \o Encoded(Append(c, x))
      BY <3>1, <3>2, <3>3, <3>4
    <3> QED BY <1>3, <3>5
  <2> HIDE DEF D
  <2>3. Seq(Item) \subseteq D
    BY <2>1, <2>2, SeqInd
  <2> QED BY <2>3 DEF D
<1>8. ASSUME NEW x \in Item PROVE Encoded(<<x>>) = Code(x)
  <2>1. Append(<<>>, x) = <<x>>
    OBVIOUS
  <2>2. Encoded(Append(<<>>, x)) = <<>> \o Code(x)
    BY <1>3, <1>4, <1>6
  <2> QED BY <2>1, <2>2, ItemBytes, WordFacts
<1> QED BY <1>4, <1>5, <1>6, <1>7, <1>8

LEMMA ItemSeqs ==
    /\ <<>> \in Seq(Item) /\ \A x \in Item : <<x>> \in Seq(Item)
    /\ \A s \in Seq(Item) : s \o <<>> = s /\ <<>> \o s = s /\ Len(s) \in Nat
    /\ \A s, t \in Seq(Item) : s \o t \in Seq(Item) /\ Len(s \o t) = Len(s) + Len(t)
    /\ \A s \in Seq(Item), x \in Item : Append(s, x) = s \o <<x>> /\ Append(s, x) \in Seq(Item)
<1>1. /\ <<>> \in Seq(Item) /\ \A x \in Item : <<x>> \in Seq(Item)
      /\ \A s \in Seq(Item) : s \o <<>> = s /\ <<>> \o s = s /\ Len(s) \in Nat
  BY EmptySeq, ConcatEmptySeq, SeqFacts
<1>2. \A s, t \in Seq(Item) : s \o t \in Seq(Item) /\ Len(s \o t) = Len(s) + Len(t)
  BY ConcatProperties
<1>3. \A s \in Seq(Item), x \in Item : Append(s, x) = s \o <<x>> /\ Append(s, x) \in Seq(Item)
  BY AppendIsConcat, AppendProperties
<1> QED BY <1>1, <1>2, <1>3

LEMMA ItemAssoc ==
    ASSUME NEW s \in Seq(Item), NEW t \in Seq(Item), NEW u \in Seq(Item)
    PROVE  Assoc(s, t, u)
BY SeqAssoc

LEMMA DataFacts ==
    /\ DataItems(<<>>) = <<>>
    /\ \A w \in Words : DataItems(w) \in Seq(Item) /\ EncodeData(w) = Encoded(DataItems(w))
    /\ \A w \in Words, b \in Bytes : DataItems(Append(w, b)) = Append(DataItems(w), DataItem(b))
<1> DEFINE g == [b \in Bytes |-> DataItem(b)]
<1>1. g \in [Bytes -> Item] /\ \A b \in Bytes : g[b] = DataItem(b)
  BY ItemKinds
<1> HIDE DEF g
<1>2. ASSUME NEW w \in Words PROVE DataItems(w) = Each(w, g)
  <2>1. \A i \in DOMAIN w : w[i] \in Bytes
    BY SeqFacts DEF Words
  <2> QED BY <1>1, <2>1 DEF DataItems, Each
<1>3. DataItems(<<>>) = <<>>
  BY DEF DataItems
<1>4. ASSUME NEW w \in Words PROVE DataItems(w) \in Seq(Item)
  <2>1. Each(w, g) \in Seq(Item)
    BY <1>1, EachFacts DEF Words
  <2> QED BY <1>2, <2>1
<1>5. ASSUME NEW w \in Words PROVE EncodeData(w) = Encoded(DataItems(w))
  <2>1. \A i \in DOMAIN w : w[i] \in Bytes
    BY SeqFacts DEF Words
  <2>2. DOMAIN DataItems(w) = DOMAIN w /\ \A i \in DOMAIN w : DataItems(w)[i] = DataItem(w[i])
    BY DEF DataItems
  <2>3. \A i \in DOMAIN w : Code(DataItems(w)[i]) = Escaped(w[i])
    BY <2>1, <2>2, ItemKinds
  <2>4. [i \in DOMAIN DataItems(w) |-> Code(DataItems(w)[i])] = [i \in DOMAIN w |-> Escaped(w[i])]
    BY <2>2, <2>3
  <2> QED BY <2>4 DEF EncodeData, Encoded
<1>6. ASSUME NEW w \in Words, NEW b \in Bytes
      PROVE  DataItems(Append(w, b)) = Append(DataItems(w), DataItem(b))
  <2>1. w \in Seq(Bytes) /\ Append(w, b) \in Words
    BY AppendProperties DEF Words
  <2>2. Each(Append(w, b), g) = Append(Each(w, g), g[b])
    BY <1>1, <2>1, EachAppend
  <2> QED BY <1>1, <1>2, <2>1, <2>2
<1> QED BY <1>3, <1>4, <1>5, <1>6

-----------------------------------------------------------------------------
(* In step with the sender: what was returned is the beginning of what was *)
(* sent, and the bytes left are those of the rest, from the place in the   *)
(* next item where the state of the machine says it is.                    *)

Reading(rest, left, len) ==
    \E x \in Item, t \in Seq(Item), h \in Words, body \in Words :
        /\ rest = <<x>> \o t /\ Framed(x, body)
        /\ Lengths(len, h, Len(body)) /\ left = h \o (body \o Encoded(t))

Filling(rest, left, len, buf) ==
    \E m \in Words, r \in Words, t \in Seq(Item) :
        /\ rest = <<ControlItem(m)>> \o t /\ m = buf \o r /\ r # <<>>
        /\ len = Len(m) /\ left = r \o Encoded(t)

Phase(rest, left, st, len, buf) ==
    \/ st = "RecvNormal" /\ left = Encoded(rest)
    \/ st = "RecvLength" /\ Reading(rest, left, len)
    \/ st = "RecvMessage" /\ Filling(rest, left, len, buf)

Unmarked(d) == \A i \in 1..Len(d) : d[i] # MarkerItem

InStep(s, d, left, st, len, buf) ==
    /\ Unmarked(d)
    /\ \E rest \in Seq(Item) : s = d \o rest /\ Phase(rest, left, st, len, buf)

\* Out of step: a marker was sent as data and returned.
Lost(s, d) ==
    \E a \in Seq(Item), b \in Seq(Item), c \in Seq(Item) :
        /\ Unmarked(a)
        /\ s = (a \o <<MarkerItem>>) \o b /\ d = (a \o <<MarkerItem>>) \o c

\* Sending more changes nothing for what is under way.
LEMMA SendKeepsStep ==
    ASSUME NEW s \in Seq(Item), NEW d \in Seq(Item), NEW left \in Words, NEW st, NEW len,
           NEW buf \in Words, InStep(s, d, left, st, len, buf), NEW more \in Seq(Item)
    PROVE  InStep(s \o more, d, left \o Encoded(more), st, len, buf)
<1>1. PICK rest \in Seq(Item) : s = d \o rest /\ Phase(rest, left, st, len, buf)
  BY DEF InStep
<1>2. s \o more = d \o (rest \o more) /\ rest \o more \in Seq(Item)
  <2>1. Assoc(d, rest, more)
    BY <1>1, ItemAssoc
  <2>2. rest \o more \in Seq(Item)
    BY <1>1, ItemSeqs
  <2> QED BY <1>1, <2>1, <2>2 DEF Assoc
<1> DEFINE e == Encoded(more)
<1>3. e \in Words
  BY EncodedFacts
<1>4. \A t \in Seq(Item) : Encoded(t) \o e = Encoded(t \o more) /\ Encoded(t) \in Words
                           /\ t \o more \in Seq(Item)
  BY EncodedFacts, ItemSeqs
<1> HIDE DEF e
<1>5. Phase(rest \o more, left \o e, st, len, buf)
  <2>1. CASE st = "RecvNormal" /\ left = Encoded(rest)
    BY <1>4, <2>1 DEF Phase
  <2>2. CASE st = "RecvLength" /\ Reading(rest, left, len)
    <3>1. PICK x \in Item, t \in Seq(Item), h \in Words, body \in Words :
            /\ rest = <<x>> \o t /\ Framed(x, body)
            /\ Lengths(len, h, Len(body)) /\ left = h \o (body \o Encoded(t))
      BY <2>2 DEF Reading
    <3>2. rest \o more = <<x>> \o (t \o more)
      <4>1. <<x>> \in Seq(Item)
        BY ItemSeqs
      <4>2. Assoc(<<x>>, t, more)
        BY <4>1, ItemAssoc
      <4> QED BY <3>1, <4>2 DEF Assoc
    <3>3. left \o e = h \o (body \o Encoded(t \o more))
      <4>1. Encoded(t) \in Words /\ body \o Encoded(t) \in Words
        BY <1>4, WordFacts
      <4>2. Assoc(h, body \o Encoded(t), e) /\ Assoc(body, Encoded(t), e)
        BY <1>3, <4>1, WordAssoc
      <4>3. Encoded(t) \o e = Encoded(t \o more)
        BY <1>4
      <4> QED BY <3>1, <4>2, <4>3 DEF Assoc
    <3>4. Reading(rest \o more, left \o e, len)
      <4>1. PICK k \in Seq(Item) : k = t \o more
        BY <1>4
      <4>2. rest \o more = <<x>> \o k /\ left \o e = h \o (body \o Encoded(k))
        BY <3>2, <3>3, <4>1
      <4> QED BY <3>1, <4>2 DEF Reading
    <3> QED BY <2>2, <3>4 DEF Phase
  <2>3. CASE st = "RecvMessage" /\ Filling(rest, left, len, buf)
    <3>1. PICK m \in Words, r \in Words, t \in Seq(Item) :
            /\ rest = <<ControlItem(m)>> \o t /\ m = buf \o r /\ r # <<>>
            /\ len = Len(m) /\ left = r \o Encoded(t)
      BY <2>3 DEF Filling
    <3>2. ControlItem(m) \in Item
      <4>1. m # <<>>
        <5>1. Len(m) = Len(buf) + Len(r) /\ Len(buf) \in Nat /\ Len(r) \in Nat
          BY <3>1, WordFacts
        <5>2. Len(r) # 0
          BY <3>1, EmptySeq DEF Words
        <5> QED BY <5>1, <5>2, EmptySeq
      <4> QED BY <4>1, ItemKinds
    <3>3. rest \o more = <<ControlItem(m)>> \o (t \o more)
      <4>1. <<ControlItem(m)>> \in Seq(Item)
        BY <3>2, ItemSeqs
      <4>2. Assoc(<<ControlItem(m)>>, t, more)
        BY <4>1, ItemAssoc
      <4> QED BY <3>1, <4>2 DEF Assoc
    <3>4. left \o e = r \o Encoded(t \o more)
      <4>1. Encoded(t) \in Words
        BY <1>4
      <4>2. Assoc(r, Encoded(t), e)
        BY <1>3, <4>1, WordAssoc
      <4>3. Encoded(t) \o e = Encoded(t \o more)
        BY <1>4
      <4> QED BY <3>1, <4>2, <4>3 DEF Assoc
    <3>5. Filling(rest \o more, left \o e, len, buf)
      <4>1. PICK k \in Seq(Item) : k = t \o more
        BY <1>4
      <4>2. rest \o more = <<ControlItem(m)>> \o k /\ left \o e = r \o Encoded(k)
        BY <3>3, <3>4, <4>1
      <4> QED BY <3>1, <4>2 DEF Filling
    <3> QED BY <2>3, <3>5 DEF Phase
  <2> QED BY <1>1, <2>1, <2>2, <2>3 DEF Phase
<1> QED BY <1>2, <1>5 DEF InStep, e

LEMMA LostStaysLost ==
    ASSUME NEW s \in Seq(Item), NEW d \in Seq(Item), Lost(s, d), NEW x \in Seq(Item),
           NEW y \in Seq(Item)
    PROVE  Lost(s \o x, d \o y)
<1>1. PICK a \in Seq(Item), b \in Seq(Item), c \in Seq(Item) :
        /\ Unmarked(a)
        /\ s = (a \o <<MarkerItem>>) \o b /\ d = (a \o <<MarkerItem>>) \o c
  BY DEF Lost
<1> DEFINE p == a \o <<MarkerItem>>
<1>2. p \in Seq(Item)
  BY BasicBytes, ItemSeqs
<1> HIDE DEF p
<1>3. s = p \o b /\ d = p \o c /\ b \o x \in Seq(Item) /\ c \o y \in Seq(Item)
  BY <1>1, ItemSeqs DEF p
<1>4. (p \o b) \o x = p \o (b \o x)
  <2>1. Assoc(p, b, x)
    BY <1>2, ItemAssoc
  <2> QED BY <2>1 DEF Assoc
<1>5. (p \o c) \o y = p \o (c \o y)
  <2>1. Assoc(p, c, y)
    BY <1>2, ItemAssoc
  <2> QED BY <2>1 DEF Assoc
<1>6. s \o x = p \o (b \o x) /\ d \o y = p \o (c \o y)
  BY <1>3, <1>4, <1>5
<1> QED BY <1>1, <1>3, <1>6 DEF Lost, p

\* The first byte of what is left.
LEMMA FirstByte ==
    ASSUME NEW s \in Seq(Item), NEW b \in Bytes, NEW q \in Words, Encoded(s) = <<b>> \o q
    PROVE  \/ b = ControlMarker /\ Reading(s, q, 0)
           \/ /\ b # ControlMarker
              /\ \E t \in Seq(Item) : s = <<DataItem(b)>> \o t /\ q = Encoded(t)
<1>1. s # <<>>
  <2> SUFFICES ASSUME s = <<>> PROVE FALSE
    OBVIOUS
  <2>1. <<b>> \o q = <<>> /\ <<b>> \in Words /\ Len(<<b>>) = 1
    BY EncodedFacts, WordFacts
  <2>2. Len(<<b>> \o q) = 1 + Len(q) /\ Len(q) \in Nat
    BY <2>1, WordFacts
  <2> QED BY <2>1, <2>2, EmptySeq
<1> DEFINE x == Head(s)
           t == Tail(s)
           w == Code(x)
<1>2. x \in Item /\ t \in Seq(Item) /\ s = <<x>> \o t /\ <<x>> \in Seq(Item)
  BY <1>1, HeadTailConcat
<1> HIDE DEF x, t
<1>3. Encoded(s) = w \o Encoded(t) /\ Encoded(t) \in Words
  BY <1>2, EncodedFacts
<1>4. w \in Words /\ (Plain(x, w) \/ Marked(x, w))
  BY <1>2, ItemBytes
<1> HIDE DEF w
<1>5. CASE Plain(x, w)
  <2>1. PICK c \in Bytes : c # ControlMarker /\ x = DataItem(c) /\ w = <<c>>
    BY <1>5 DEF Plain
  <2>2. PICK u, f : u = <<b>> /\ f = Encoded(t) /\ u \o q = w \o f
    BY <1>3
  <2>3. b = c /\ q = f
    <3>1. u \in Words /\ f \in Words /\ Len(u) = 1 /\ Len(w) = 1
      BY <1>3, <2>1, <2>2, WordFacts
    <3>2. Len(u) = Len(w) /\ u \o q = w \o f
      BY <2>2, <3>1
    <3>3. u = w /\ q = f
      BY <1>4, <3>1, <3>2, SameLength
    <3>4. <<b>> = <<c>>
      BY <2>1, <2>2, <3>3, Zenon
    <3> QED BY <3>3, <3>4
  <2> QED BY <1>2, <2>1, <2>2, <2>3
<1>6. CASE Marked(x, w)
  <2>1. PICK h \in Words, body \in Words :
          /\ Framed(x, body) /\ Lengths(0, h, Len(body))
          /\ w = <<ControlMarker>> \o (h \o body)
    BY <1>6 DEF Marked
  <2> DEFINE e == Encoded(t)
             m == <<ControlMarker>>
  <2>2. e \in Words /\ m \in Words /\ h \o body \in Words
    BY <1>3, BasicBytes, WordFacts
  <2> HIDE DEF e, m
  <2>3. (h \o body) \o e \in Words
    BY <2>2, WordFacts
  <2>4. (h \o body) \o e = h \o (body \o e)
    <3>1. Assoc(h, body, e)
      BY <2>2, WordAssoc
    <3> QED BY <3>1 DEF Assoc
  <2>5. (m \o (h \o body)) \o e = m \o ((h \o body) \o e)
    <3>1. Assoc(m, h \o body, e)
      BY <2>2, WordAssoc
    <3> QED BY <3>1 DEF Assoc
  <2>6. PICK u, f : u = <<b>> /\ f = (h \o body) \o e /\ u \o q = m \o f
    BY <1>3, <2>1, <2>5 DEF e, m
  <2>7. b = ControlMarker /\ q = (h \o body) \o e
    <3>1. f \in Words /\ m = <<ControlMarker>> /\ ControlMarker \in Bytes
      BY <2>3, <2>6, BasicBytes DEF m
    <3>2. u \in Words /\ Len(u) = 1 /\ Len(m) = 1
      BY <2>6, <3>1, WordFacts
    <3>3. Len(u) = Len(m) /\ u \o q = m \o f
      BY <2>6, <3>2
    <3>4. u = m /\ q = f
      BY <2>2, <3>1, <3>2, <3>3, SameLength
    <3>5. <<b>> = <<ControlMarker>>
      BY <2>6, <3>1, <3>4, Zenon
    <3> QED BY <2>6, <3>4, <3>5
  <2>8. Reading(s, q, 0)
    BY <1>2, <2>1, <2>4, <2>7 DEF Reading, e
  <2> QED BY <2>7, <2>8
<1> QED BY <1>4, <1>5, <1>6

-----------------------------------------------------------------------------
(* One turn of receive() keeps in step.                                    *)

LEMMA UnmarkedAppend ==
    ASSUME NEW d \in Seq(Item), Unmarked(d), NEW x \in Item, x # MarkerItem
    PROVE  Unmarked(Append(d, x))
<1>1. /\ Len(d) \in Nat /\ Len(Append(d, x)) = Len(d) + 1
      /\ \A i \in 1..(Len(d) + 1) : Append(d, x)[i] = IF i <= Len(d) THEN d[i] ELSE x
  BY SeqFacts
<1>2. ASSUME NEW i \in 1..(Len(d) + 1) PROVE Append(d, x)[i] # MarkerItem
  <2>1. CASE i <= Len(d)
    <3>1. i \in 1..Len(d)
      BY <1>1, <2>1
    <3> QED BY <1>1, <2>1, <3>1 DEF Unmarked
  <2>2. CASE ~(i <= Len(d))
    BY <1>1, <2>2
  <2> QED BY <2>1, <2>2
<1> QED BY <1>1, <1>2 DEF Unmarked

\* The next item was returned.
Returned(d, x, t) == d \o (<<x>> \o t) = Append(d, x) \o t

LEMMA ItemReturned ==
    ASSUME NEW d \in Seq(Item), NEW x \in Item, NEW t \in Seq(Item)
    PROVE  Returned(d, x, t) /\ Append(d, x) \in Seq(Item)
<1>1. <<x>> \in Seq(Item) /\ Append(d, x) = d \o <<x>> /\ Append(d, x) \in Seq(Item)
  BY ItemSeqs
<1>2. (d \o <<x>>) \o t = d \o (<<x>> \o t)
  <2>1. Assoc(d, <<x>>, t)
    BY <1>1, ItemAssoc
  <2> QED BY <2>1 DEF Assoc
<1> QED BY <1>1, <1>2 DEF Returned

LEMMA MarkerStep ==
    ASSUME NEW s \in Seq(Item), NEW d \in Seq(Item), NEW q \in Words, NEW len, NEW buf,
           InStep(s, d, <<ControlMarker>> \o q, "RecvNormal", len, buf)
    PROVE  InStep(s, d, q, "RecvLength", 0, buf)
<1>1. PICK rest \in Seq(Item) :
        s = d \o rest /\ Phase(rest, <<ControlMarker>> \o q, "RecvNormal", len, buf)
  BY DEF InStep
<1>2. Encoded(rest) = <<ControlMarker>> \o q
  BY <1>1 DEF Phase
<1>3. Reading(rest, q, 0)
  BY <1>2, BasicBytes, FirstByte
<1> QED BY <1>1, <1>3 DEF InStep, Phase

LEMMA ByteStep ==
    ASSUME NEW s \in Seq(Item), NEW d \in Seq(Item), NEW b \in Bytes, NEW q \in Words,
           NEW len, NEW buf, b # ControlMarker, InStep(s, d, <<b>> \o q, "RecvNormal", len, buf)
    PROVE  InStep(s, Append(d, DataItem(b)), q, "RecvNormal", len, buf)
<1>1. PICK rest \in Seq(Item) : s = d \o rest /\ Phase(rest, <<b>> \o q, "RecvNormal", len, buf)
  BY DEF InStep
<1>2. Encoded(rest) = <<b>> \o q
  BY <1>1 DEF Phase
<1>3. PICK t \in Seq(Item) : rest = <<DataItem(b)>> \o t /\ q = Encoded(t)
  BY <1>2, FirstByte
<1>4. DataItem(b) \in Item /\ DataItem(b) # MarkerItem
  BY BasicBytes, ItemKinds DEF MarkerItem
<1>5. s = Append(d, DataItem(b)) \o t /\ Append(d, DataItem(b)) \in Seq(Item)
  <2>1. Returned(d, DataItem(b), t) /\ Append(d, DataItem(b)) \in Seq(Item)
    BY <1>4, ItemReturned
  <2> QED BY <1>1, <1>3, <2>1 DEF Returned
<1>6. Unmarked(Append(d, DataItem(b)))
  BY <1>4, UnmarkedAppend DEF InStep
<1>7. Phase(t, q, "RecvNormal", len, buf)
  BY <1>3 DEF Phase
<1> QED BY <1>5, <1>6, <1>7 DEF InStep

\* A run of data, byte by byte.
LEMMA RunStep ==
    ASSUME NEW s \in Seq(Item), NEW d \in Seq(Item), NEW p \in Words, NEW q \in Words,
           NEW len, NEW buf, \A i \in 1..Len(p) : p[i] # ControlMarker,
           InStep(s, d, p \o q, "RecvNormal", len, buf)
    PROVE  InStep(s, d \o DataItems(p), q, "RecvNormal", len, buf)
<1> DEFINE In(e, left) == InStep(s, e, left, "RecvNormal", len, buf)
           D == {w \in Words : \A r \in Words :
                    (\A i \in 1..Len(w) : w[i] # ControlMarker) /\ In(d, w \o r)
                        => In(d \o DataItems(w), r)}
<1>1. \A e \in Seq(Item), b \in Bytes, r \in Words :
        b # ControlMarker /\ In(e, <<b>> \o r) => In(Append(e, DataItem(b)), r)
  BY ByteStep
<1> HIDE DEF In
<1>2. <<>> \in D
  <2>1. d \o DataItems(<<>>) = d
    BY DataFacts, ItemSeqs
  <2> QED BY <2>1, WordFacts
<1>3. ASSUME NEW w \in Seq(Bytes), NEW b \in Bytes, w \in D PROVE Append(w, b) \in D
  <2> DEFINE v == Append(w, b)
  <2>1. w \in Words /\ v \in Words /\ Len(v) = Len(w) + 1 /\ Len(w) \in Nat /\ v = w \o <<b>>
        /\ \A i \in 1..(Len(w) + 1) : v[i] = IF i <= Len(w) THEN w[i] ELSE b
    BY SeqFacts, AppendIsConcat DEF Words
  <2>2. d \o DataItems(v) = Append(d \o DataItems(w), DataItem(b))
    <3>1. DataItems(w) \in Seq(Item) /\ DataItem(b) \in Item
      BY <2>1, DataFacts, ItemKinds
    <3>2. DataItems(v) = Append(DataItems(w), DataItem(b))
      BY <2>1, DataFacts
    <3> QED BY <3>1, <3>2, ConcatAppend
  <2> HIDE DEF v
  <2> SUFFICES ASSUME NEW r \in Words, \A i \in 1..Len(v) : v[i] # ControlMarker, In(d, v \o r)
               PROVE  In(d \o DataItems(v), r)
    BY <2>1 DEF v
  <2>3. /\ \A i \in 1..Len(w) : w[i] # ControlMarker
        /\ b # ControlMarker
    <3>1. Len(w) + 1 \in 1..(Len(w) + 1) /\ \A i \in 1..Len(w) : i \in 1..(Len(w) + 1) /\ i <= Len(w)
      BY <2>1
    <3>2. ~(Len(w) + 1 <= Len(w))
      BY <2>1
    <3> QED BY <2>1, <3>1, <3>2
  <2>4. <<b>> \in Words /\ <<b>> \o r \in Words
    BY WordFacts
  <2>5. v \o r = w \o (<<b>> \o r)
    <3>1. (w \o <<b>>) \o r = w \o (<<b>> \o r)
      <4>1. Assoc(w, <<b>>, r)
        BY <2>1, ByteAssoc
      <4> QED BY <4>1 DEF Assoc
    <3> QED BY <2>1, <3>1
  <2>6. In(d \o DataItems(w), <<b>> \o r)
    BY <1>3, <2>3, <2>4, <2>5
  <2>7. d \o DataItems(w) \in Seq(Item)
    BY <2>1, DataFacts, ItemSeqs
  <2> QED BY <1>1, <2>2, <2>3, <2>6, <2>7
<1> HIDE DEF D
<1>4. Seq(Bytes) \subseteq D
  BY <1>2, <1>3, SeqInd
<1>5. p \in D
  BY <1>4 DEF Words
<1>6. In(d, p \o q)
  BY DEF In
<1>7. In(d \o DataItems(p), q)
  BY <1>5, <1>6 DEF D
<1> QED BY <1>7 DEF In

\* A length byte.
LEMMA LengthByteStep ==
    ASSUME NEW s \in Seq(Item), NEW d \in Seq(Item), NEW b \in Bytes, NEW q \in Words,
           NEW len \in Nat, NEW buf, InStep(s, d, <<b>> \o q, "RecvLength", len, buf)
    PROVE  LET v == LengthStep(len, b)
           IN  /\ ~(b >= HighBit) => InStep(s, d, q, "RecvLength", v, buf)
               /\ b >= HighBit /\ v # 0 => InStep(s, d, q, "RecvMessage", v, <<>>)
               /\ b >= HighBit /\ v = 0 => Lost(s, Append(d, MarkerItem))
<1> DEFINE v == LengthStep(len, b)
<1>1. PICK rest \in Seq(Item) :
        s = d \o rest /\ Phase(rest, <<b>> \o q, "RecvLength", len, buf)
  BY DEF InStep
<1>2. Reading(rest, <<b>> \o q, len)
  BY <1>1 DEF Phase
<1>3. PICK x \in Item, t \in Seq(Item), h \in Words, body \in Words :
        /\ rest = <<x>> \o t /\ Framed(x, body)
        /\ Lengths(len, h, Len(body)) /\ <<b>> \o q = h \o (body \o Encoded(t))
  BY <1>2 DEF Reading
<1> DEFINE g == Tail(h)
           e == body \o Encoded(t)
<1>4. Len(body) \in Nat /\ e \in Words /\ Encoded(t) \in Words
  BY EncodedFacts, WordFacts
<1>5. /\ Head(h) \in Bytes /\ g \in Words /\ h = <<Head(h)>> \o g
      /\ \/ Head(h) >= HighBit /\ g = <<>> /\ LengthStep(len, Head(h)) = Len(body)
         \/ ~(Head(h) >= HighBit) /\ Lengths(LengthStep(len, Head(h)), g, Len(body))
  BY <1>3, <1>4, FirstLength
<1> HIDE DEF g, e
<1>6. b = Head(h) /\ q = g \o e
  <2>1. PICK c \in Bytes, k \in Words, f \in Words : c = Head(h) /\ k = g /\ f = e
    BY <1>4, <1>5
  <2>2. k \o f \in Words
    BY WordFacts
  <2>3. (<<c>> \o k) \o f = <<c>> \o (k \o f)
    <3>1. Assoc(<<c>>, k, f)
      BY ByteAssoc
    <3> QED BY <3>1 DEF Assoc
  <2>4. h = <<c>> \o k /\ <<b>> \o q = h \o f
    BY <1>3, <1>5, <2>1 DEF e
  <2>5. <<b>> \o q = <<c>> \o (k \o f)
    BY <2>3, <2>4, Zenon
  <2>6. b = c /\ q = k \o f
    <3>1. PICK u, w, g1 : u = <<b>> /\ w = <<c>> /\ g1 = k \o f /\ u \o q = w \o g1
      BY <2>5
    <3>2. u \in Words /\ w \in Words /\ g1 \in Words /\ Len(u) = 1 /\ Len(w) = 1
      BY <2>2, <3>1, WordFacts
    <3>3. Len(u) = Len(w) /\ u \o q = w \o g1
      BY <3>1, <3>2
    <3>4. u = w /\ q = g1
      BY <3>2, <3>3, SameLength
    <3>5. <<b>> = <<c>>
      BY <3>1, <3>4, Zenon
    <3> QED BY <3>1, <3>4, <3>5
  <2> QED BY <2>1, <2>6
<1>7. Unmarked(d)
  BY DEF InStep
<1>8. ASSUME ~(b >= HighBit) PROVE InStep(s, d, q, "RecvLength", v, buf)
  <2>1. Lengths(v, g, Len(body))
    BY <1>5, <1>6, <1>8
  <2>2. Reading(rest, q, v)
    BY <1>3, <1>5, <1>6, <2>1 DEF Reading, e
  <2> QED BY <1>1, <1>7, <2>2 DEF InStep, Phase
<1>9. ASSUME b >= HighBit PROVE q = e /\ v = Len(body)
  BY <1>4, <1>5, <1>6, <1>9, WordFacts
<1>10. ASSUME b >= HighBit, v # 0 PROVE InStep(s, d, q, "RecvMessage", v, <<>>)
  <2>1. body # <<>>
    BY <1>9, <1>10, EmptySeq
  <2>2. x = ControlItem(body)
    BY <1>3, <2>1 DEF Framed
  <2>3. body = <<>> \o body
    BY WordFacts
  <2>4. Filling(rest, q, v, <<>>)
    BY <1>3, <1>9, <1>10, <2>1, <2>2, <2>3 DEF Filling, e
  <2> QED BY <1>1, <1>7, <2>4 DEF InStep, Phase
<1>11. ASSUME b >= HighBit, v = 0 PROVE Lost(s, Append(d, MarkerItem))
  <2>1. body = <<>>
    BY <1>9, <1>11, EmptySeq DEF Words
  <2>2. x = MarkerItem
    BY <1>3, <2>1 DEF Framed
  <2>3. s = Append(d, MarkerItem) \o t
    <3>1. s = d \o (<<x>> \o t)
      BY <1>1, <1>3
    <3>2. Returned(d, x, t)
      BY ItemReturned
    <3> QED BY <2>2, <3>1, <3>2 DEF Returned
  <2>4. /\ Append(d, MarkerItem) = d \o <<MarkerItem>> /\ <<>> \in Seq(Item)
        /\ Append(d, MarkerItem) = Append(d, MarkerItem) \o <<>>
    BY BasicBytes, ItemSeqs
  <2> QED BY <1>7, <2>3, <2>4 DEF Lost
<1> QED BY <1>8, <1>10, <1>11

\* Some bytes of a message, p, but not more than are missing.
LEMMA MessageStep ==
    ASSUME NEW s \in Seq(Item), NEW d \in Seq(Item), NEW p \in Words, NEW q \in Words,
           NEW len \in Nat, NEW buf \in Words, Len(p) <= len - Len(buf),
           InStep(s, d, p \o q, "RecvMessage", len, buf)
    PROVE  /\ Len(p) # len - Len(buf) => InStep(s, d, q, "RecvMessage", len, buf \o p)
           /\ Len(p) = len - Len(buf) =>
                 /\ ControlItem(buf \o p) \in Item
                 /\ \A any : InStep(s, Append(d, ControlItem(buf \o p)), q, "RecvNormal", len, any)
<1>1. PICK rest \in Seq(Item) :
        s = d \o rest /\ Phase(rest, p \o q, "RecvMessage", len, buf)
  BY DEF InStep
<1>2. Filling(rest, p \o q, len, buf)
  BY <1>1 DEF Phase
<1>3. PICK m \in Words, r \in Words, t \in Seq(Item) :
        /\ rest = <<ControlItem(m)>> \o t /\ m = buf \o r /\ r # <<>>
        /\ len = Len(m) /\ p \o q = r \o Encoded(t)
  BY <1>2 DEF Filling
<1> DEFINE e == Encoded(t)
<1>4. e \in Words /\ Len(p) \in Nat /\ Len(r) \in Nat /\ Len(buf) \in Nat /\ len = Len(buf) + Len(r)
  BY <1>3, EncodedFacts, WordFacts
<1>5. p \o q = r \o e /\ Len(p) <= Len(r)
  BY <1>3, <1>4
<1> HIDE DEF e
<1>6. Extends(r, p, q, e)
  BY <1>4, <1>5, CommonPrefix
<1>7. PICK k \in Words : r = p \o k /\ q = k \o e /\ Len(k) = Len(r) - Len(p)
  BY <1>6 DEF Extends
<1>8. (buf \o p) \o k = buf \o (p \o k) /\ buf \o p \in Words
  <2>1. Assoc(buf, p, k)
    BY WordAssoc
  <2>2. buf \o p \in Words
    BY WordFacts
  <2> QED BY <2>1, <2>2 DEF Assoc
<1>9. Unmarked(d)
  BY DEF InStep
<1>10. ASSUME Len(p) # len - Len(buf) PROVE InStep(s, d, q, "RecvMessage", len, buf \o p)
  <2>1. k # <<>>
    BY <1>4, <1>7, <1>10, EmptySeq
  <2>2. m = (buf \o p) \o k
    BY <1>3, <1>7, <1>8
  <2>3. Filling(rest, q, len, buf \o p)
    BY <1>3, <1>7, <2>1, <2>2 DEF Filling, e
  <2> QED BY <1>1, <1>9, <2>3 DEF InStep, Phase
<1>11. ASSUME Len(p) = len - Len(buf), NEW any
       PROVE  /\ ControlItem(buf \o p) \in Item
              /\ InStep(s, Append(d, ControlItem(buf \o p)), q, "RecvNormal", len, any)
  <2>1. k = <<>>
    BY <1>4, <1>7, <1>11, EmptySeq DEF Words
  <2>2. r = p /\ q = e
    BY <1>4, <1>7, <2>1, WordFacts
  <2>3. m = buf \o p /\ m # <<>>
    <3>1. Len(r) # 0
      BY <1>3, EmptySeq DEF Words
    <3> QED BY <1>3, <1>4, <2>2, <3>1, EmptySeq
  <2>4. ControlItem(m) \in Item /\ ControlItem(m) # MarkerItem
    BY <2>3, BasicBytes, ItemKinds DEF MarkerItem
  <2>5. s = Append(d, ControlItem(m)) \o t
    <3>1. PICK x \in Item : x = ControlItem(m) /\ rest = <<x>> \o t
      BY <1>3, <2>4
    <3>2. s = d \o (<<x>> \o t)
      BY <1>1, <3>1
    <3>3. Returned(d, x, t)
      BY ItemReturned
    <3> QED BY <3>1, <3>2, <3>3 DEF Returned
  <2>6. Unmarked(Append(d, ControlItem(m)))
    BY <1>9, <2>4, UnmarkedAppend
  <2>7. Phase(t, q, "RecvNormal", len, any)
    BY <2>2 DEF Phase, e
  <2> QED BY <2>3, <2>4, <2>5, <2>6, <2>7 DEF InStep
<1> QED BY <1>10, <1>11


-----------------------------------------------------------------------------
(* The invariant: in step with the sender, or past an escaped marker.      *)

Tracks(s, d, left, st, len, buf) ==
    Lost(s, d) \/ InStep(s, d, left, st, len, buf)

\* Neither DecodesInOrder nor NothingStuck is inductive: both speak of what
\* was returned, and the next turn depends on the bytes that are left.
SInv ==
    /\ TypeOK
    /\ sent \in Seq(Item) /\ delivered \in Seq(Item)
    /\ Tracks(sent, delivered, rxBuffer \o wire, rstate, ctlLen, ctlBuffer)

LEMMA Typed ==
    ASSUME TypeOK
    PROVE  /\ wire \in Words /\ rxBuffer \in Words /\ ctlBuffer \in Words
           /\ rxBuffer \o wire \in Words /\ ctlLen \in Nat
<1>1. wire \in Words /\ rxBuffer \in Words /\ ctlBuffer \in Words /\ ctlLen \in Nat
  BY DEF TypeOK, Words
<1> QED BY <1>1, WordFacts

LEMMA InitSInv ==
    Init => SInv
<1> SUFFICES ASSUME Init PROVE SInv
  OBVIOUS
<1>1. TypeOK
  <2>1. 0 \in 0..(MaxControlMessage * Radix - 1)
    <3>1. MaxControlMessage \in Nat \ {0} /\ Radix \in Nat \ {0}
      BY CodeAssumption
    <3> QED BY <3>1
  <2>2. <<>> \in Seq(Bytes)
    BY WordFacts DEF Words
  <2> QED BY <2>1, <2>2 DEF Init, TypeOK
<1>2. sent = <<>> /\ delivered = <<>> /\ rxBuffer \o wire = <<>> /\ rstate = "RecvNormal"
  BY WordFacts DEF Init
<1>3. <<>> \in Seq(Item) /\ <<>> = <<>> \o <<>> /\ <<>> = Encoded(<<>>)
  BY ItemSeqs, EncodedFacts
<1>4. Unmarked(<<>>)
  BY EmptySeq DEF Unmarked
<1>5. InStep(sent, delivered, rxBuffer \o wire, rstate, ctlLen, ctlBuffer)
  BY <1>2, <1>3, <1>4 DEF InStep, Phase
<1> QED BY <1>1, <1>2, <1>3, <1>5 DEF SInv, Tracks

\* Sending, whatever it is.
LEMMA SendTracks ==
    ASSUME NEW s \in Seq(Item), NEW d \in Seq(Item), NEW left \in Words, NEW st, NEW len,
           NEW buf \in Words, Tracks(s, d, left, st, len, buf), NEW more \in Seq(Item)
    PROVE  Tracks(s \o more, d, left \o Encoded(more), st, len, buf)
<1>1. CASE Lost(s, d)
  <2>1. <<>> \in Seq(Item) /\ d \o <<>> = d
    BY ItemSeqs
  <2>2. Lost(s \o more, d \o <<>>)
    BY <1>1, <2>1, LostStaysLost
  <2> QED BY <2>1, <2>2 DEF Tracks
<1>2. CASE InStep(s, d, left, st, len, buf)
  BY <1>2, SendKeepsStep DEF Tracks
<1> QED BY <1>1, <1>2 DEF Tracks

LEMMA SendSInv ==
    ASSUME SInv, NEW more \in Seq(Item), sent' = sent \o more,
           wire' = wire \o Encoded(more), UNCHANGED rxVars
    PROVE  SInv'
<1> DEFINE e == Encoded(more)
<1>1. e \in Words
  BY EncodedFacts
<1>2. TypeOK /\ sent \in Seq(Item) /\ delivered \in Seq(Item)
      /\ Tracks(sent, delivered, rxBuffer \o wire, rstate, ctlLen, ctlBuffer)
  BY DEF SInv
<1>3. wire \in Words /\ rxBuffer \in Words /\ ctlBuffer \in Words /\ rxBuffer \o wire \in Words
  BY <1>2, Typed
<1>4. Tracks(sent \o more, delivered, (rxBuffer \o wire) \o Encoded(more), rstate, ctlLen, ctlBuffer)
  BY <1>2, <1>3, SendTracks
<1> HIDE DEF e
<1>5. (rxBuffer \o wire) \o e = rxBuffer \o (wire \o e) /\ wire \o e \in Words
  <2>1. Assoc(rxBuffer, wire, e)
    BY <1>1, <1>3, WordAssoc
  <2>2. wire \o e \in Words
    BY <1>1, <1>3, WordFacts
  <2> QED BY <2>1, <2>2 DEF Assoc
<1>6. /\ rxBuffer' = rxBuffer /\ rstate' = rstate /\ ctlLen' = ctlLen /\ ctlBuffer' = ctlBuffer
      /\ failed' = failed /\ delivered' = delivered
  BY DEF rxVars
<1>7. wire' = wire \o e /\ wire' \in Seq(Bytes)
  BY <1>5 DEF e, Words
<1>8. TypeOK'
  BY <1>2, <1>6, <1>7 DEF TypeOK
<1>9. Tracks(sent', delivered', rxBuffer' \o wire', rstate', ctlLen', ctlBuffer')
  BY <1>4, <1>5, <1>6, <1>7 DEF e
<1>10. sent' \in Seq(Item) /\ delivered' \in Seq(Item)
  BY <1>2, <1>6, ItemSeqs
<1> QED BY <1>8, <1>9, <1>10 DEF SInv

LEMMA SendDataSInv ==
    ASSUME SInv, NEW bytes \in DataRuns, SendData(bytes)
    PROVE  SInv'
<1>1. bytes \in Words
  BY InputAssumption DEF Words
<1>2. DataItems(bytes) \in Seq(Item) /\ EncodeData(bytes) = Encoded(DataItems(bytes))
  BY <1>1, DataFacts
<1>3. /\ sent' = sent \o DataItems(bytes) /\ wire' = wire \o Encoded(DataItems(bytes))
      /\ UNCHANGED rxVars
  BY <1>2 DEF SendData
<1> QED BY <1>2, <1>3, SendSInv

LEMMA SendControlSInv ==
    ASSUME SInv, NEW msg \in Messages, SendControl(msg)
    PROVE  SInv'
<1>1. msg \in Words \ {<<>>}
  BY InputAssumption DEF Words
<1>2. ControlItem(msg) \in Item /\ Code(ControlItem(msg)) = EncodeControl(msg)
  BY <1>1, ItemKinds
<1>3. PICK x \in Item : x = ControlItem(msg)
  BY <1>2
<1>4. PICK more \in Seq(Item) : more = <<x>>
  BY ItemSeqs
<1>5. EncodeControl(msg) = Encoded(more)
  BY <1>2, <1>3, <1>4, EncodedFacts
<1>6. sent \in Seq(Item) /\ Append(sent, x) = sent \o more
  BY <1>4, ItemSeqs DEF SInv
<1>7. /\ sent' = sent \o more /\ wire' = wire \o Encoded(more)
      /\ UNCHANGED rxVars
  BY <1>3, <1>5, <1>6 DEF SendControl
<1> QED BY <1>7, SendSInv


-----------------------------------------------------------------------------
(* One turn of receive().                                                  *)

LEMMA FillBufferSInv ==
    ASSUME SInv, FillBuffer
    PROVE  SInv'
<1>1. /\ TypeOK /\ sent \in Seq(Item) /\ delivered \in Seq(Item) /\ wire \in Words
      /\ Tracks(sent, delivered, rxBuffer \o wire, rstate, ctlLen, ctlBuffer)
  BY Typed DEF SInv
<1>2. PICK n \in 1..MaxChunk :
        /\ n <= Len(wire)
        /\ rxBuffer' = SubSeq(wire, 1, n)
        /\ wire' = SubSeq(wire, n + 1, Len(wire))
  BY DEF FillBuffer
<1>3. n \in 0..Len(wire)
  BY <1>1, <1>2, InputAssumption, WordFacts
<1>4. rxBuffer' \in Words /\ wire' \in Words /\ wire = rxBuffer' \o wire'
  BY <1>1, <1>2, <1>3, WordParts
<1>5. rxBuffer \o wire = rxBuffer' \o wire'
  <2>1. rxBuffer \o wire = wire
    BY <1>1, WordFacts DEF FillBuffer
  <2> QED BY <1>4, <2>1
<1>6. UNCHANGED <<rstate, ctlLen, ctlBuffer, failed, sent, delivered>>
  BY DEF FillBuffer
<1>7. TypeOK'
  BY <1>1, <1>4, <1>6 DEF TypeOK, Words
<1>8. Tracks(sent', delivered', rxBuffer' \o wire', rstate', ctlLen', ctlBuffer')
  BY <1>1, <1>5, <1>6
<1> QED BY <1>1, <1>6, <1>7, <1>8 DEF SInv

LEMMA ReceiveMarkerSInv ==
    ASSUME SInv, ReceiveMarker
    PROVE  SInv'
<1>1. /\ TypeOK /\ sent \in Seq(Item) /\ delivered \in Seq(Item)
      /\ wire \in Words /\ rxBuffer \in Words
      /\ Tracks(sent, delivered, rxBuffer \o wire, rstate, ctlLen, ctlBuffer)
  BY Typed DEF SInv
<1>2. /\ rstate = "RecvNormal" /\ rxBuffer # <<>> /\ Head(rxBuffer) = ControlMarker
      /\ rstate' = "RecvLength" /\ ctlLen' = 0 /\ rxBuffer' = Tail(rxBuffer)
      /\ UNCHANGED <<wire, ctlBuffer, failed, sent, delivered>>
  BY DEF ReceiveMarker
<1>3. rxBuffer' \in Words /\ rxBuffer = <<ControlMarker>> \o rxBuffer'
  BY <1>1, <1>2, HeadTailWord
<1>4. PICK r \in Words, w \in Words : r = rxBuffer' /\ w = wire /\ w = wire'
  BY <1>1, <1>2, <1>3
<1>5. r \o w \in Words
  BY WordFacts
<1>6. rxBuffer \o wire = <<ControlMarker>> \o (r \o w)
  <2>1. (<<ControlMarker>> \o r) \o w = <<ControlMarker>> \o (r \o w)
    <3>1. Assoc(<<ControlMarker>>, r, w)
      BY BasicBytes, ByteAssoc
    <3> QED BY <3>1 DEF Assoc
  <2> QED BY <1>3, <1>4, <2>1
<1>7. Tracks(sent, delivered, r \o w, "RecvLength", 0, ctlBuffer)
  <2>1. CASE Lost(sent, delivered)
    BY <2>1 DEF Tracks
  <2>2. CASE InStep(sent, delivered, rxBuffer \o wire, rstate, ctlLen, ctlBuffer)
    <3>1. InStep(sent, delivered, <<ControlMarker>> \o (r \o w), "RecvNormal", ctlLen, ctlBuffer)
      BY <1>2, <1>6, <2>2
    <3>2. InStep(sent, delivered, r \o w, "RecvLength", 0, ctlBuffer)
      BY <1>1, <1>5, <3>1, MarkerStep
    <3> QED BY <3>2 DEF Tracks
  <2> QED BY <1>1, <2>1, <2>2 DEF Tracks
<1>8. TypeOK'
  <2>1. 0 \in 0..(MaxControlMessage * Radix - 1)
    <3>1. MaxControlMessage \in Nat \ {0} /\ Radix \in Nat \ {0}
      BY CodeAssumption
    <3> QED BY <3>1
  <2> QED BY <1>1, <1>2, <1>3, <2>1 DEF TypeOK, Words
<1>9. Tracks(sent', delivered', rxBuffer' \o wire', rstate', ctlLen', ctlBuffer')
  BY <1>2, <1>4, <1>7
<1> QED BY <1>1, <1>2, <1>8, <1>9 DEF SInv

\* memchr finds the first marker.
LEMMA RunLength ==
    ASSUME NEW a \in Words, a # <<>>, Head(a) # ControlMarker
    PROVE  /\ DataRunLength(a) \in 0..Len(a)
           /\ \A i \in 1..DataRunLength(a) : a[i] # ControlMarker
<1> DEFINE Good(n) == /\ \A i \in 1..n : a[i] # ControlMarker
                      /\ n < Len(a) => a[n + 1] = ControlMarker
           T == {n \in Nat : n < Len(a) /\ a[n + 1] = ControlMarker}
<1>1. Len(a) \in Nat
  BY WordFacts
<1>2. \E n \in 0..Len(a) : Good(n)
  <2>1. CASE T = {}
    <3>1. ASSUME NEW i \in 1..Len(a) PROVE a[i] # ControlMarker
      <4>1. i - 1 \in Nat /\ i - 1 < Len(a) /\ (i - 1) + 1 = i
        BY <1>1
      <4>2. i - 1 \notin T
        BY <2>1
      <4> QED BY <4>1, <4>2
    <3>2. Good(Len(a))
      BY <1>1, <3>1
    <3>3. Len(a) \in 0..Len(a)
      BY <1>1
    <3> QED BY <3>2, <3>3
  <2>2. CASE T # {}
    <3>1. T \subseteq Nat
      OBVIOUS
    <3> HIDE DEF T
    <3>2. PICK n \in T : \A k \in T : n <= k
      BY <2>2, <3>1, LeastNat
    <3>3. n \in Nat /\ n < Len(a) /\ a[n + 1] = ControlMarker
      BY <3>2 DEF T
    <3>4. ASSUME NEW i \in 1..n PROVE a[i] # ControlMarker
      <4>1. i - 1 \in Nat /\ i - 1 < Len(a) /\ (i - 1) + 1 = i /\ ~(n <= i - 1)
        BY <1>1, <3>3
      <4>2. i - 1 \notin T
        BY <3>2, <4>1
      <4> QED BY <4>1, <4>2 DEF T
    <3>5. n \in 0..Len(a)
      BY <1>1, <3>3
    <3> QED BY <3>3, <3>4, <3>5
  <2> QED BY <2>1, <2>2
<1>3. DataRunLength(a) = CHOOSE n \in 0..Len(a) : Good(n)
  BY DEF DataRunLength
<1> HIDE DEF Good
<1>4. DataRunLength(a) \in 0..Len(a) /\ Good(DataRunLength(a))
  BY <1>2, <1>3
<1> QED BY <1>4 DEF Good

LEMMA ReceiveNormalSInv ==
    ASSUME SInv, ReceiveNormal
    PROVE  SInv'
<1>1. /\ TypeOK /\ sent \in Seq(Item) /\ delivered \in Seq(Item)
      /\ wire \in Words /\ rxBuffer \in Words
      /\ Tracks(sent, delivered, rxBuffer \o wire, rstate, ctlLen, ctlBuffer)
  BY Typed DEF SInv
<1> DEFINE act == DataRunLength(rxBuffer)
<1>2. /\ rstate = "RecvNormal" /\ rxBuffer # <<>> /\ Head(rxBuffer) # ControlMarker
      /\ delivered' = delivered \o DataItems(SubSeq(rxBuffer, 1, act))
      /\ rxBuffer' = SubSeq(rxBuffer, act + 1, Len(rxBuffer))
      /\ UNCHANGED <<wire, rstate, ctlLen, ctlBuffer, failed, sent>>
  BY DEF ReceiveNormal
<1>3. act \in 0..Len(rxBuffer) /\ \A i \in 1..act : rxBuffer[i] # ControlMarker
  BY <1>1, <1>2, RunLength
<1> HIDE DEF act
<1>4. PICK p \in Words, r \in Words, w \in Words :
        /\ p = SubSeq(rxBuffer, 1, act) /\ r = SubSeq(rxBuffer, act + 1, Len(rxBuffer)) /\ w = wire
        /\ rxBuffer = p \o r /\ Len(p) = act /\ \A i \in 1..act : p[i] = rxBuffer[i]
  BY <1>1, <1>3, WordParts
<1>5. rxBuffer' = r /\ delivered' = delivered \o DataItems(p) /\ wire' = w
  BY <1>2, <1>4
<1>6. r \o w \in Words /\ rxBuffer \o wire = p \o (r \o w)
  <2>1. (p \o r) \o w = p \o (r \o w)
    <3>1. Assoc(p, r, w)
      BY WordAssoc
    <3> QED BY <3>1 DEF Assoc
  <2>2. r \o w \in Words
    BY WordFacts
  <2> QED BY <1>4, <2>1, <2>2
<1>7. DataItems(p) \in Seq(Item)
  BY DataFacts
<1>8. Tracks(sent, delivered \o DataItems(p), r \o w, rstate, ctlLen, ctlBuffer)
  <2>1. CASE Lost(sent, delivered)
    <3>1. <<>> \in Seq(Item) /\ sent \o <<>> = sent
      BY <1>1, ItemSeqs
    <3>2. Lost(sent \o <<>>, delivered \o DataItems(p))
      BY <1>1, <1>7, <2>1, <3>1, LostStaysLost
    <3> QED BY <3>1, <3>2 DEF Tracks
  <2>2. CASE InStep(sent, delivered, rxBuffer \o wire, rstate, ctlLen, ctlBuffer)
    <3>1. InStep(sent, delivered, p \o (r \o w), "RecvNormal", ctlLen, ctlBuffer)
      BY <1>2, <1>6, <2>2
    <3>2. \A i \in 1..Len(p) : p[i] # ControlMarker
      BY <1>3, <1>4
    <3>3. InStep(sent, delivered \o DataItems(p), r \o w, "RecvNormal", ctlLen, ctlBuffer)
      BY <1>1, <1>6, <3>1, <3>2, RunStep
    <3> QED BY <1>2, <3>3 DEF Tracks
  <2> QED BY <1>1, <2>1, <2>2 DEF Tracks
<1>9. TypeOK'
  BY <1>1, <1>2, <1>5 DEF TypeOK, Words
<1>10. delivered' \in Seq(Item) /\ sent' \in Seq(Item)
  BY <1>1, <1>2, <1>5, <1>7, ItemSeqs
<1>11. Tracks(sent', delivered', rxBuffer' \o wire', rstate', ctlLen', ctlBuffer')
  BY <1>2, <1>5, <1>8
<1> QED BY <1>9, <1>10, <1>11 DEF SInv

LEMMA RejectLengthSInv ==
    ASSUME SInv, RejectLength
    PROVE  SInv'
BY DEF SInv, RejectLength, TypeOK


LEMMA ReceiveLengthSInv ==
    ASSUME SInv, ReceiveLength
    PROVE  SInv'
<1>1. /\ TypeOK /\ sent \in Seq(Item) /\ delivered \in Seq(Item)
      /\ wire \in Words /\ rxBuffer \in Words /\ ctlLen \in Nat
      /\ Tracks(sent, delivered, rxBuffer \o wire, rstate, ctlLen, ctlBuffer)
  BY Typed DEF SInv
<1>2. rstate = "RecvLength" /\ rxBuffer # <<>> /\ ctlLen < MaxControlMessage
  BY DEF ReceiveLength
<1>3. PICK b \in Bytes, r \in Words, w \in Words :
        b = Head(rxBuffer) /\ r = Tail(rxBuffer) /\ w = wire /\ rxBuffer = <<b>> \o r
  BY <1>1, <1>2, HeadTailWord
<1>4. PICK v : v = LengthStep(ctlLen, b)
  OBVIOUS
<1>5. /\ rxBuffer' = r /\ ctlLen' = v /\ wire' = w /\ failed' = failed /\ sent' = sent
      /\ delivered' = IF b >= HighBit /\ v = 0 THEN Append(delivered, MarkerItem) ELSE delivered
      /\ rstate' = IF b >= HighBit /\ v # 0 THEN "RecvMessage" ELSE rstate
      /\ ctlBuffer' = IF b >= HighBit /\ v # 0 THEN <<>> ELSE ctlBuffer
  BY <1>3, <1>4 DEF ReceiveLength, LengthStep, MarkerItem
<1>6. v \in 0..(MaxControlMessage * Radix - 1)
  <2>1. b % Radix \in 0..(Radix - 1)
    <3>1. b \in Nat /\ Radix \in Nat \ {0}
      BY BasicBytes DEF Bytes
    <3> QED BY <3>1, DivFacts
  <2>2. ctlLen \in 0..(MaxControlMessage - 1) /\ MaxControlMessage \in Nat /\ Radix \in Nat \ {0}
    BY <1>1, <1>2, CodeAssumption
  <2> QED BY <1>4, <2>1, <2>2, LengthBound DEF LengthStep
<1>7. r \o w \in Words /\ rxBuffer \o wire = <<b>> \o (r \o w)
  <2>1. (<<b>> \o r) \o w = <<b>> \o (r \o w)
    <3>1. Assoc(<<b>>, r, w)
      BY ByteAssoc
    <3> QED BY <3>1 DEF Assoc
  <2>2. r \o w \in Words
    BY WordFacts
  <2> QED BY <1>3, <2>1, <2>2
<1>8. delivered' \in Seq(Item) /\ sent' \in Seq(Item)
  BY <1>1, <1>5, BasicBytes, ItemSeqs
<1>9. Tracks(sent, delivered', r \o w, rstate', v, ctlBuffer')
  <2>1. CASE Lost(sent, delivered)
    <3>1. <<>> \in Seq(Item) /\ sent \o <<>> = sent
      BY <1>1, ItemSeqs
    <3>2. PICK y \in Seq(Item) : delivered' = delivered \o y
      <4>1. delivered = delivered \o <<>> /\ <<>> \in Seq(Item)
        BY <1>1, ItemSeqs
      <4>2. Append(delivered, MarkerItem) = delivered \o <<MarkerItem>> /\ <<MarkerItem>> \in Seq(Item)
        BY <1>1, BasicBytes, ItemSeqs
      <4> QED BY <1>5, <4>1, <4>2
    <3>3. Lost(sent \o <<>>, delivered \o y)
      BY <1>1, <2>1, <3>1, LostStaysLost
    <3> QED BY <3>1, <3>2, <3>3 DEF Tracks
  <2>2. CASE InStep(sent, delivered, rxBuffer \o wire, rstate, ctlLen, ctlBuffer)
    <3>1. InStep(sent, delivered, <<b>> \o (r \o w), "RecvLength", ctlLen, ctlBuffer)
      BY <1>2, <1>7, <2>2
    <3>2. /\ ~(b >= HighBit) => InStep(sent, delivered, r \o w, "RecvLength", v, ctlBuffer)
          /\ b >= HighBit /\ v # 0 => InStep(sent, delivered, r \o w, "RecvMessage", v, <<>>)
          /\ b >= HighBit /\ v = 0 => Lost(sent, Append(delivered, MarkerItem))
      BY <1>1, <1>4, <1>7, <3>1, LengthByteStep
    <3>3. CASE ~(b >= HighBit)
      BY <1>2, <1>5, <3>2, <3>3 DEF Tracks
    <3>4. CASE b >= HighBit /\ v # 0
      BY <1>5, <3>2, <3>4 DEF Tracks
    <3>5. CASE b >= HighBit /\ v = 0
      BY <1>5, <3>2, <3>5 DEF Tracks
    <3> QED BY <3>3, <3>4, <3>5
  <2> QED BY <1>1, <2>1, <2>2 DEF Tracks
<1>10. TypeOK'
  <2>1. ctlBuffer' \in Seq(Bytes) /\ rstate' \in {"RecvNormal", "RecvLength", "RecvMessage"}
    BY <1>1, <1>5, WordFacts DEF TypeOK, Words
  <2>2. rstate' = "RecvMessage" => Len(ctlBuffer') < ctlLen'
    <3>1. rstate' = "RecvMessage" => v # 0 /\ ctlBuffer' = <<>>
      BY <1>2, <1>5
    <3>2. Len(<<>>) = 0 /\ v \in Nat
      BY <1>6
    <3> QED BY <1>5, <3>1, <3>2
  <2>3. failed' \in BOOLEAN
    BY <1>1, <1>5 DEF TypeOK
  <2> QED BY <1>5, <1>6, <2>1, <2>2, <2>3 DEF TypeOK, Words
<1>11. Tracks(sent', delivered', rxBuffer' \o wire', rstate', ctlLen', ctlBuffer')
  BY <1>5, <1>9
<1> QED BY <1>8, <1>10, <1>11 DEF SInv

LEMMA ReceiveMessageSInv ==
    ASSUME SInv, ReceiveMessage
    PROVE  SInv'
<1>1. /\ TypeOK /\ sent \in Seq(Item) /\ delivered \in Seq(Item)
      /\ wire \in Words /\ rxBuffer \in Words /\ ctlLen \in Nat /\ ctlBuffer \in Words
      /\ Tracks(sent, delivered, rxBuffer \o wire, rstate, ctlLen, ctlBuffer)
  BY Typed DEF SInv
<1> DEFINE missing == ctlLen - Len(ctlBuffer)
           act == IF Len(rxBuffer) < missing THEN Len(rxBuffer) ELSE missing
<1>2. rstate = "RecvMessage" /\ rxBuffer # <<>> /\ Len(ctlBuffer) < ctlLen
  BY <1>1 DEF ReceiveMessage, TypeOK
<1>3. missing \in Nat \ {0} /\ act \in 0..Len(rxBuffer) /\ act <= missing
  BY <1>1, <1>2, WordFacts
<1> HIDE DEF act
<1>4. PICK p \in Words, r \in Words, w \in Words :
        /\ p = SubSeq(rxBuffer, 1, act) /\ r = SubSeq(rxBuffer, act + 1, Len(rxBuffer)) /\ w = wire
        /\ rxBuffer = p \o r /\ Len(p) = act
  <2>1. rxBuffer \in Words /\ wire \in Words /\ act \in 0..Len(rxBuffer)
    BY <1>1, <1>3
  <2> DEFINE a == SubSeq(rxBuffer, 1, act)
             b == SubSeq(rxBuffer, act + 1, Len(rxBuffer))
  <2>2. a \in Words /\ b \in Words /\ rxBuffer = a \o b /\ Len(a) = act
    BY <2>1, WordParts
  <2> QED BY <2>1, <2>2
<1>5. PICK got \in Words : got = ctlBuffer \o p
  BY <1>1, WordFacts
<1>6. /\ rxBuffer' = r /\ wire' = w
      /\ rstate' = IF act = missing THEN "RecvNormal" ELSE rstate
      /\ ctlBuffer' = IF act = missing THEN <<>> ELSE got
      /\ delivered' = IF act = missing THEN Append(delivered, ControlItem(got)) ELSE delivered
      /\ UNCHANGED <<ctlLen, failed, sent>>
  BY <1>4, <1>5 DEF ReceiveMessage, act
<1> HIDE DEF missing
<1>7. r \o w \in Words /\ rxBuffer \o wire = p \o (r \o w)
  <2>1. (p \o r) \o w = p \o (r \o w)
    <3>1. Assoc(p, r, w)
      BY WordAssoc
    <3> QED BY <3>1 DEF Assoc
  <2>2. r \o w \in Words
    BY WordFacts
  <2> QED BY <1>4, <2>1, <2>2
<1>8. Len(got) = Len(ctlBuffer) + act /\ Len(ctlBuffer) \in Nat
  <2>1. Len(ctlBuffer \o p) = Len(ctlBuffer) + Len(p) /\ Len(ctlBuffer) \in Nat
    BY <1>1, WordFacts
  <2> QED BY <1>4, <1>5, <2>1
<1>9. ASSUME act = missing PROVE ControlItem(got) \in Item
  <2>1. got # <<>>
    BY <1>3, <1>8, <1>9, EmptySeq
  <2> QED BY <2>1, ItemKinds
<1>10. delivered' \in Seq(Item) /\ sent' \in Seq(Item)
  BY <1>1, <1>6, <1>9, ItemSeqs
<1>11. Tracks(sent, delivered', r \o w, rstate', ctlLen, ctlBuffer')
  <2>1. CASE Lost(sent, delivered)
    <3>1. <<>> \in Seq(Item) /\ sent \o <<>> = sent
      BY <1>1, ItemSeqs
    <3>2. PICK y \in Seq(Item) : delivered' = delivered \o y
      <4>1. CASE act # missing
        BY <1>1, <1>6, <4>1, ItemSeqs
      <4>2. CASE act = missing
        <5>1. PICK x \in Item : x = ControlItem(got)
          BY <1>9, <4>2
        <5> QED BY <1>1, <1>6, <4>2, <5>1, ItemSeqs
      <4> QED BY <4>1, <4>2
    <3>3. Lost(sent \o <<>>, delivered \o y)
      BY <1>1, <2>1, <3>1, LostStaysLost
    <3> QED BY <3>1, <3>2, <3>3 DEF Tracks
  <2>2. CASE InStep(sent, delivered, rxBuffer \o wire, rstate, ctlLen, ctlBuffer)
    <3>1. InStep(sent, delivered, p \o (r \o w), "RecvMessage", ctlLen, ctlBuffer)
      BY <1>2, <1>7, <2>2
    <3>2. Len(p) <= ctlLen - Len(ctlBuffer) /\ missing = ctlLen - Len(ctlBuffer)
      BY <1>3, <1>4 DEF missing
    <3>3. /\ Len(p) # ctlLen - Len(ctlBuffer)
                => InStep(sent, delivered, r \o w, "RecvMessage", ctlLen, ctlBuffer \o p)
          /\ Len(p) = ctlLen - Len(ctlBuffer)
                => \A any : InStep(sent, Append(delivered, ControlItem(ctlBuffer \o p)), r \o w,
                                   "RecvNormal", ctlLen, any)
      BY <1>1, <1>7, <3>1, <3>2, MessageStep
    <3>4. CASE act = missing
      <4>1. InStep(sent, Append(delivered, ControlItem(got)), r \o w, "RecvNormal", ctlLen, <<>>)
        BY <1>4, <1>5, <3>2, <3>3, <3>4
      <4> QED BY <1>6, <3>4, <4>1 DEF Tracks
    <3>5. CASE act # missing
      <4>1. InStep(sent, delivered, r \o w, "RecvMessage", ctlLen, got)
        BY <1>4, <1>5, <3>2, <3>3, <3>5
      <4> QED BY <1>2, <1>6, <3>5, <4>1 DEF Tracks
    <3> QED BY <3>4, <3>5
  <2> QED BY <1>1, <2>1, <2>2 DEF Tracks
<1>12. TypeOK'
  <2>1. ctlBuffer' \in Seq(Bytes) /\ rstate' \in {"RecvNormal", "RecvLength", "RecvMessage"}
    BY <1>2, <1>6, WordFacts DEF Words
  <2>2. rstate' = "RecvMessage" => Len(ctlBuffer') < ctlLen'
    <3>1. rstate' = "RecvMessage" => act # missing /\ ctlBuffer' = got
      BY <1>6
    <3>2. act # missing => Len(got) < ctlLen
      <4>1. act \in Nat /\ missing = ctlLen - Len(ctlBuffer) /\ missing \in Nat
        BY <1>1, <1>3, WordFacts DEF missing
      <4> QED BY <1>1, <1>3, <1>8, <4>1
    <3> QED BY <1>6, <3>1, <3>2
  <2>3. failed' \in BOOLEAN /\ ctlLen' \in 0..(MaxControlMessage * Radix - 1)
    BY <1>1, <1>6 DEF TypeOK
  <2> QED BY <1>6, <2>1, <2>2, <2>3 DEF TypeOK, Words
<1>13. Tracks(sent', delivered', rxBuffer' \o wire', rstate', ctlLen', ctlBuffer')
  BY <1>6, <1>11
<1> QED BY <1>10, <1>12, <1>13 DEF SInv

LEMMA NextSInv ==
    SInv /\ [Next]_vars => SInv'
<1> SUFFICES ASSUME SInv, [Next]_vars PROVE SInv'
  OBVIOUS
<1>1. ASSUME NEW bytes \in DataRuns, SendData(bytes) PROVE SInv'
  BY <1>1, SendDataSInv
<1>2. ASSUME NEW msg \in Messages, SendControl(msg) PROVE SInv'
  BY <1>2, SendControlSInv
<1>3. CASE Receive
  BY <1>3, FillBufferSInv, ReceiveMarkerSInv, ReceiveNormalSInv, ReceiveLengthSInv,
     RejectLengthSInv, ReceiveMessageSInv DEF Receive
<1>4. CASE UNCHANGED vars
  BY <1>4 DEF vars, SInv, TypeOK
<1> QED BY <1>1, <1>2, <1>3, <1>4 DEF Next

\* In every state receive() is in step with send_data and send_control, or a
\* marker sent as data was already returned.
THEOREM StaysInStep ==
    Spec => []SInv
<1>1. Init => SInv
  BY InitSInv
<1>2. SInv /\ [Next]_vars => SInv'
  BY NextSInv
<1> QED BY <1>1, <1>2, PTL DEF Spec


-----------------------------------------------------------------------------
(* What the invariant says about what was returned.                        *)

LEMMA Beginning ==
    ASSUME NEW s \in Seq(Item), NEW n \in 0..Len(s)
    PROVE  /\ SubSeq(s, 1, n) \in Seq(Item) /\ Len(SubSeq(s, 1, n)) = n
           /\ \A i \in 1..n : SubSeq(s, 1, n)[i] = s[i]
<1> DEFINE p == SubSeq(s, 1, n)
<1>1. Len(s) \in Nat /\ \A i \in 1..Len(s) : s[i] \in Item
  BY SeqFacts
<1>2. \A j \in 1..n : s[j] \in Item
  BY <1>1
<1>3. /\ p \in Seq(Item) /\ Len(p) = (IF 1 <= n THEN n - 1 + 1 ELSE 0)
      /\ \A i \in 1..(n - 1 + 1) : p[i] = s[1 + i - 1]
  BY <1>1, <1>2, SubSeqProperties
<1> QED BY <1>1, <1>3

LEMMA SameBeginning ==
    ASSUME NEW s \in Seq(Item), NEW t \in Seq(Item), NEW n \in Nat, n <= Len(s), n <= Len(t),
           \A i \in 1..n : s[i] = t[i]
    PROVE  SubSeq(s, 1, n) = SubSeq(t, 1, n)
<1>1. n \in 0..Len(s) /\ n \in 0..Len(t)
  BY ItemSeqs
<1> DEFINE p == SubSeq(s, 1, n)
           q == SubSeq(t, 1, n)
<1>2. p \in Seq(Item) /\ Len(p) = n /\ \A i \in 1..n : p[i] = s[i]
  BY <1>1, Beginning
<1>3. q \in Seq(Item) /\ Len(q) = n /\ \A i \in 1..n : q[i] = t[i]
  BY <1>1, Beginning
<1> HIDE DEF p, q
<1>4. Len(p) = Len(q) /\ \A i \in 1..Len(p) : p[i] = q[i]
  BY <1>2, <1>3
<1> QED BY <1>2, <1>3, <1>4, SeqEqual DEF p, q

LEMMA ItemsOf ==
    ASSUME NEW s \in Seq(Item), NEW t \in Seq(Item)
    PROVE  /\ \A i \in 1..Len(s) : (s \o t)[i] = s[i]
           /\ \A i \in 1..Len(t) : (s \o t)[Len(s) + i] = t[i]
           /\ Len(s \o t) = Len(s) + Len(t) /\ Len(s) \in Nat /\ Len(t) \in Nat
<1>1. Len(s) \in Nat /\ Len(t) \in Nat /\ Len(s \o t) = Len(s) + Len(t)
  BY ItemSeqs
<1>2. \A i \in 1..(Len(s) + Len(t)) : (s \o t)[i] = IF i <= Len(s) THEN s[i] ELSE t[i - Len(s)]
  BY <1>1, ConcatProperties
<1>3. ASSUME NEW i \in 1..Len(s) PROVE (s \o t)[i] = s[i]
  <2>1. i \in 1..(Len(s) + Len(t)) /\ i <= Len(s)
    BY <1>1
  <2> QED BY <1>2, <2>1
<1>4. ASSUME NEW i \in 1..Len(t) PROVE (s \o t)[Len(s) + i] = t[i]
  <2>1. /\ Len(s) + i \in 1..(Len(s) + Len(t)) /\ ~(Len(s) + i <= Len(s))
        /\ (Len(s) + i) - Len(s) = i
    BY <1>1
  <2> QED BY <1>2, <2>1
<1> QED BY <1>1, <1>3, <1>4

\* Up to where the stream is known to be decoded.
Cut(s, k) ==
    /\ \A i \in 1..k : s[i] # MarkerItem
    /\ k < Len(s) => s[k + 1] = MarkerItem

CutAt(s) == CHOOSE k \in 0..Len(s) : Cut(s, k)

LEMMA DecodableIs ==
    Decodable = SubSeq(sent, 1, IF CutAt(sent) < Len(sent) THEN CutAt(sent) + 1 ELSE CutAt(sent))
BY DEF Decodable, CutAt, Cut, MarkerItem

LEMMA CutFacts ==
    ASSUME NEW s \in Seq(Item)
    PROVE  CutAt(s) \in 0..Len(s) /\ Cut(s, CutAt(s))
<1> DEFINE T == {n \in Nat : n < Len(s) /\ s[n + 1] = MarkerItem}
<1>1. Len(s) \in Nat
  BY ItemSeqs
<1>2. \E n \in 0..Len(s) : Cut(s, n)
  <2>1. CASE T = {}
    <3>1. ASSUME NEW i \in 1..Len(s) PROVE s[i] # MarkerItem
      <4>1. i - 1 \in Nat /\ i - 1 < Len(s) /\ (i - 1) + 1 = i
        BY <1>1
      <4>2. i - 1 \notin T
        BY <2>1
      <4> QED BY <4>1, <4>2
    <3>2. Cut(s, Len(s))
      BY <1>1, <3>1 DEF Cut
    <3>3. Len(s) \in 0..Len(s)
      BY <1>1
    <3> QED BY <3>2, <3>3
  <2>2. CASE T # {}
    <3>1. T \subseteq Nat
      OBVIOUS
    <3> HIDE DEF T
    <3>2. PICK n \in T : \A k \in T : n <= k
      BY <2>2, <3>1, LeastNat
    <3>3. n \in Nat /\ n < Len(s) /\ s[n + 1] = MarkerItem
      BY <3>2 DEF T
    <3>4. ASSUME NEW i \in 1..n PROVE s[i] # MarkerItem
      <4>1. i - 1 \in Nat /\ i - 1 < Len(s) /\ (i - 1) + 1 = i /\ ~(n <= i - 1)
        BY <1>1, <3>3
      <4>2. i - 1 \notin T
        BY <3>2, <4>1
      <4> QED BY <4>1, <4>2 DEF T
    <3>5. n \in 0..Len(s) /\ Cut(s, n)
      BY <1>1, <3>3, <3>4 DEF Cut
    <3> QED BY <3>5
  <2> QED BY <2>1, <2>2
<1> QED BY <1>2 DEF CutAt

\* In step: all that was returned is decodable.
LEMMA DecodableInStep ==
    ASSUME sent \in Seq(Item), NEW d \in Seq(Item), NEW rest \in Seq(Item), Unmarked(d),
           sent = d \o rest
    PROVE  /\ Decodable \in Seq(Item) /\ Len(d) <= Len(Decodable) /\ Len(Decodable) <= Len(sent)
           /\ \A i \in 1..Len(d) : Decodable[i] = d[i]
<1> DEFINE n == CutAt(sent)
           m == IF n < Len(sent) THEN n + 1 ELSE n
<1>1. n \in 0..Len(sent) /\ Cut(sent, n)
  BY CutFacts
<1>2. /\ \A i \in 1..Len(d) : sent[i] = d[i]
      /\ Len(sent) = Len(d) + Len(rest) /\ Len(d) \in Nat /\ Len(rest) \in Nat
  BY ItemsOf
<1> HIDE DEF n
<1>3. n >= Len(d)
  <2> SUFFICES ASSUME ~(n >= Len(d)) PROVE FALSE
    OBVIOUS
  <2>1. n + 1 \in 1..Len(d) /\ n < Len(sent)
    BY <1>1, <1>2
  <2>2. sent[n + 1] = MarkerItem
    BY <1>1, <2>1 DEF Cut
  <2> QED BY <1>2, <2>1, <2>2 DEF Unmarked
<1>4. m \in 0..Len(sent) /\ m >= Len(d) /\ Decodable = SubSeq(sent, 1, m)
  BY <1>1, <1>2, <1>3, DecodableIs DEF n
<1> HIDE DEF m
<1>5. /\ SubSeq(sent, 1, m) \in Seq(Item) /\ Len(SubSeq(sent, 1, m)) = m
      /\ \A i \in 1..m : SubSeq(sent, 1, m)[i] = sent[i]
  BY <1>4, Beginning
<1>6. \A i \in 1..Len(d) : i \in 1..m
  BY <1>2, <1>4
<1> QED BY <1>2, <1>4, <1>5, <1>6

\* Past a marker: decodable is what came up to it.
LEMMA DecodableLost ==
    ASSUME sent \in Seq(Item), NEW a \in Seq(Item), NEW p \in Seq(Item), NEW b \in Seq(Item),
           Unmarked(a), p = a \o <<MarkerItem>>, sent = p \o b
    PROVE  /\ Decodable \in Seq(Item) /\ Len(Decodable) = Len(p)
           /\ \A i \in 1..Len(p) : Decodable[i] = p[i]
<1> DEFINE n == CutAt(sent)
<1>1. n \in 0..Len(sent) /\ Cut(sent, n)
  BY CutFacts
<1> HIDE DEF n
<1>2. /\ \A i \in 1..Len(p) : sent[i] = p[i]
      /\ Len(sent) = Len(p) + Len(b) /\ Len(p) \in Nat /\ Len(b) \in Nat
  BY ItemsOf
<1>3. PICK z \in Seq(Item) : z = <<MarkerItem>> /\ Len(z) = 1 /\ z[1] = MarkerItem
  BY BasicBytes, ItemSeqs
<1>4. p = a \o z
  BY <1>3
<1>5. /\ \A i \in 1..Len(a) : p[i] = a[i]
      /\ \A i \in 1..Len(z) : p[Len(a) + i] = z[i]
      /\ Len(p) = Len(a) + Len(z) /\ Len(a) \in Nat
  BY <1>4, ItemsOf
<1>6. Len(p) = Len(a) + 1 /\ p[Len(a) + 1] = MarkerItem
  <2>1. 1 \in 1..Len(z)
    BY <1>3
  <2> QED BY <1>3, <1>5, <2>1
<1>7. ~(n < Len(a))
  <2> SUFFICES ASSUME n < Len(a) PROVE FALSE
    OBVIOUS
  <2>1. n + 1 \in 1..Len(a) /\ n + 1 \in 1..Len(p) /\ n < Len(sent)
    BY <1>1, <1>2, <1>5, <1>6
  <2>2. sent[n + 1] = MarkerItem
    BY <1>1, <2>1 DEF Cut
  <2> QED BY <1>2, <1>5, <2>1, <2>2 DEF Unmarked
<1>8. ~(n > Len(a))
  <2> SUFFICES ASSUME n > Len(a) PROVE FALSE
    OBVIOUS
  <2>1. Len(a) + 1 \in 1..n /\ Len(a) + 1 \in 1..Len(p)
    BY <1>1, <1>5, <1>6
  <2>2. sent[Len(a) + 1] # MarkerItem
    BY <1>1, <2>1 DEF Cut
  <2> QED BY <1>2, <1>6, <2>1, <2>2
<1>9. n = Len(a) /\ n < Len(sent) /\ n + 1 = Len(p)
  BY <1>1, <1>2, <1>5, <1>6, <1>7, <1>8
<1>10. Decodable = SubSeq(sent, 1, Len(p)) /\ Len(p) \in 0..Len(sent)
  BY <1>2, <1>9, DecodableIs DEF n
<1>11. /\ SubSeq(sent, 1, Len(p)) \in Seq(Item) /\ Len(SubSeq(sent, 1, Len(p))) = Len(p)
       /\ \A i \in 1..Len(p) : SubSeq(sent, 1, Len(p))[i] = sent[i]
  BY <1>10, Beginning
<1> QED BY <1>2, <1>10, <1>11


LEMMA InOrder ==
    SInv => DecodesInOrder
<1> SUFFICES ASSUME SInv PROVE DecodesInOrder
  OBVIOUS
<1>1. /\ sent \in Seq(Item) /\ delivered \in Seq(Item)
      /\ Tracks(sent, delivered, rxBuffer \o wire, rstate, ctlLen, ctlBuffer)
  BY DEF SInv
<1> DEFINE n == IF Len(delivered) < Len(Decodable) THEN Len(delivered) ELSE Len(Decodable)
<1> SUFFICES SubSeq(delivered, 1, n) = SubSeq(Decodable, 1, n)
  BY DEF DecodesInOrder
<1>2. CASE Lost(sent, delivered)
  <2>1. PICK a \in Seq(Item), b \in Seq(Item), c \in Seq(Item) :
          /\ Unmarked(a)
          /\ sent = (a \o <<MarkerItem>>) \o b /\ delivered = (a \o <<MarkerItem>>) \o c
    BY <1>2 DEF Lost
  <2>2. PICK p \in Seq(Item) : p = a \o <<MarkerItem>>
    BY BasicBytes, ItemSeqs
  <2>3. sent = p \o b /\ delivered = p \o c
    BY <2>1, <2>2
  <2>4. /\ Decodable \in Seq(Item) /\ Len(Decodable) = Len(p)
        /\ \A i \in 1..Len(p) : Decodable[i] = p[i]
    BY <1>1, <2>1, <2>2, <2>3, DecodableLost
  <2>5. /\ \A i \in 1..Len(p) : delivered[i] = p[i]
        /\ Len(delivered) = Len(p) + Len(c) /\ Len(p) \in Nat /\ Len(c) \in Nat
    BY <2>3, ItemsOf
  <2>6. n = Len(p) /\ n \in Nat /\ n <= Len(delivered) /\ n <= Len(Decodable)
    BY <2>4, <2>5
  <2> HIDE DEF n
  <2>7. \A i \in 1..n : delivered[i] = Decodable[i]
    BY <2>4, <2>5, <2>6
  <2> QED BY <1>1, <2>4, <2>6, <2>7, SameBeginning
<1>3. CASE InStep(sent, delivered, rxBuffer \o wire, rstate, ctlLen, ctlBuffer)
  <2>1. Unmarked(delivered) /\ \E rest \in Seq(Item) : sent = delivered \o rest
    BY <1>3 DEF InStep
  <2>2. /\ Decodable \in Seq(Item) /\ Len(delivered) <= Len(Decodable)
        /\ \A i \in 1..Len(delivered) : Decodable[i] = delivered[i]
    BY <1>1, <2>1, DecodableInStep
  <2>3. n = Len(delivered) /\ n \in Nat /\ n <= Len(delivered) /\ n <= Len(Decodable)
    BY <1>1, <2>2, ItemSeqs
  <2> HIDE DEF n
  <2>4. \A i \in 1..n : delivered[i] = Decodable[i]
    BY <2>2, <2>3
  <2> QED BY <1>1, <2>2, <2>3, <2>4, SameBeginning
<1> QED BY <1>1, <1>2, <1>3 DEF Tracks

\* Every item has at least one byte.
LEMMA NoBytesNoItems ==
    ASSUME NEW s \in Seq(Item), Encoded(s) = <<>>
    PROVE  s = <<>>
<1> SUFFICES ASSUME s # <<>> PROVE FALSE
  OBVIOUS
<1> DEFINE x == Head(s)
           t == Tail(s)
           w == Code(x)
<1>1. x \in Item /\ t \in Seq(Item) /\ s = <<x>> \o t /\ <<x>> \in Seq(Item)
  BY HeadTailConcat
<1> HIDE DEF x, t
<1>2. Encoded(s) = w \o Encoded(t) /\ Encoded(t) \in Words
  BY <1>1, EncodedFacts
<1>3. w \in Words /\ (Plain(x, w) \/ Marked(x, w))
  BY <1>1, ItemBytes
<1> HIDE DEF w
<1>4. Len(w) >= 1
  <2>1. CASE Plain(x, w)
    <3>1. PICK c \in Bytes : w = <<c>>
      BY <2>1 DEF Plain
    <3> QED BY <3>1
  <2>2. CASE Marked(x, w)
    <3>1. PICK h \in Words, body \in Words : w = <<ControlMarker>> \o (h \o body)
      BY <2>2 DEF Marked
    <3>2. PICK k \in Words, m \in Words : k = h \o body /\ m = <<ControlMarker>> /\ Len(m) = 1
      <4>1. h \o body \in Words
        BY WordFacts
      <4>2. <<ControlMarker>> \in Words
        BY BasicBytes, WordFacts
      <4>3. Len(<<ControlMarker>>) = 1
        OBVIOUS
      <4> QED BY <4>1, <4>2, <4>3
    <3>3. Len(m \o k) = Len(m) + Len(k) /\ Len(k) \in Nat
      BY WordFacts
    <3> QED BY <3>1, <3>2, <3>3
  <2> QED BY <1>3, <2>1, <2>2
<1>5. Len(w \o Encoded(t)) = Len(w) + Len(Encoded(t)) /\ Len(Encoded(t)) \in Nat /\ Len(w) \in Nat
  BY <1>2, <1>3, WordFacts
<1>6. Len(w \o Encoded(t)) = 0
  BY <1>2
<1> QED BY <1>4, <1>5, <1>6

LEMMA NoneStuck ==
    SInv => NothingStuck
<1> SUFFICES ASSUME SInv, wire = <<>>, rxBuffer = <<>> PROVE Len(delivered) >= Len(Decodable)
  BY DEF NothingStuck
<1>1. /\ sent \in Seq(Item) /\ delivered \in Seq(Item)
      /\ Tracks(sent, delivered, rxBuffer \o wire, rstate, ctlLen, ctlBuffer)
  BY DEF SInv
<1>2. CASE Lost(sent, delivered)
  <2>1. PICK a \in Seq(Item), b \in Seq(Item), c \in Seq(Item) :
          /\ Unmarked(a)
          /\ sent = (a \o <<MarkerItem>>) \o b /\ delivered = (a \o <<MarkerItem>>) \o c
    BY <1>2 DEF Lost
  <2>2. PICK p \in Seq(Item) : p = a \o <<MarkerItem>>
    BY BasicBytes, ItemSeqs
  <2>3. sent = p \o b /\ delivered = p \o c
    BY <2>1, <2>2
  <2>4. Len(Decodable) = Len(p)
    BY <1>1, <2>1, <2>2, <2>3, DecodableLost
  <2>5. Len(delivered) = Len(p) + Len(c) /\ Len(p) \in Nat /\ Len(c) \in Nat
    BY <2>3, ItemsOf
  <2> QED BY <2>4, <2>5
<1>3. CASE InStep(sent, delivered, rxBuffer \o wire, rstate, ctlLen, ctlBuffer)
  <2>1. rxBuffer \o wire = <<>>
    BY WordFacts
  <2>2. PICK rest \in Seq(Item) :
          Unmarked(delivered) /\ sent = delivered \o rest
          /\ Phase(rest, <<>>, rstate, ctlLen, ctlBuffer)
    BY <1>3, <2>1 DEF InStep
  <2>3. ASSUME NEW h \in Words, NEW k \in Words, h # <<>> PROVE h \o k # <<>>
    <3>1. Len(h \o k) = Len(h) + Len(k) /\ Len(h) \in Nat /\ Len(k) \in Nat
      BY WordFacts
    <3>2. Len(h) # 0
      BY <2>3, EmptySeq DEF Words
    <3> QED BY <3>1, <3>2, EmptySeq
  <2>4. ~Reading(rest, <<>>, ctlLen)
    <3> SUFFICES ASSUME Reading(rest, <<>>, ctlLen) PROVE FALSE
      OBVIOUS
    <3>1. PICK t \in Seq(Item), h \in Words, body \in Words :
            h # <<>> /\ <<>> = h \o (body \o Encoded(t))
      BY DEF Reading, Lengths
    <3>2. body \o Encoded(t) \in Words
      BY EncodedFacts, WordFacts
    <3> QED BY <2>3, <3>1, <3>2
  <2>5. ~Filling(rest, <<>>, ctlLen, ctlBuffer)
    <3> SUFFICES ASSUME Filling(rest, <<>>, ctlLen, ctlBuffer) PROVE FALSE
      OBVIOUS
    <3>1. PICK t \in Seq(Item), r \in Words : r # <<>> /\ <<>> = r \o Encoded(t)
      BY DEF Filling
    <3>2. Encoded(t) \in Words
      BY EncodedFacts
    <3> QED BY <2>3, <3>1, <3>2
  <2>6. rest = <<>>
    <3>1. Encoded(rest) = <<>>
      BY <2>2, <2>4, <2>5 DEF Phase
    <3> QED BY <3>1, NoBytesNoItems
  <2>7. sent = delivered
    BY <1>1, <2>2, <2>6, ItemSeqs
  <2>8. Len(Decodable) <= Len(sent)
    BY <1>1, <2>2, DecodableInStep
  <2>9. Decodable \in Seq(Item)
    BY <1>1, <2>2, DecodableInStep
  <2> QED BY <1>1, <2>7, <2>8, <2>9, ItemSeqs
<1> QED BY <1>1, <1>2, <1>3 DEF Tracks

\* The machine of receive() keeps its types: ctl_len_ stays below
\* maxControlMessage * 2^7, and ctl_got_ below ctl_len_ in RecvMessage.
THEOREM ShellStreamTypes ==
    Spec => []TypeOK
<1>1. SInv => TypeOK
  BY DEF SInv
<1> QED BY <1>1, StaysInStep, PTL

\* Whatever the chunks, receive() returns the data and the control messages
\* that were sent, in order and unaltered, up to the first marker in the data.
THEOREM ReceivedAsSent ==
    Spec => []DecodesInOrder
BY InOrder, StaysInStep, PTL

\* When all bytes are read, everything up to the first marker was returned.
THEOREM ReceivedInFull ==
    Spec => []NothingStuck
BY NoneStuck, StaysInStep, PTL
=============================================================================
