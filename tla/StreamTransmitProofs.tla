----------------------- MODULE StreamTransmitProofs -----------------------
(***************************************************************************)
(* Proofs about module StreamTransmit, for every set of streams, every     *)
(* width of stream ids and every bound.                                    *)
(***************************************************************************)
EXTENDS StreamTransmit, SequenceFacts, TLAPS

-----------------------------------------------------------------------------
(* The line of streams.                                                    *)

Distinct(line) == \A i, j \in DOMAIN line : line[i] = line[j] => i = j
Sorted(line, priority) ==
    \A i, j \in DOMAIN line : i < j => priority[line[i]] <= priority[line[j]]

\* enqueue_stream puts the stream behind those of lower priority and before
\* the others.
LEMMA EnqueuePlace ==
    ASSUME NEW line \in Seq(Streams), NEW s \in Streams, NEW priority \in [Streams -> Int]
    PROVE  \E n \in 0..Len(line) :
              /\ Enqueue(line, s, priority) = InsertAt(line, n + 1, s)
              /\ \A j \in 1..n : priority[line[j]] < priority[s]
              /\ n < Len(line) => priority[line[n + 1]] >= priority[s]
<1> DEFINE Fits(i) == /\ \A j \in 1..i : priority[line[j]] < priority[s]
                      /\ i < Len(line) => priority[line[i + 1]] >= priority[s]
           T == {i \in 0..Len(line) : i < Len(line) => priority[line[i + 1]] >= priority[s]}
           at == CHOOSE i \in 0..Len(line) : Fits(i)
<1>0. Len(line) \in Nat /\ \A i \in 1..Len(line) : line[i] \in Streams
  BY SeqFacts
<1>1. PICK x \in T : \A y \in T : x <= y
  <2>1. Len(line) \in T /\ T \subseteq Nat
    BY <1>0
  <2> HIDE DEF T
  <2> QED BY <2>1, LeastNat
<1>2. x \in 0..Len(line)
  OBVIOUS
<1>3. ASSUME NEW j \in 1..x PROVE priority[line[j]] < priority[s]
  <2>1. j - 1 \in 0..Len(line) /\ j - 1 < x /\ j \in 1..Len(line) /\ (j - 1) + 1 = j
    BY <1>0, <1>2
  <2>2. ~(x <= j - 1)
    BY <1>2, <2>1
  <2>3. j - 1 \notin T
    BY <1>1, <2>2
  <2>4. ~(priority[line[j]] >= priority[s])
    BY <2>1, <2>3
  <2>5. priority[line[j]] \in Int /\ priority[s] \in Int
    BY <1>0, <2>1
  <2> QED BY <2>4, <2>5
<1>4. Fits(x)
  BY <1>1, <1>3
<1>5. at \in 0..Len(line) /\ Fits(at)
  BY <1>2, <1>4
<1>6. Enqueue(line, s, priority) = InsertAt(line, at + 1, s)
  BY DEF Enqueue
<1> HIDE DEF at
<1> QED BY <1>5, <1>6

LEMMA EnqueueLine ==
    ASSUME NEW line \in Seq(Streams), NEW s \in Streams, NEW priority \in [Streams -> Int],
           NEW new, new = Enqueue(line, s, priority)
    PROVE  /\ new \in Seq(Streams) /\ new # <<>>
           /\ ToSet(new) = ToSet(line) \cup {s}
           /\ Distinct(line) /\ s \notin ToSet(line) => Distinct(new)
           /\ Sorted(line, priority) => Sorted(new, priority)
<1>1. PICK n \in 0..Len(line) :
        /\ new = InsertAt(line, n + 1, s)
        /\ \A j \in 1..n : priority[line[j]] < priority[s]
        /\ n < Len(line) => priority[line[n + 1]] >= priority[s]
  BY EnqueuePlace
<1>2. /\ Len(line) \in Nat /\ DOMAIN line = 1..Len(line)
      /\ \A i \in 1..Len(line) : line[i] \in Streams
  BY SeqFacts
<1> DEFINE old == [j \in Nat |-> IF j <= n THEN j ELSE j - 1]
<1>3. /\ new \in Seq(Streams) /\ Len(new) = Len(line) + 1 /\ DOMAIN new = 1..(Len(line) + 1)
      /\ \A j \in 1..(Len(line) + 1) :
            new[j] = IF j <= n THEN line[j] ELSE IF j = n + 1 THEN s ELSE line[j - 1]
  <2> DEFINE r == InsertAt(line, n + 1, s)
  <2>1. /\ r \in Seq(Streams) /\ Len(r) = Len(line) + 1 /\ DOMAIN r = 1..(Len(line) + 1)
        /\ \A j \in 1..(Len(line) + 1) :
              r[j] = IF j <= n THEN line[j] ELSE IF j = n + 1 THEN s ELSE line[j - 1]
    BY InsertFacts
  <2> HIDE DEF r
  <2>2. new = r
    BY <1>1 DEF r
  <2> QED BY <2>1, <2>2
<1>4. n \in Nat /\ n <= Len(line) /\ new # <<>>
  BY <1>2, <1>3
<1>5. /\ n + 1 \in 1..(Len(line) + 1) /\ new[n + 1] = s
      /\ \A j \in 1..(Len(line) + 1) :
            j # n + 1 => old[j] \in 1..Len(line) /\ new[j] = line[old[j]]
      /\ \A i, j \in Nat : i < j /\ i # n + 1 /\ j # n + 1 => old[i] < old[j]
      /\ \A i, j \in Nat : i # n + 1 /\ j # n + 1 /\ old[i] = old[j] => i = j
  BY <1>2, <1>3, <1>4
<1>6. \A k \in 1..Len(line) : \E j \in DOMAIN new : new[j] = line[k]
  <2> SUFFICES ASSUME NEW k \in 1..Len(line) PROVE \E j \in DOMAIN new : new[j] = line[k]
    OBVIOUS
  <2>1. CASE k <= n
    <3>1. k \in 1..(Len(line) + 1)
      BY <1>2
    <3>2. new[k] = line[k]
      BY <1>3, <2>1, <3>1
    <3> QED BY <1>3, <3>1, <3>2
  <2>2. CASE ~(k <= n)
    <3>1. k + 1 \in 1..(Len(line) + 1) /\ ~(k + 1 <= n) /\ k + 1 # n + 1 /\ (k + 1) - 1 = k
      BY <1>2, <1>4, <2>2
    <3>2. k + 1 \in DOMAIN new /\ new[k + 1] = line[(k + 1) - 1]
      BY <1>3, <3>1
    <3> QED BY <3>1, <3>2
  <2> QED BY <2>1, <2>2
<1> HIDE DEF old
<1>7. ToSet(new) = ToSet(line) \cup {s}
  <2>1. \A j \in DOMAIN new : new[j] = s \/ \E k \in DOMAIN line : new[j] = line[k]
    <3>1. ASSUME NEW j \in 1..(Len(line) + 1), j # n + 1
          PROVE  \E k \in 1..Len(line) : new[j] = line[k]
      BY <1>5, <3>1
    <3>2. new[n + 1] = s
      BY <1>5
    <3> QED BY <1>2, <1>3, <3>1, <3>2
  <2>2. \A k \in DOMAIN line : \E j \in DOMAIN new : new[j] = line[k]
    BY <1>2, <1>6
  <2>3. \E j \in DOMAIN new : new[j] = s
    BY <1>3, <1>5
  <2> QED BY <2>1, <2>2, <2>3 DEF ToSet
<1>8. ASSUME Distinct(line), s \notin ToSet(line) PROVE Distinct(new)
  <2>1. \A k \in 1..Len(line) : line[k] # s
    BY <1>2, <1>8 DEF ToSet
  <2>2. \A k, l \in 1..Len(line) : line[k] = line[l] => k = l
    BY <1>2, <1>8 DEF Distinct
  <2>3. \A i \in 1..(Len(line) + 1) : i # n + 1 => new[i] # s
    BY <1>5, <2>1
  <2>4. ASSUME NEW i \in 1..(Len(line) + 1), NEW j \in 1..(Len(line) + 1), new[i] = new[j]
        PROVE  i = j
    <3>1. CASE i = n + 1 \/ j = n + 1
      BY <1>5, <2>3, <2>4, <3>1
    <3>2. CASE i # n + 1 /\ j # n + 1
      <4>1. old[i] \in 1..Len(line) /\ old[j] \in 1..Len(line) /\ line[old[i]] = line[old[j]]
        BY <1>5, <2>4, <3>2
      <4>2. old[i] = old[j]
        BY <2>2, <4>1
      <4>3. i \in Nat /\ j \in Nat
        OBVIOUS
      <4> QED BY <1>5, <3>2, <4>2, <4>3
    <3> QED BY <3>1, <3>2
  <2> QED BY <1>3, <2>4 DEF Distinct
<1>9. ASSUME Sorted(line, priority) PROVE Sorted(new, priority)
  <2> SUFFICES ASSUME NEW i \in DOMAIN new, NEW j \in DOMAIN new, i < j
               PROVE  priority[new[i]] <= priority[new[j]]
    BY DEF Sorted
  <2>1. \A k, l \in 1..Len(line) : k < l => priority[line[k]] <= priority[line[l]]
    BY <1>2, <1>9 DEF Sorted
  <2>2. \A k \in 1..Len(line) : priority[line[k]] \in Int
    BY <1>2
  <2>3. priority[s] \in Int /\ i \in Nat /\ j \in Nat
    <3>1. priority[s] \in Int
      OBVIOUS
    <3>2. i \in 1..(Len(line) + 1) /\ j \in 1..(Len(line) + 1)
      BY <1>3
    <3> QED BY <3>1, <3>2
  <2>4. ASSUME NEW k \in 1..Len(line), k > n PROVE priority[s] <= priority[line[k]]
    <3>1. n + 1 \in 1..Len(line) /\ n < Len(line) /\ (k = n + 1 \/ n + 1 < k)
      BY <1>2, <1>4, <2>4
    <3>2. priority[line[n + 1]] >= priority[s]
      BY <1>1, <3>1
    <3>3. priority[line[n + 1]] <= priority[line[k]]
      BY <2>1, <2>2, <3>1
    <3> QED BY <2>2, <2>3, <3>1, <3>2, <3>3
  <2>5. CASE i = n + 1
    <3>1. j \in 1..(Len(line) + 1) /\ j # n + 1 /\ ~(j <= n) /\ j - 1 > n
      <4>1. j \in 1..(Len(line) + 1)
        BY <1>3
      <4>2. n \in Nat /\ n + 1 < j /\ j \in Nat
        BY <1>4, <2>3, <2>5
      <4> QED BY <4>1, <4>2
    <3>2. old[j] = j - 1
      BY <2>3, <3>1 DEF old
    <3>3. old[j] \in 1..Len(line) /\ new[j] = line[old[j]] /\ new[i] = s
      BY <1>5, <2>5, <3>1
    <3> QED BY <2>4, <3>1, <3>2, <3>3
  <2>6. CASE j = n + 1
    <3>1. i \in 1..n /\ i \in 1..Len(line)
      BY <1>2, <1>3, <1>4, <2>3, <2>6
    <3>2. new[j] = s /\ new[i] = line[i]
      <4>1. new[j] = s
        BY <1>5, <2>6
      <4>2. i \in 1..(Len(line) + 1) /\ i <= n
        BY <1>3, <3>1
      <4> QED BY <1>3, <4>1, <4>2
    <3>3. priority[line[i]] < priority[s]
      BY <1>1, <3>1
    <3> QED BY <2>2, <2>3, <3>1, <3>2, <3>3
  <2>7. CASE i # n + 1 /\ j # n + 1
    <3>1. /\ old[i] \in 1..Len(line) /\ new[i] = line[old[i]]
          /\ old[j] \in 1..Len(line) /\ new[j] = line[old[j]]
      BY <1>3, <1>5, <2>7
    <3>2. old[i] < old[j]
      BY <1>5, <2>3, <2>7
    <3> QED BY <2>1, <3>1, <3>2
  <2> QED BY <2>5, <2>6, <2>7
<1> QED BY <1>3, <1>4, <1>7, <1>8, <1>9

\* The steps of dequeue_stream along the line.
LEMMA DequeueSteps ==
    ASSUME NEW line \in Seq(Streams), NEW S
    PROVE  \E kept \in [0..Len(line) -> Seq(Streams)] :
              /\ Dequeue(line, S) = kept[Len(line)]
              /\ kept[0] = <<>>
              /\ \A n \in 1..Len(line) :
                    kept[n] = IF line[n] \in S THEN kept[n - 1] ELSE Append(kept[n - 1], line[n])
<1> DEFINE N == Len(line)
           V == Seq(Streams)
           F == [x \in (1..N) \X V |-> IF line[x[1]] \in S THEN x[2] ELSE Append(x[2], line[x[1]])]
           Kept(f) == f = [n \in 0..N |-> IF n = 0 THEN <<>>
                             ELSE IF line[n] \in S THEN f[n - 1] ELSE Append(f[n - 1], line[n])]
           kept == CHOOSE f : Kept(f)
<1>1. N \in Nat /\ <<>> \in V /\ \A n \in 1..N : line[n] \in Streams
  BY SeqFacts
<1>2. F \in [(1..N) \X V -> V]
  BY <1>1
<1>3. \A n \in 1..N, q \in V : F[<<n, q>>] = IF line[n] \in S THEN q ELSE Append(q, line[n])
  OBVIOUS
<1> HIDE DEF F, V, N
<1>4. PICK f \in [0..N -> V] : f[0] = <<>> /\ \A n \in 1..N : f[n] = F[<<n, f[n - 1]>>]
  <2> DEFINE a == <<>>
  <2>1. a \in V /\ a = <<>>
    BY <1>1
  <2> HIDE DEF a
  <2>2. Steps(F, N, V)
    BY <1>2 DEF Steps
  <2>3. \E f \in [0..N -> V] : Follows(f, a, F, N)
    BY <1>1, <2>1, <2>2, Recursion
  <2> QED BY <2>1, <2>3 DEF Follows
<1>5. \A n \in 1..N : f[n] = IF line[n] \in S THEN f[n - 1] ELSE Append(f[n - 1], line[n])
  <2> SUFFICES ASSUME NEW n \in 1..N
               PROVE  f[n] = IF line[n] \in S THEN f[n - 1] ELSE Append(f[n - 1], line[n])
    OBVIOUS
  <2>1. n - 1 \in 0..N
    BY <1>1
  <2>2. f[n - 1] \in V
    BY <1>4, <2>1
  <2>3. F[<<n, f[n - 1]>>] = IF line[n] \in S THEN f[n - 1] ELSE Append(f[n - 1], line[n])
    BY <1>3, <2>2
  <2> QED BY <1>4, <2>3
<1>6. Kept(f)
  <2> DEFINE g == [n \in 0..N |-> IF n = 0 THEN <<>>
                     ELSE IF line[n] \in S THEN f[n - 1] ELSE Append(f[n - 1], line[n])]
  <2>1. ASSUME NEW n \in 0..N PROVE f[n] = g[n]
    <3>1. CASE n = 0
      BY <1>4, <3>1
    <3>2. CASE n # 0
      <4>1. n \in 1..N
        BY <1>1, <3>2
      <4> QED BY <1>5, <3>2, <4>1
    <3> QED BY <3>1, <3>2
  <2>2. DOMAIN f = DOMAIN g /\ f = [n \in DOMAIN f |-> f[n]] /\ g = [n \in DOMAIN g |-> g[n]]
    BY <1>4
  <2>3. DOMAIN g = 0..N
    OBVIOUS
  <2> HIDE DEF g
  <2>4. f = g
    BY <2>1, <2>2, <2>3
  <2> QED BY <2>4 DEF g
<1>7. Kept(kept)
  BY <1>6
<1>8. Dequeue(line, S) = kept[N]
  BY DEF Dequeue, N
<1> HIDE DEF kept
<1>9. /\ kept[0] = <<>>
      /\ \A n \in 1..N : kept[n] = IF line[n] \in S THEN kept[n - 1] ELSE Append(kept[n - 1], line[n])
  <2>1. \A n \in 0..N : kept[n] = IF n = 0 THEN <<>>
           ELSE IF line[n] \in S THEN kept[n - 1] ELSE Append(kept[n - 1], line[n])
    BY <1>7, Zenon
  <2>2. 0 \in 0..N /\ \A n \in 1..N : n \in 0..N /\ n # 0
    BY <1>1
  <2> QED BY <2>1, <2>2
<1>10. kept \in [0..N -> V]
  <2> DEFINE D == {n \in 0..N : kept[n] \in V}
  <2>1. 0 \in D
    BY <1>1, <1>9
  <2>2. ASSUME NEW n \in 1..N, n - 1 \in D PROVE n \in D
    <3>1. kept[n - 1] \in Seq(Streams) /\ line[n] \in Streams
      BY <1>1, <2>2 DEF V
    <3>2. kept[n] \in {kept[n - 1], Append(kept[n - 1], line[n])}
      BY <1>9
    <3>3. Append(kept[n - 1], line[n]) \in Seq(Streams)
      BY <3>1
    <3>4. kept[n] \in Seq(Streams)
      BY <3>1, <3>2, <3>3
    <3> QED BY <1>1, <3>4 DEF V
  <2> HIDE DEF D
  <2>3. 0..N \subseteq D
    BY <1>1, <2>1, <2>2, RangeInd
  <2>4. \A n \in 0..N : kept[n] \in V
    BY <2>3 DEF D
  <2>5. kept = [n \in 0..N |-> kept[n]]
    BY <1>7
  <2> QED BY <2>4, <2>5
<1> QED BY <1>8, <1>9, <1>10 DEF N, V

\* dequeue_stream keeps the others in their order.
LEMMA DequeueLine ==
    ASSUME NEW line \in Seq(Streams), NEW S, NEW new, new = Dequeue(line, S)
    PROVE  /\ new \in Seq(Streams)
           /\ ToSet(new) = ToSet(line) \ S
           /\ Distinct(line) => Distinct(new)
           /\ \A priority : Sorted(line, priority) => Sorted(new, priority)
<1> DEFINE N == Len(line)
<1>1. PICK kept \in [0..N -> Seq(Streams)] :
        /\ new = kept[N]
        /\ kept[0] = <<>>
        /\ \A n \in 1..N : kept[n] = IF line[n] \in S THEN kept[n - 1] ELSE Append(kept[n - 1], line[n])
  BY DequeueSteps
<1>2. N \in Nat /\ DOMAIN line = 1..N /\ \A i \in 1..N : line[i] \in Streams
  BY SeqFacts
<1> DEFINE From(q, n) ==
             /\ \A i \in 1..Len(q) : \E a \in 1..n : q[i] = line[a] /\ line[a] \notin S
             /\ \A a \in 1..n : line[a] \notin S => \E i \in 1..Len(q) : q[i] = line[a]
             /\ \A i, j \in 1..Len(q) : i < j => \E a, b \in 1..n : a < b /\ q[i] = line[a] /\ q[j] = line[b]
           D == {n \in 0..N : From(kept[n], n)}
<1>3. 0 \in D
  <2>1. Len(<<>>) = 0
    OBVIOUS
  <2> QED BY <1>1, <1>2, <2>1
<1>4. ASSUME NEW n \in 1..N, n - 1 \in D PROVE n \in D
  <2> DEFINE q == kept[n - 1]
             r == kept[n]
  <2>1. q \in Seq(Streams) /\ n - 1 \in 0..N /\ n \in 0..N /\ n \in Nat /\ line[n] \in Streams
    <3>1. n - 1 \in 0..N /\ n \in 0..N /\ n \in Nat
      BY <1>2
    <3>2. q \in Seq(Streams)
      BY <1>1, <3>1
    <3>3. line[n] \in Streams
      BY <1>2
    <3> QED BY <3>1, <3>2, <3>3
  <2>2. From(q, n - 1)
    BY <1>4
  <2>3. r = IF line[n] \in S THEN q ELSE Append(q, line[n])
    BY <1>1
  <2> HIDE DEF q, r
  <2>4. \A a \in 1..(n - 1) : a \in 1..n /\ a < n
    BY <2>1
  <2>5. \A a \in 1..n : a \in 1..(n - 1) \/ a = n
    BY <2>1
  <2>6. CASE line[n] \in S
    <3>1. \A i \in 1..Len(q) : \E a \in 1..n : q[i] = line[a] /\ line[a] \notin S
      BY <2>2, <2>4
    <3>2. \A a \in 1..n : line[a] \notin S => \E i \in 1..Len(q) : q[i] = line[a]
      BY <2>2, <2>5, <2>6
    <3>3. \A i, j \in 1..Len(q) : i < j => \E a, b \in 1..n : a < b /\ q[i] = line[a] /\ q[j] = line[b]
      <4> SUFFICES ASSUME NEW i \in 1..Len(q), NEW j \in 1..Len(q), i < j
                   PROVE  \E a, b \in 1..n : a < b /\ q[i] = line[a] /\ q[j] = line[b]
        OBVIOUS
      <4>1. PICK a, b \in 1..(n - 1) : a < b /\ q[i] = line[a] /\ q[j] = line[b]
        BY <2>2
      <4> QED BY <2>4, <4>1
    <3> QED BY <2>1, <2>3, <2>6, <3>1, <3>2, <3>3 DEF r
  <2>7. CASE line[n] \notin S
    <3>1. /\ Len(q) \in Nat /\ Len(r) = Len(q) + 1 /\ r[Len(q) + 1] = line[n]
          /\ \A i \in 1..Len(q) : r[i] = q[i]
      BY <2>1, <2>3, <2>7
    <3>2. \A i \in 1..Len(r) : i \in 1..Len(q) \/ i = Len(q) + 1
      BY <3>1
    <3>3. \A i \in 1..Len(r) : \E a \in 1..n : r[i] = line[a] /\ line[a] \notin S
      <4>1. n \in 1..n
        BY <2>1
      <4>2. \A i \in 1..Len(q) : \E a \in 1..n : r[i] = line[a] /\ line[a] \notin S
        BY <2>2, <2>4, <3>1
      <4> QED BY <2>7, <3>1, <3>2, <4>1, <4>2
    <3>4. \A a \in 1..n : line[a] \notin S => \E i \in 1..Len(r) : r[i] = line[a]
      <4>1. \A i \in 1..Len(q) : i \in 1..Len(r)
        BY <3>1
      <4>2. Len(q) + 1 \in 1..Len(r)
        BY <3>1
      <4> QED BY <2>2, <2>5, <3>1, <4>1, <4>2
    <3>5. \A i, j \in 1..Len(r) : i < j => \E a, b \in 1..n : a < b /\ r[i] = line[a] /\ r[j] = line[b]
      <4> SUFFICES ASSUME NEW i \in 1..Len(r), NEW j \in 1..Len(r), i < j
                   PROVE  \E a, b \in 1..n : a < b /\ r[i] = line[a] /\ r[j] = line[b]
        OBVIOUS
      <4>1. i \in 1..Len(q)
        BY <3>1
      <4>2. CASE j \in 1..Len(q)
        <5>1. PICK a, b \in 1..(n - 1) : a < b /\ q[i] = line[a] /\ q[j] = line[b]
          BY <2>2, <4>1, <4>2
        <5> QED BY <2>4, <3>1, <4>1, <4>2, <5>1
      <4>3. CASE j = Len(q) + 1
        <5>0. r[i] = q[i] /\ \E a \in 1..(n - 1) : q[i] = line[a]
          <6>1. r[i] = q[i]
            BY <3>1, <4>1
          <6>2. \E a \in 1..(n - 1) : q[i] = line[a]
            BY <2>2, <4>1
          <6> QED BY <6>1, <6>2
        <5>1. PICK a \in 1..(n - 1) : r[i] = line[a]
          BY <5>0
        <5>2. n \in 1..n /\ a \in 1..n /\ a < n /\ r[j] = line[n]
          BY <2>1, <2>4, <3>1, <4>3
        <5> QED BY <5>1, <5>2
      <4> QED BY <3>2, <4>2, <4>3
    <3> QED BY <2>1, <3>3, <3>4, <3>5 DEF r
  <2> QED BY <2>6, <2>7
<1> HIDE DEF D
<1> HIDE DEF N
<1>5. 0..N \subseteq D
  BY <1>2, <1>3, <1>4, RangeInd
<1>6. From(new, N)
  <2>1. N \in D
    BY <1>2, <1>5
  <2> QED BY <1>1, <2>1 DEF D
<1>7. new \in Seq(Streams) /\ DOMAIN new = 1..Len(new)
  <2>1. new \in Seq(Streams)
    BY <1>1, <1>2
  <2> QED BY <2>1, SeqFacts
<1>8. ToSet(new) = ToSet(line) \ S
  <2>1. \A i \in DOMAIN new : \E a \in DOMAIN line : new[i] = line[a] /\ line[a] \notin S
    <3>1. \A i \in 1..Len(new) : \E a \in 1..N : new[i] = line[a] /\ line[a] \notin S
      BY <1>6
    <3> QED BY <1>2, <1>7, <3>1
  <2>2. \A a \in DOMAIN line : line[a] \notin S => \E i \in DOMAIN new : new[i] = line[a]
    <3>1. \A a \in 1..N : line[a] \notin S => \E i \in 1..Len(new) : new[i] = line[a]
      BY <1>6
    <3> QED BY <1>2, <1>7, <3>1
  <2> QED BY <2>1, <2>2 DEF ToSet
<1>9. ASSUME Distinct(line) PROVE Distinct(new)
  <2>1. \A a, b \in 1..N : a < b => line[a] # line[b]
    <3>1. \A a, b \in 1..N : line[a] = line[b] => a = b
      BY <1>2, <1>9 DEF Distinct
    <3>2. \A a, b \in 1..N : a < b => a # b
      BY <1>2
    <3> QED BY <3>1, <3>2
  <2>2. \A i, j \in 1..Len(new) : i < j => new[i] # new[j]
    <3> SUFFICES ASSUME NEW i \in 1..Len(new), NEW j \in 1..Len(new), i < j
                 PROVE  new[i] # new[j]
      OBVIOUS
    <3>1. PICK a, b \in 1..N : a < b /\ new[i] = line[a] /\ new[j] = line[b]
      BY <1>6
    <3> QED BY <2>1, <3>1
  <2>3. \A i, j \in 1..Len(new) : i < j \/ j < i \/ i = j
    BY <1>7
  <2> QED BY <1>7, <2>2, <2>3 DEF Distinct
<1>10. ASSUME NEW priority, Sorted(line, priority) PROVE Sorted(new, priority)
  <2>1. \A a, b \in 1..N : a < b => priority[line[a]] <= priority[line[b]]
    BY <1>2, <1>10 DEF Sorted
  <2>2. \A i, j \in 1..Len(new) : i < j => priority[new[i]] <= priority[new[j]]
    <3> SUFFICES ASSUME NEW i \in 1..Len(new), NEW j \in 1..Len(new), i < j
                 PROVE  priority[new[i]] <= priority[new[j]]
      OBVIOUS
    <3>1. PICK a, b \in 1..N : a < b /\ new[i] = line[a] /\ new[j] = line[b]
      BY <1>6
    <3> QED BY <2>1, <3>1
  <2> QED BY <1>7, <2>2 DEF Sorted
<1> QED BY <1>7, <1>8, <1>9, <1>10

\* The line without its head.
LEMMA TailLine ==
    ASSUME NEW line \in Seq(Streams), line # <<>>
    PROVE  /\ Tail(line) \in Seq(Streams) /\ Head(line) \in Streams
           /\ ToSet(line) = ToSet(Tail(line)) \cup {Head(line)}
           /\ Distinct(line) => Distinct(Tail(line)) /\ Head(line) \notin ToSet(Tail(line))
           /\ \A priority : Sorted(line, priority) => Sorted(Tail(line), priority)
<1> DEFINE N == Len(line)
           new == Tail(line)
<1>1. /\ N \in Nat /\ N >= 1 /\ DOMAIN line = 1..N /\ \A i \in 1..N : line[i] \in Streams
      /\ new \in Seq(Streams) /\ DOMAIN new = 1..(N - 1) /\ Head(line) = line[1]
      /\ \A i \in 1..(N - 1) : new[i] = line[i + 1]
  BY SeqFacts
<1> HIDE DEF N, new
<1>2. /\ \A i \in 1..(N - 1) : i + 1 \in 1..N /\ i + 1 # 1 /\ i \in Nat
      /\ \A i \in 1..N : i = 1 \/ (i - 1 \in 1..(N - 1) /\ (i - 1) + 1 = i)
      /\ 1 \in 1..N
  BY <1>1
<1>3. ToSet(line) = ToSet(new) \cup {line[1]}
  <2>1. ASSUME NEW i \in DOMAIN line PROVE line[i] = line[1] \/ \E j \in DOMAIN new : new[j] = line[i]
    <3>1. CASE i # 1
      <4>1. i - 1 \in DOMAIN new /\ new[i - 1] = line[i]
        BY <1>1, <1>2, <3>1
      <4> QED BY <4>1
    <3> QED BY <3>1
  <2>2. \A j \in DOMAIN new : \E i \in DOMAIN line : line[i] = new[j]
    BY <1>1, <1>2
  <2>3. 1 \in DOMAIN line
    BY <1>1, <1>2
  <2> QED BY <2>1, <2>2, <2>3 DEF ToSet
<1>4. ASSUME Distinct(line) PROVE Distinct(new) /\ line[1] \notin ToSet(new)
  <2>1. \A i, j \in 1..N : line[i] = line[j] => i = j
    BY <1>1, <1>4 DEF Distinct
  <2>2. \A i, j \in 1..(N - 1) : new[i] = new[j] => i = j
    <3>1. \A i, j \in 1..(N - 1) : i + 1 = j + 1 => i = j
      BY <1>2
    <3> QED BY <1>1, <1>2, <2>1, <3>1
  <2>3. \A i \in 1..(N - 1) : new[i] # line[1]
    <3>1. \A i \in 1..(N - 1) : line[i + 1] # line[1]
      BY <1>2, <2>1
    <3> QED BY <1>1, <3>1
  <2> QED BY <1>1, <2>2, <2>3 DEF Distinct, ToSet
<1>5. ASSUME NEW priority, Sorted(line, priority) PROVE Sorted(new, priority)
  <2>1. \A i, j \in 1..N : i < j => priority[line[i]] <= priority[line[j]]
    BY <1>1, <1>5 DEF Sorted
  <2>2. \A i, j \in 1..(N - 1) : i < j => i + 1 < j + 1
    BY <1>2
  <2> QED BY <1>1, <1>2, <2>1, <2>2 DEF Sorted
<1> QED BY <1>1, <1>3, <1>4, <1>5 DEF new

-----------------------------------------------------------------------------
(* Transmit queues.                                                        *)

LEMMA TxInsertFacts ==
    ASSUME NEW queue \in Seq(Queued), NEW packet \in Queued
    PROVE  TxInsert(queue, packet) \in Seq(Queued) /\ TxInsert(queue, packet) # <<>>
<1> DEFINE Fits(i) == /\ \A j \in 1..i : queue[j].seq = packet.seq
                      /\ i < Len(queue) => queue[i + 1].seq # packet.seq
           T == {i \in 0..Len(queue) : i < Len(queue) => queue[i + 1].seq # packet.seq}
           at == CHOOSE i \in 0..Len(queue) : Fits(i)
           new == InsertAt(queue, at + 1, packet)
<1>0. Len(queue) \in Nat
  BY SeqFacts
<1>1. PICK x \in T : \A y \in T : x <= y
  <2>1. Len(queue) \in T /\ T \subseteq Nat
    BY <1>0
  <2> HIDE DEF T
  <2> QED BY <2>1, LeastNat
<1>2. x \in 0..Len(queue)
  OBVIOUS
<1>3. ASSUME NEW j \in 1..x PROVE queue[j].seq = packet.seq
  <2>1. j - 1 \in 0..Len(queue) /\ j - 1 < Len(queue) /\ (j - 1) + 1 = j /\ ~(x <= j - 1)
    BY <1>0, <1>2
  <2>2. j - 1 \notin T
    BY <1>1, <2>1
  <2> QED BY <2>1, <2>2
<1>4. at \in 0..Len(queue)
  BY <1>1, <1>2, <1>3
<1>5. TxInsert(queue, packet) = new
  BY DEF TxInsert
<1> HIDE DEF at
<1>6. new \in Seq(Queued) /\ Len(new) = Len(queue) + 1
  BY <1>4, InsertFacts
<1> HIDE DEF new
<1>7. new # <<>>
  BY <1>0, <1>6
<1> QED BY <1>5, <1>6, <1>7

Queues == [Streams -> Seq(Queued)]

LEMMA GiveBackFacts ==
    ASSUME NEW queues \in Queues, NEW p \in Frame
    PROVE  /\ GiveBack(queues, p) \in Queues
           /\ \A s \in Streams : s # p.owner => GiveBack(queues, p)[s] = queues[s]
<1>1. CASE p.kind = "datagram"
  <2> DEFINE packet == [kind |-> p.kind, seq |-> p.seq]
             q == TxInsert(queues[p.owner], packet)
  <2>1. packet \in Queued /\ p.owner \in Streams
    BY <1>1 DEF Frame, Queued
  <2>2. queues[p.owner] \in Seq(Queued)
    BY <2>1 DEF Queues
  <2>3. GiveBack(queues, p) = [queues EXCEPT ![p.owner] = q]
    BY <1>1 DEF GiveBack
  <2> HIDE DEF packet
  <2>4. q \in Seq(Queued)
    BY <2>1, <2>2, TxInsertFacts
  <2> HIDE DEF q
  <2> QED BY <2>1, <2>3, <2>4 DEF Queues
<1>2. CASE p.kind # "datagram"
  BY <1>2 DEF GiveBack
<1> QED BY <1>1, <1>2

\* What the streams get back: the queues of the owners of the lost packets
\* grow, those of the others are left alone.
LEMMA HandBackFacts ==
    ASSUME NEW order \in Seq(InFlight), waitingAck \in [InFlight -> Frame], txQueue \in Queues
    PROVE  /\ HandBack(order) \in Queues
           /\ \A s \in Streams \cap alive' :
                 (\A i \in 1..Len(order) : waitingAck[order[i]].owner # s)
                    => HandBack(order)[s] = txQueue[s]
<1> DEFINE N == Len(order)
           F == [x \in (1..N) \X Queues |-> GiveBack(x[2], waitingAck[order[x[1]]])]
           Given(f) == f = [n \in 0..N |-> IF n = 0 THEN txQueue
                                           ELSE GiveBack(f[n - 1], waitingAck[order[n]])]
           given == CHOOSE f : Given(f)
<1>1. N \in Nat /\ \A n \in 1..N : order[n] \in InFlight /\ waitingAck[order[n]] \in Frame
  BY SeqFacts
<1>2. Steps(F, N, Queues)
  <2>1. \A x \in (1..N) \X Queues : GiveBack(x[2], waitingAck[order[x[1]]]) \in Queues
    BY <1>1, GiveBackFacts
  <2> QED BY <2>1 DEF Steps
<1>3. \A n \in 1..N, q \in Queues : F[<<n, q>>] = GiveBack(q, waitingAck[order[n]])
  OBVIOUS
<1>4. HandBack(order) = ForLiving(given[N], <<>>)
  BY DEF HandBack
<1> HIDE DEF F, N
<1>5. PICK f \in [0..N -> Queues] : Follows(f, txQueue, F, N)
  BY <1>1, <1>2, Recursion
<1>6. ASSUME NEW n \in 1..N PROVE f[n] = GiveBack(f[n - 1], waitingAck[order[n]])
  <2>1. n - 1 \in 0..N
    BY <1>1
  <2>2. f[n - 1] \in Queues
    BY <2>1
  <2> QED BY <1>3, <1>5, <2>2 DEF Follows
<1>7. Given(f)
  <2> DEFINE g == [n \in 0..N |-> IF n = 0 THEN txQueue
                                   ELSE GiveBack(f[n - 1], waitingAck[order[n]])]
  <2>1. ASSUME NEW n \in 0..N PROVE f[n] = g[n]
    <3>1. CASE n = 0
      BY <1>5, <3>1 DEF Follows
    <3>2. CASE n # 0
      <4>1. n \in 1..N
        BY <1>1, <3>2
      <4> QED BY <1>6, <3>2, <4>1
    <3> QED BY <3>1, <3>2
  <2>2. DOMAIN f = DOMAIN g /\ f = [n \in DOMAIN f |-> f[n]] /\ g = [n \in DOMAIN g |-> g[n]]
    OBVIOUS
  <2>3. DOMAIN g = 0..N
    OBVIOUS
  <2> HIDE DEF g
  <2>4. f = g
    BY <2>1, <2>2, <2>3
  <2> QED BY <2>4 DEF g
<1>8. Given(given)
  BY <1>7
<1> HIDE DEF given
<1>9. /\ given[0] = txQueue
      /\ \A n \in 1..N : given[n] = GiveBack(given[n - 1], waitingAck[order[n]])
  <2>1. \A n \in 0..N : given[n] = IF n = 0 THEN txQueue
                                   ELSE GiveBack(given[n - 1], waitingAck[order[n]])
    BY <1>8, Zenon
  <2>2. 0 \in 0..N /\ \A n \in 1..N : n \in 0..N /\ n # 0
    BY <1>1
  <2> QED BY <2>1, <2>2
<1> DEFINE Kept(q) == \A s \in Streams :
                         (\A i \in 1..N : waitingAck[order[i]].owner # s) => q[s] = txQueue[s]
           D == {n \in 0..N : given[n] \in Queues /\ Kept(given[n])}
<1>10. 0 \in D
  BY <1>1, <1>9
<1>11. ASSUME NEW n \in 1..N, n - 1 \in D PROVE n \in D
  <2>1. given[n - 1] \in Queues /\ Kept(given[n - 1]) /\ n \in 0..N
    BY <1>1, <1>11
  <2>2. given[n] = GiveBack(given[n - 1], waitingAck[order[n]]) /\ waitingAck[order[n]] \in Frame
    BY <1>1, <1>9
  <2>a. PICK q \in Queues, p \in Frame : q = given[n - 1] /\ p = waitingAck[order[n]]
    BY <2>1, <2>2
  <2>b. GiveBack(q, p) \in Queues /\ \A s \in Streams : s # p.owner => GiveBack(q, p)[s] = q[s]
    BY GiveBackFacts
  <2>3. given[n] \in Queues
    BY <2>2, <2>a, <2>b
  <2>4. \A s \in Streams : s # waitingAck[order[n]].owner => given[n][s] = given[n - 1][s]
    BY <2>2, <2>a, <2>b
  <2>5. Kept(given[n])
    BY <2>1, <2>4
  <2> QED BY <2>1, <2>3, <2>5
<1> HIDE DEF D
<1>12. 0..N \subseteq D
  BY <1>1, <1>10, <1>11, RangeInd
<1>13. given[N] \in Queues /\ Kept(given[N])
  <2>1. N \in D
    BY <1>1, <1>12
  <2> QED BY <2>1 DEF D
<1> DEFINE q == given[N]
<1>14. q \in Queues /\ Kept(q) /\ HandBack(order) = ForLiving(q, <<>>)
  BY <1>4, <1>13
<1> HIDE DEF q
<1>15. HandBack(order) = [s \in Streams |-> IF s \in alive' THEN q[s] ELSE <<>>]
  BY <1>14 DEF ForLiving
<1>16. <<>> \in Seq(Queued)
  OBVIOUS
<1> QED BY <1>14, <1>15, <1>16 DEF Queues, N

-----------------------------------------------------------------------------
(* The inductive invariant.                                                *)

\* The flags of the streams and the line agree.
LineExact == Distinct(sending) /\ \A s \in Streams : enqueued[s] <=> s \in ToSet(sending)

\* got_ready_transmit runs only while somebody is in line.
LoopHasWork == looping => sending # <<>>

TInv ==
    /\ TypeOK /\ LineExact /\ SendersReady /\ LowestFirst
    /\ SidTableExact /\ NoOrphanFrames /\ NoStreamForgotten /\ LoopHasWork

LEMMA GetInLineFacts ==
    ASSUME TInv, NEW s \in Streams, NEW queue, GetInLine(s, queue)
    PROVE  /\ sending' \in Seq(Streams) /\ enqueued' \in [Streams -> BOOLEAN]
           /\ passedBy' \in [Streams -> SUBSET Streams]
           /\ LineExact' /\ Sorted(sending', prio)
           /\ ToSet(sending) \subseteq ToSet(sending')
           /\ \A t \in ToSet(sending') : t \in ToSet(sending) \/ (t = s /\ queue # <<>>)
           /\ queue # <<>> => enqueued'[s]
           /\ sending # <<>> => sending' # <<>>
<1> DEFINE joins == ~enqueued[s] /\ queue # <<>>
<1>0. /\ sending \in Seq(Streams) /\ enqueued \in [Streams -> BOOLEAN]
      /\ passedBy \in [Streams -> SUBSET Streams] /\ prio \in [Streams -> Int]
      /\ Distinct(sending) /\ \A t \in Streams : enqueued[t] <=> t \in ToSet(sending)
  BY StreamAssumption DEF TInv, TypeOK, LineExact
<1>1. Sorted(sending, prio)
  BY DEF TInv, LowestFirst, Sorted
<1>2. CASE joins
  <2>1. /\ sending' = Enqueue(sending, s, prio) /\ enqueued' = [enqueued EXCEPT ![s] = TRUE]
        /\ passedBy' = [passedBy EXCEPT ![s] = {}]
    <3>1. sending' = Enqueue(sending, s, prio) /\ passedBy' = [passedBy EXCEPT ![s] = {}]
      BY <1>2 DEF GetInLine
    <3>2. enqueued' = [enqueued EXCEPT ![s] = enqueued[s] \/ joins]
      BY DEF GetInLine
    <3>3. (enqueued[s] \/ joins) = TRUE
      BY <1>2
    <3> QED BY <3>1, <3>2, <3>3, Zenon
  <2>2. s \notin ToSet(sending)
    BY <1>0, <1>2
  <2>3. /\ sending' \in Seq(Streams) /\ sending' # <<>> /\ ToSet(sending') = ToSet(sending) \cup {s}
        /\ Distinct(sending') /\ Sorted(sending', prio)
    BY <1>0, <1>1, <2>1, <2>2, EnqueueLine
  <2>4. /\ enqueued' \in [Streams -> BOOLEAN] /\ passedBy' \in [Streams -> SUBSET Streams]
        /\ \A t \in Streams : enqueued'[t] <=> t = s \/ enqueued[t]
    BY <1>0, <2>1
  <2>5. LineExact'
    BY <1>0, <2>3, <2>4 DEF LineExact
  <2> QED BY <1>2, <2>3, <2>4, <2>5
<1>3. CASE ~joins
  <2>1. sending' = sending /\ enqueued' = enqueued /\ passedBy' = passedBy
    <3>1. sending' = sending /\ passedBy' = [passedBy EXCEPT ![s] = passedBy[s]]
      BY <1>3 DEF GetInLine
    <3>2. enqueued' = [enqueued EXCEPT ![s] = enqueued[s] \/ joins]
      BY DEF GetInLine
    <3>3. (enqueued[s] \/ joins) = enqueued[s]
      BY <1>0, <1>3
    <3>4. enqueued' = [enqueued EXCEPT ![s] = enqueued[s]]
      BY <3>2, <3>3, Zenon
    <3> QED BY <1>0, <3>1, <3>4
  <2>2. LineExact'
    BY <1>0, <2>1 DEF LineExact
  <2>3. queue # <<>> => enqueued'[s]
    BY <1>0, <1>3, <2>1
  <2> QED BY <1>0, <1>1, <2>1, <2>2, <2>3
<1> QED BY <1>2, <1>3

LEMMA MayTransmitFacts ==
    ASSUME looping \in BOOLEAN, MayTransmit
    PROVE  looping' \in BOOLEAN /\ (looping' => looping \/ sending' # <<>>)
<1> DEFINE work == looping \/ sending' # <<>>
<1>1. looping' = looping \/ looping' = work
  BY DEF MayTransmit
<1>2. work \in BOOLEAN
  OBVIOUS
<1>3. CASE looping' = looping
  BY <1>3
<1>4. CASE looping' = work
  <2>1. looping' \in BOOLEAN
    BY <1>2, <1>4
  <2>2. looping' => work
    BY <1>4, Zenon
  <2> QED BY <2>1, <2>2
<1> QED BY <1>1, <1>3, <1>4

\* A stream that exists gets in line if its queue, which may just have grown,
\* is not empty.
Joins(s) ==
    /\ s \in alive
    /\ UNCHANGED <<attachVars, prio, waitingAck>>
    /\ txByteSeq' \in [Streams -> 0..MaxBytes]
    /\ txQueue' \in Queues
    /\ \A t \in Streams : txQueue[t] # <<>> => txQueue'[t] # <<>>
    /\ \A t \in Streams : t # s => txQueue'[t] = txQueue[t]
    /\ \/ IsAttached(s) /\ GetInLine(s, txQueue'[s])
       \/ ~IsAttached(s) /\ UNCHANGED lineVars
    /\ looping' \in BOOLEAN /\ (looping' => looping \/ sending' # <<>>)

LEMMA JoinsPreserves ==
    ASSUME TInv, NEW s, Joins(s)
    PROVE  TInv'
<1> USE DEF attachVars, lineVars
<1>0. /\ s \in Streams /\ s \in alive
      /\ UNCHANGED <<channelUp, alive, sid, usid, table, counter, prio, waitingAck>>
      /\ txByteSeq' \in [Streams -> 0..MaxBytes] /\ txQueue' \in Queues
      /\ \A t \in Streams : txQueue[t] # <<>> => txQueue'[t] # <<>>
      /\ \A t \in Streams : t # s => txQueue'[t] = txQueue[t]
      /\ looping' \in BOOLEAN /\ (looping' => looping \/ sending' # <<>>)
  BY DEF Joins, TInv, TypeOK
<1>1. /\ sending' \in Seq(Streams) /\ enqueued' \in [Streams -> BOOLEAN]
      /\ passedBy' \in [Streams -> SUBSET Streams]
      /\ LineExact' /\ Sorted(sending', prio)
      /\ ToSet(sending) \subseteq ToSet(sending')
      /\ \A t \in ToSet(sending') : t \in ToSet(sending) \/ (t = s /\ IsAttached(s) /\ txQueue'[s] # <<>>)
      /\ IsAttached(s) /\ txQueue'[s] # <<>> => enqueued'[s]
      /\ sending # <<>> => sending' # <<>>
  <2>1. CASE IsAttached(s) /\ GetInLine(s, txQueue'[s])
    BY <1>0, <2>1, GetInLineFacts
  <2>2. CASE ~IsAttached(s) /\ UNCHANGED lineVars
    <3>1. UNCHANGED <<enqueued, sending, passedBy>>
      BY <2>2
    <3>2. LineExact'
      BY <3>1 DEF TInv, LineExact
    <3>3. Sorted(sending', prio)
      BY <3>1 DEF TInv, LowestFirst, Sorted
    <3>4. /\ sending' \in Seq(Streams) /\ enqueued' \in [Streams -> BOOLEAN]
          /\ passedBy' \in [Streams -> SUBSET Streams]
      BY <3>1 DEF TInv, TypeOK
    <3> QED BY <2>2, <3>1, <3>2, <3>3, <3>4
  <2> QED BY <2>1, <2>2 DEF Joins
<1>2. TypeOK'
  BY <1>0, <1>1 DEF TInv, TypeOK, InFlight, Queues
<1>3. SendersReady'
  <2> SUFFICES ASSUME NEW t \in ToSet(sending')
               PROVE  t \in alive /\ IsAttached(t) /\ txQueue'[t] # <<>>
    BY <1>0 DEF SendersReady, IsAttached
  <2>1. CASE t \in ToSet(sending)
    <3>1. t \in alive /\ IsAttached(t) /\ txQueue[t] # <<>> /\ t \in Streams
      BY <2>1 DEF TInv, SendersReady, TypeOK
    <3> QED BY <1>0, <3>1
  <2>2. CASE t = s /\ IsAttached(s) /\ txQueue'[s] # <<>>
    BY <1>0, <2>2
  <2> QED BY <1>1, <2>1, <2>2
<1>4. LowestFirst'
  BY <1>0, <1>1 DEF LowestFirst, Sorted
<1>5. SidTableExact' /\ NoOrphanFrames'
  BY <1>0 DEF TInv, SidTableExact, NoOrphanFrames, IsAttached, InTable, InFlight
<1>6. NoStreamForgotten'
  <2> SUFFICES ASSUME NEW t \in Streams, IsAttached(t), txQueue'[t] # <<>>, CanInit(t) \/ CanReply(t)
               PROVE  enqueued'[t]
    BY <1>0 DEF NoStreamForgotten, IsAttached, CanInit, CanReply
  <2>1. CASE t = s
    BY <1>1, <2>1
  <2>2. CASE t # s
    <3>1. enqueued[t]
      BY <1>0, <2>2 DEF TInv, NoStreamForgotten
    <3>2. t \in ToSet(sending')
      BY <1>1, <3>1 DEF TInv, LineExact
    <3> QED BY <1>1, <3>2 DEF LineExact
  <2> QED BY <2>1, <2>2
<1>7. LoopHasWork'
  BY <1>0, <1>1 DEF TInv, LoopHasWork
<1> QED BY <1>1, <1>2, <1>3, <1>4, <1>5, <1>6, <1>7 DEF TInv

LEMMA TxEnqueuePreserves ==
    ASSUME TInv, NEW s \in alive, NEW packet \in Queued, TxEnqueuePacket(s, packet),
           txByteSeq' \in [Streams -> 0..MaxBytes], UNCHANGED <<attachVars, prio, waitingAck>>
    PROVE  TInv'
<1>0. s \in Streams /\ txQueue \in Queues /\ looping \in BOOLEAN
  BY DEF TInv, TypeOK, Queues
<1> DEFINE q == TxInsert(txQueue[s], packet)
<1>1. q \in Seq(Queued) /\ q # <<>>
  <2>1. txQueue[s] \in Seq(Queued)
    BY <1>0 DEF Queues
  <2> QED BY <2>1, TxInsertFacts
<1>2. txQueue' = [txQueue EXCEPT ![s] = q]
  BY DEF TxEnqueuePacket
<1> HIDE DEF q
<1>3. txQueue' \in Queues /\ \A t \in Streams : txQueue'[t] = IF t = s THEN q ELSE txQueue[t]
  BY <1>0, <1>1, <1>2 DEF Queues
<1>4. \/ IsAttached(s) /\ GetInLine(s, txQueue'[s])
      \/ ~IsAttached(s) /\ UNCHANGED lineVars
  BY DEF TxEnqueuePacket
<1>5. looping' \in BOOLEAN /\ (looping' => looping \/ sending' # <<>>)
  <2>1. MayTransmit \/ looping' = looping
    BY DEF TxEnqueuePacket
  <2> QED BY <1>0, <2>1, MayTransmitFacts
<1>6. Joins(s)
  BY <1>1, <1>3, <1>4, <1>5 DEF Joins
<1> QED BY <1>6, JoinsPreserves

LEMMA WritePreserves ==
    ASSUME TInv, NEW s \in Streams,
           WriteDatagram(s) \/ \E size \in Sizes : WriteData(s, size)
    PROVE  TInv'
<1>0. txByteSeq \in [Streams -> 0..MaxBytes]
  BY DEF TInv, TypeOK
<1>1. CASE WriteDatagram(s)
  <2> DEFINE packet == [kind |-> "datagram", seq |-> txByteSeq[s]]
  <2>1. packet \in Queued
    BY <1>0 DEF Queued
  <2>2. s \in alive /\ TxEnqueuePacket(s, packet) /\ UNCHANGED <<attachVars, prio, txByteSeq, waitingAck>>
    BY <1>1 DEF WriteDatagram
  <2> HIDE DEF packet
  <2> QED BY <1>0, <2>1, <2>2, TxEnqueuePreserves
<1>2. ASSUME NEW size \in Sizes, WriteData(s, size) PROVE TInv'
  <2> DEFINE packet == [kind |-> "data", seq |-> txByteSeq[s]]
  <2>1. packet \in Queued
    BY <1>0 DEF Queued
  <2>2. /\ s \in alive /\ TxEnqueuePacket(s, packet) /\ UNCHANGED <<attachVars, prio, waitingAck>>
        /\ txByteSeq' = [txByteSeq EXCEPT ![s] = txByteSeq[s] + size] /\ txByteSeq[s] + size <= MaxBytes
    BY <1>2 DEF WriteData
  <2> HIDE DEF packet
  <2>3. txByteSeq' \in [Streams -> 0..MaxBytes]
    <3>1. txByteSeq[s] + size \in 0..MaxBytes
      BY <1>0, <2>2, BoundAssumption
    <3> QED BY <1>0, <2>2, <3>1
  <2> QED BY <2>1, <2>2, <2>3, TxEnqueuePreserves
<1> QED BY <1>1, <1>2

LEMMA MissedPreserves ==
    ASSUME TInv, NEW k \in Keys, Missed(k)
    PROVE  TInv'
<1> DEFINE p == waitingAck[k]
<1>1. p \in Frame /\ p.owner \in alive /\ IsAttached(p.owner) /\ p.owner \in Streams
  <2>1. k \in InFlight
    BY DEF Missed
  <2> QED BY <2>1 DEF TInv, TypeOK, NoOrphanFrames
<1>2. /\ UNCHANGED <<attachVars, prio, txByteSeq, waitingAck>> /\ txByteSeq' \in [Streams -> 0..MaxBytes]
      /\ txQueue \in Queues /\ looping \in BOOLEAN
  BY DEF Missed, TInv, TypeOK, Queues
<1>3. CASE p.kind = "datagram" /\ TxEnqueuePacket(p.owner, [kind |-> p.kind, seq |-> p.seq])
  <2> DEFINE packet == [kind |-> p.kind, seq |-> p.seq]
  <2>1. packet \in Queued
    BY <1>1, <1>3 DEF Queued, Frame
  <2> HIDE DEF packet
  <2> QED BY <1>1, <1>2, <1>3, <2>1, TxEnqueuePreserves DEF packet
<1>4. CASE GetInLine(p.owner, txQueue[p.owner]) /\ UNCHANGED <<txQueue, looping>>
  <2> HIDE DEF p
  <2>1. looping' \in BOOLEAN /\ (looping' => looping \/ sending' # <<>>)
    BY <1>2, <1>4 DEF TInv, LoopHasWork
  <2>2. Joins(p.owner)
    BY <1>1, <1>2, <1>4, <2>1 DEF Joins
  <2> QED BY <2>2, JoinsPreserves
<1> QED BY <1>3, <1>4 DEF Missed

LEMMA UntrackPreserves ==
    ASSUME TInv, NEW k, Acknowledged(k) \/ Expire(k)
    PROVE  TInv'
<1>1. /\ UNCHANGED <<channelUp, alive, sid, usid, table, counter, prio, txByteSeq, txQueue,
                     enqueued, sending, passedBy, looping>>
      /\ waitingAck' = [j \in InFlight \ {k} |-> waitingAck[j]]
  BY DEF Acknowledged, Expire, Untrack, Restrict, attachVars, queueVars, lineVars
<1>2. InFlight' = InFlight \ {k} /\ \A j \in InFlight' : waitingAck'[j] = waitingAck[j]
  BY <1>1 DEF InFlight
<1>3. waitingAck' \in [InFlight' -> Frame] /\ InFlight' \subseteq Keys
  BY <1>1, <1>2 DEF TInv, TypeOK
<1>4. TypeOK'
  BY <1>1, <1>3 DEF TInv, TypeOK
<1>5. LineExact' /\ SendersReady' /\ LowestFirst' /\ SidTableExact' /\ LoopHasWork'
  BY <1>1 DEF TInv, LineExact, SendersReady, LowestFirst, SidTableExact, LoopHasWork,
              IsAttached, InTable
<1>6. NoOrphanFrames'
  BY <1>1, <1>2 DEF TInv, NoOrphanFrames, IsAttached
<1>7. NoStreamForgotten'
  BY <1>1 DEF TInv, NoStreamForgotten, IsAttached, CanInit, CanReply
<1> QED BY <1>4, <1>5, <1>6, <1>7 DEF TInv

LEMMA SetPriorityPreserves ==
    ASSUME TInv, NEW s \in Streams, NEW priority \in Priorities, SetPriority(s, priority)
    PROVE  TInv'
<1>0. /\ UNCHANGED <<channelUp, alive, sid, usid, table, counter, txByteSeq, txQueue, enqueued,
                     waitingAck, looping>>
      /\ prio' = [prio EXCEPT ![s] = priority] /\ passedBy' = [passedBy EXCEPT ![s] = {}]
      /\ sending' = IF enqueued[s] THEN Enqueue(Dequeue(sending, {s}), s, prio') ELSE sending
  BY DEF SetPriority, attachVars
<1>1. /\ sending \in Seq(Streams) /\ prio \in [Streams -> Priorities] /\ Distinct(sending)
      /\ Sorted(sending, prio) /\ \A t \in Streams : enqueued[t] <=> t \in ToSet(sending)
  BY DEF TInv, TypeOK, LineExact, LowestFirst, Sorted
<1>2. /\ prio' \in [Streams -> Priorities] /\ prio' \in [Streams -> Int]
      /\ \A t \in Streams : t # s => prio'[t] = prio[t]
  BY <1>0, <1>1, StreamAssumption
<1>3. /\ sending' \in Seq(Streams) /\ Distinct(sending') /\ ToSet(sending') = ToSet(sending)
      /\ Sorted(sending', prio')
  <2>1. CASE enqueued[s]
    <3> DEFINE line == Dequeue(sending, {s})
    <3>1. /\ line \in Seq(Streams) /\ ToSet(line) = ToSet(sending) \ {s} /\ Distinct(line)
          /\ Sorted(line, prio)
      BY <1>1, DequeueLine
    <3> HIDE DEF line
    <3>2. \A i \in DOMAIN line : line[i] \in Streams /\ line[i] # s
      <4>1. \A i \in DOMAIN line : line[i] \in Streams
        BY <3>1, SeqFacts
      <4>2. \A i \in DOMAIN line : line[i] \in ToSet(line)
        BY DEF ToSet
      <4> QED BY <3>1, <4>1, <4>2
    <3>3. Sorted(line, prio')
      BY <1>2, <3>1, <3>2 DEF Sorted
    <3>4. sending' = Enqueue(line, s, prio')
      BY <1>0, <2>1 DEF line
    <3>5. /\ sending' \in Seq(Streams) /\ ToSet(sending') = ToSet(line) \cup {s}
          /\ Distinct(sending') /\ Sorted(sending', prio')
      BY <1>2, <3>1, <3>3, <3>4, EnqueueLine
    <3>6. s \in ToSet(sending)
      BY <1>1, <2>1
    <3> QED BY <3>1, <3>5, <3>6
  <2>2. CASE ~enqueued[s]
    <3>1. sending' = sending
      BY <1>0, <2>2
    <3>2. \A i \in DOMAIN sending : sending[i] \in Streams /\ sending[i] # s
      BY <1>1, <2>2 DEF ToSet
    <3>3. Sorted(sending, prio')
      BY <1>1, <1>2, <3>2 DEF Sorted
    <3> QED BY <1>1, <3>1, <3>3
  <2> QED BY <2>1, <2>2
<1>4. passedBy' \in [Streams -> SUBSET Streams]
  BY <1>0 DEF TInv, TypeOK
<1>5. TypeOK'
  BY <1>0, <1>2, <1>3, <1>4 DEF TInv, TypeOK, InFlight
<1>6. LineExact' /\ LowestFirst'
  BY <1>0, <1>1, <1>3 DEF LineExact, LowestFirst, Sorted
<1>7. SendersReady'
  BY <1>0, <1>3 DEF TInv, SendersReady, IsAttached
<1>8. SidTableExact' /\ NoOrphanFrames' /\ NoStreamForgotten'
  BY <1>0 DEF TInv, SidTableExact, NoOrphanFrames, NoStreamForgotten, IsAttached, InTable,
              InFlight, CanInit, CanReply
<1>9. LoopHasWork'
  <2>1. sending # <<>> => sending' # <<>>
    <3>1. sending # <<>> => 1 \in DOMAIN sending
      BY <1>1
    <3>2. sending' = <<>> => ToSet(sending') = {}
      BY DEF ToSet
    <3> QED BY <1>3, <3>1, <3>2 DEF ToSet
  <2> QED BY <1>0, <2>1 DEF TInv, LoopHasWork
<1> QED BY <1>5, <1>6, <1>7, <1>8, <1>9 DEF TInv

LEMMA SetAttachingPreserves ==
    ASSUME TInv, NEW s \in Streams, SetAttaching(s)
    PROVE  TInv'
<1>0. /\ channelUp /\ s \in alive /\ ~IsAttached(s) /\ GetInLine(s, txQueue[s])
      /\ UNCHANGED <<channelUp, alive, prio, txByteSeq, txQueue, waitingAck>>
      /\ looping \in BOOLEAN /\ MayTransmit
  BY DEF SetAttaching, queueVars, TInv, TypeOK
<1>1. PICK c \in FreeCounters :
        /\ counter' = c + 1 /\ sid' = [sid EXCEPT ![s] = SidOf(c)]
        /\ table' = [table EXCEPT ![SidOf(c)] = s]
        /\ usid' = [usid EXCEPT ![s] = IF @ = -1 THEN c ELSE @]
  BY DEF SetAttaching
<1> DEFINE i == SidOf(c)
<1>2. /\ sid \in [Streams -> Sids \cup {-1}] /\ usid \in [Streams -> (0..MaxCounter) \cup {-1}]
      /\ table \in [Sids -> Streams \cup {Root, Free}] /\ counter \in 1..(MaxCounter + 1)
  BY DEF TInv, TypeOK
<1>3. c \in 1..MaxCounter /\ i \in Sids /\ table[i] = Free
  <2>1. c \in counter..MaxCounter /\ table[c % SidSpace] = Free
    BY DEF FreeCounters
  <2>2. c \in 1..MaxCounter
    BY <1>2, <2>1, BoundAssumption
  <2>3. c % SidSpace \in 0..(SidSpace - 1)
    BY <2>2, BoundAssumption
  <2> QED BY <2>1, <2>2, <2>3 DEF SidOf, Sids
<1> HIDE DEF i
<1>4. /\ sid' = [sid EXCEPT ![s] = i] /\ table' = [table EXCEPT ![i] = s]
      /\ \A t \in Streams : sid'[t] = IF t = s THEN i ELSE sid[t]
      /\ \A t \in Streams : t # s => usid'[t] = usid[t]
      /\ \A j \in Sids : table'[j] = IF j = i THEN s ELSE table[j]
      /\ sid[s] = -1 /\ -1 \notin Sids
  <2>1. -1 \notin Sids
    BY BoundAssumption DEF Sids
  <2> QED BY <1>0, <1>1, <1>2, <1>3, <2>1 DEF i, IsAttached
<1>5. /\ sending' \in Seq(Streams) /\ enqueued' \in [Streams -> BOOLEAN]
      /\ passedBy' \in [Streams -> SUBSET Streams]
      /\ LineExact' /\ Sorted(sending', prio)
      /\ ToSet(sending) \subseteq ToSet(sending')
      /\ \A t \in ToSet(sending') : t \in ToSet(sending) \/ (t = s /\ txQueue[s] # <<>>)
      /\ txQueue[s] # <<>> => enqueued'[s]
      /\ sending # <<>> => sending' # <<>>
  BY <1>0, GetInLineFacts
<1>6. looping' \in BOOLEAN /\ (looping' => looping \/ sending' # <<>>)
  BY <1>0, MayTransmitFacts
<1>7. TypeOK'
  <2>1. sid' \in [Streams -> Sids \cup {-1}] /\ table' \in [Sids -> Streams \cup {Root, Free}]
    BY <1>2, <1>3, <1>4
  <2>2. usid' \in [Streams -> (0..MaxCounter) \cup {-1}]
    <3>1. (IF usid[s] = -1 THEN c ELSE usid[s]) \in (0..MaxCounter) \cup {-1}
      BY <1>2, <1>3
    <3> QED BY <1>1, <1>2, <3>1
  <2>3. counter' \in 1..(MaxCounter + 1)
    BY <1>1, <1>3, BoundAssumption
  <2> QED BY <1>0, <1>5, <1>6, <2>1, <2>2, <2>3 DEF TInv, TypeOK, InFlight
<1>8. SendersReady'
  <2> SUFFICES ASSUME NEW t \in ToSet(sending')
               PROVE  t \in alive' /\ IsAttached(t)' /\ txQueue'[t] # <<>>
    BY DEF SendersReady
  <2>1. CASE t \in ToSet(sending)
    <3>1. t \in alive /\ IsAttached(t) /\ txQueue[t] # <<>> /\ t \in Streams
      BY <2>1 DEF TInv, SendersReady, TypeOK
    <3> QED BY <1>0, <1>4, <3>1 DEF IsAttached
  <2>2. CASE t = s /\ txQueue[s] # <<>>
    BY <1>0, <1>3, <1>4, <2>2 DEF IsAttached
  <2> QED BY <1>5, <2>1, <2>2
<1>9. LowestFirst'
  BY <1>0, <1>5 DEF LowestFirst, Sorted
<1>10. SidTableExact'
  <2>1. ASSUME NEW t \in Streams, IsAttached(t)' PROVE t \in alive' /\ table'[sid'[t]] = t
    <3>1. CASE t = s
      BY <1>0, <1>3, <1>4, <3>1
    <3>2. CASE t # s
      <4>1. IsAttached(t) /\ sid'[t] = sid[t] /\ sid[t] \in Sids
        BY <1>2, <1>4, <2>1, <3>2 DEF IsAttached
      <4>2. t \in alive /\ table[sid[t]] = t
        BY <4>1 DEF TInv, SidTableExact
      <4>3. sid[t] # i
        BY <1>3, <4>2, NamesAssumption
      <4> QED BY <1>0, <1>4, <4>1, <4>2, <4>3
    <3> QED BY <3>1, <3>2
  <2>2. ASSUME NEW j \in Sids, table'[j] \in Streams PROVE sid'[table'[j]] = j
    <3>1. CASE j = i
      BY <1>4, <3>1
    <3>2. CASE j # i
      <4>1. table'[j] = table[j] /\ sid[table[j]] = j
        BY <1>4, <2>2, <3>2 DEF TInv, SidTableExact
      <4>2. table[j] # s
        BY <1>4, <4>1
      <4> QED BY <1>4, <2>2, <4>1, <4>2
    <3> QED BY <3>1, <3>2
  <2> QED BY <1>0, <2>1, <2>2 DEF SidTableExact
<1>11. NoOrphanFrames'
  <2> SUFFICES ASSUME NEW k \in InFlight
               PROVE  waitingAck[k].owner \in alive /\ sid'[waitingAck[k].owner] # -1
    BY <1>0 DEF NoOrphanFrames, InFlight, IsAttached
  <2>1. waitingAck[k].owner \in alive /\ IsAttached(waitingAck[k].owner) /\ waitingAck[k].owner \in Streams
    BY DEF TInv, NoOrphanFrames, TypeOK
  <2>2. waitingAck[k].owner # s
    BY <1>0, <2>1
  <2> QED BY <1>4, <2>1, <2>2 DEF IsAttached
<1>12. NoStreamForgotten'
  <2> SUFFICES ASSUME NEW t \in Streams, IsAttached(t)', txQueue'[t] # <<>>, CanInit(t)' \/ CanReply(t)
               PROVE  enqueued'[t]
    BY DEF NoStreamForgotten, CanReply
  <2>1. CASE t = s
    BY <1>0, <1>5, <2>1
  <2>2. CASE t # s
    <3>1. IsAttached(t) /\ txQueue[t] # <<>>
      BY <1>0, <1>4, <2>2 DEF IsAttached
    <3>2. 0 \in Sids
      BY BoundAssumption DEF Sids
    <3>3. table'[0] = Root => table[0] = Root
      BY <1>4, <3>2, NamesAssumption
    <3>4. CanInit(t) \/ CanReply(t)
      BY <1>4, <2>2, <3>3 DEF CanInit
    <3>5. enqueued[t]
      BY <3>1, <3>4 DEF TInv, NoStreamForgotten
    <3>6. t \in ToSet(sending')
      BY <1>5, <3>5 DEF TInv, LineExact
    <3> QED BY <1>5, <3>6 DEF LineExact
  <2> QED BY <2>1, <2>2
<1>13. LoopHasWork'
  BY <1>5, <1>6 DEF TInv, LoopHasWork
<1> QED BY <1>5, <1>7, <1>8, <1>9, <1>10, <1>11, <1>12, <1>13 DEF TInv

\* The frame of a packet enters waiting_ack_, or the key is taken.
LEMMA TrackFacts ==
    ASSUME TInv, NEW frame \in Frame, frame.owner \in alive, IsAttached(frame.owner), Track(frame)
    PROVE  /\ InFlight' \subseteq Keys /\ waitingAck' \in [InFlight' -> Frame]
           /\ \A k \in InFlight' : /\ waitingAck'[k].owner \in alive
                                   /\ IsAttached(frame.owner) /\ sid[waitingAck'[k].owner] # -1
<1>1. PICK k \in Keys :
        waitingAck' = [j \in InFlight \cup {k} |-> IF j \in InFlight THEN waitingAck[j] ELSE frame]
  BY DEF Track
<1>2. InFlight' = InFlight \cup {k}
  BY <1>1 DEF InFlight
<1>3. InFlight \subseteq Keys /\ \A j \in InFlight : waitingAck[j] \in Frame
  BY DEF TInv, TypeOK
<1>4. waitingAck' \in [InFlight' -> Frame]
  BY <1>1, <1>2, <1>3
<1>5. ASSUME NEW j \in InFlight' PROVE waitingAck'[j].owner \in alive /\ sid[waitingAck'[j].owner] # -1
  <2>1. CASE j \in InFlight
    <3>1. waitingAck'[j] = waitingAck[j]
      BY <1>1, <2>1
    <3> QED BY <2>1, <3>1 DEF TInv, NoOrphanFrames, IsAttached
  <2>2. CASE j \notin InFlight
    <3>1. waitingAck'[j] = frame
      BY <1>1, <1>2, <2>2
    <3> QED BY <3>1 DEF IsAttached
  <2> QED BY <2>1, <2>2
<1> QED BY <1>2, <1>3, <1>4, <1>5

LEMMA TransmitOnPreserves ==
    ASSUME TInv, NEW s \in Streams, TransmitOn(s)
    PROVE  TInv'
<1> DEFINE line == Tail(sending)
           rest == Tail(txQueue[s])
           ready == CanInit(s) \/ CanReply(s)
<1>0. /\ looping /\ sending # <<>> /\ s = Head(sending)
      /\ UNCHANGED <<channelUp, alive, sid, usid, table, counter, prio, txByteSeq>>
  BY DEF TransmitOn, TInv, LoopHasWork, attachVars
<1>1. /\ sending \in Seq(Streams) /\ enqueued \in [Streams -> BOOLEAN] /\ txQueue \in Queues
      /\ passedBy \in [Streams -> SUBSET Streams] /\ prio \in [Streams -> Int]
      /\ Distinct(sending) /\ Sorted(sending, prio)
      /\ \A t \in Streams : enqueued[t] <=> t \in ToSet(sending)
  BY StreamAssumption DEF TInv, TypeOK, LineExact, LowestFirst, Sorted, Queues
<1>2. /\ line \in Seq(Streams) /\ ToSet(sending) = ToSet(line) \cup {s}
      /\ Distinct(line) /\ s \notin ToSet(line) /\ Sorted(line, prio)
  BY <1>0, <1>1, TailLine
<1>3. s \in alive /\ IsAttached(s) /\ txQueue[s] # <<>> /\ txQueue[s] \in Seq(Queued)
  BY <1>1, <1>2 DEF TInv, SendersReady, Queues
<1>4. rest \in Seq(Queued) /\ Head(txQueue[s]) \in Queued
  BY <1>3
<1> DEFINE stays == ready /\ rest # <<>>
<1>5. /\ InFlight' \subseteq Keys /\ waitingAck' \in [InFlight' -> Frame]
      /\ \A k \in InFlight' : waitingAck'[k].owner \in alive /\ sid[waitingAck'[k].owner] # -1
  <2>1. PICK frame \in Frame : frame.owner = s /\ Track(frame)
    <3>1. CASE TxData(s, rest)
      <4> DEFINE frame == OutFrame(s, Head(txQueue[s]))
      <4>1. frame \in Frame /\ frame.owner = s
        BY <1>4 DEF OutFrame, Frame, Queued
      <4>2. Track(frame)
        BY <3>1 DEF TxData
      <4> HIDE DEF frame
      <4> QED BY <4>1, <4>2
    <3>2. CASE TxAttach(s)
      <4> DEFINE frame == [owner |-> s, kind |-> "attach", seq |-> 0]
      <4>1. frame \in Frame /\ frame.owner = s
        BY BoundAssumption DEF Frame
      <4>2. Track(frame)
        BY <3>2 DEF TxAttach
      <4> HIDE DEF frame
      <4> QED BY <4>1, <4>2
    <3> QED BY <3>1, <3>2 DEF TransmitOn
  <2> QED BY <1>3, <2>1, TrackFacts
<1>6. /\ txQueue' = IF ready THEN [txQueue EXCEPT ![s] = rest] ELSE txQueue
      /\ sending' = IF stays THEN Enqueue(line, s, prio) ELSE line
      /\ enqueued' = [enqueued EXCEPT ![s] = IF stays THEN TRUE ELSE FALSE]
  <2>1. CASE ready
    <3>1. TxData(s, rest)
      BY <2>1 DEF TransmitOn
    <3>2. (rest # <<>>) = (IF stays THEN TRUE ELSE FALSE)
      BY <2>1
    <3>3. enqueued' = [enqueued EXCEPT ![s] = rest # <<>>]
      BY <3>1 DEF TxData
    <3>4. enqueued' = [enqueued EXCEPT ![s] = IF stays THEN TRUE ELSE FALSE]
      BY <3>2, <3>3, Zenon
    <3> QED BY <2>1, <3>1, <3>4 DEF TxData
  <2>2. CASE ~ready
    <3>1. TxAttach(s)
      BY <2>2 DEF TransmitOn
    <3> QED BY <2>2, <3>1 DEF TxAttach
  <2> QED BY <2>1, <2>2
<1> HIDE DEF rest, line
<1>7. txQueue' \in Queues /\ \A t \in Streams : t # s => txQueue'[t] = txQueue[t]
  BY <1>1, <1>4, <1>6 DEF Queues
<1>8. /\ enqueued' \in [Streams -> BOOLEAN] /\ \A t \in Streams : t # s => enqueued'[t] = enqueued[t]
      /\ enqueued'[s] <=> stays
  BY <1>1, <1>6
<1>9. /\ sending' \in Seq(Streams) /\ Distinct(sending') /\ Sorted(sending', prio)
      /\ ToSet(sending') = ToSet(line) \cup (IF stays THEN {s} ELSE {})
  <2>1. CASE stays
    BY <1>1, <1>2, <1>6, <2>1, EnqueueLine
  <2>2. CASE ~stays
    BY <1>2, <1>6, <2>2
  <2> QED BY <2>1, <2>2
<1>10. passedBy' \in [Streams -> SUBSET Streams]
  <2> DEFINE T == {t \in ToSet(Tail(sending)) : prio[t] = prio[s]}
  <2>1. passedBy' = [Overtakes(s, T) EXCEPT ![s] = {}]
    BY DEF TransmitOn
  <2> HIDE DEF T
  <2>2. Overtakes(s, T) \in [Streams -> SUBSET Streams]
    BY <1>1 DEF Overtakes
  <2> QED BY <2>1, <2>2
<1>11. looping' \in BOOLEAN /\ (looping' => sending' # <<>>)
  <2> DEFINE more == sending' # <<>>
  <2>1. looping' = FALSE \/ looping' = more
    BY DEF TransmitOn
  <2>2. more \in BOOLEAN
    OBVIOUS
  <2>3. CASE looping' = FALSE
    BY <2>3
  <2>4. CASE looping' = more
    <3>1. looping' => more
      BY <2>4, Zenon
    <3>2. looping' \in BOOLEAN
      BY <2>2, <2>4
    <3> QED BY <3>1, <3>2
  <2> QED BY <2>1, <2>3, <2>4
<1>12. TypeOK'
  BY <1>0, <1>5, <1>7, <1>8, <1>9, <1>10, <1>11 DEF TInv, TypeOK, Queues
<1>13. LineExact'
  <2> SUFFICES ASSUME NEW t \in Streams PROVE enqueued'[t] <=> t \in ToSet(sending')
    BY <1>9 DEF LineExact
  <2>1. CASE t = s
    BY <1>2, <1>8, <1>9, <2>1
  <2>2. CASE t # s
    BY <1>1, <1>2, <1>8, <1>9, <2>2
  <2> QED BY <2>1, <2>2
<1>14. SendersReady'
  <2> SUFFICES ASSUME NEW t \in ToSet(sending')
               PROVE  t \in alive /\ IsAttached(t) /\ txQueue'[t] # <<>>
    BY <1>0 DEF SendersReady, IsAttached
  <2>1. CASE t \in ToSet(line)
    <3>1. t \in ToSet(sending) /\ t # s
      BY <1>2, <2>1
    <3>2. t \in Streams /\ t \in alive /\ IsAttached(t) /\ txQueue[t] # <<>>
      BY <3>1 DEF TInv, SendersReady, TypeOK
    <3> QED BY <1>7, <3>1, <3>2
  <2>2. CASE t = s /\ stays
    <3>1. txQueue'[s] = rest
      BY <1>1, <1>6, <2>2 DEF Queues
    <3> QED BY <1>3, <2>2, <3>1
  <2> QED BY <1>9, <2>1, <2>2
<1>15. LowestFirst'
  BY <1>0, <1>9 DEF LowestFirst, Sorted
<1>16. SidTableExact'
  BY <1>0 DEF TInv, SidTableExact, IsAttached, InTable
<1>17. NoOrphanFrames'
  BY <1>0, <1>5 DEF NoOrphanFrames, IsAttached
<1>18. NoStreamForgotten'
  <2> SUFFICES ASSUME NEW t \in Streams, IsAttached(t), txQueue'[t] # <<>>, CanInit(t) \/ CanReply(t)
               PROVE  enqueued'[t]
    BY <1>0 DEF NoStreamForgotten, IsAttached, CanInit, CanReply
  <2>1. CASE t = s
    <3>1. txQueue'[s] = rest
      BY <1>1, <1>6, <2>1 DEF Queues
    <3> QED BY <1>8, <2>1, <3>1
  <2>2. CASE t # s
    <3>1. enqueued[t]
      BY <1>7, <2>2 DEF TInv, NoStreamForgotten
    <3> QED BY <1>8, <2>2, <3>1
  <2> QED BY <2>1, <2>2
<1>19. LoopHasWork'
  BY <1>11 DEF LoopHasWork
<1> QED BY <1>12, <1>13, <1>14, <1>15, <1>16, <1>17, <1>18, <1>19 DEF TInv

\* The lost packets come back in some order.
LEMMA OrderFacts ==
    ASSUME TInv, NEW keys, keys \subseteq InFlight, NEW order \in SetToSeqs(keys)
    PROVE  order \in Seq(InFlight) /\ \A i \in 1..Len(order) : order[i] \in keys
<1>1. IsFiniteSet(keys)
  <2>1. keys \subseteq Keys
    BY DEF TInv, TypeOK
  <2> QED BY <2>1, FS_Subset, StreamAssumption
<1>2. Cardinality(keys) \in Nat
  BY <1>1, FS_CardinalityType
<1>3. order \in [1..Cardinality(keys) -> keys]
  BY DEF SetToSeqs
<1>4. order \in Seq(keys)
  BY <1>2, <1>3
<1>5. order \in Seq(InFlight)
  BY <1>2, <1>3
<1> QED BY <1>4, <1>5

\* Attachments are taken down with their packets: those of the streams in S.
Detaches(S, keys) ==
    /\ Clear(S, keys) /\ ~looping
    /\ keys = {k \in InFlight : waitingAck[k].owner \in S}
    /\ alive' \subseteq alive /\ \A s \in alive \ alive' : IsAttached(s) => s \in S
    /\ channelUp' \in BOOLEAN
    /\ ~channelUp' => ~channelUp \/ S = InTable

LEMMA ClearPreserves ==
    ASSUME TInv, NEW S, NEW keys, Detaches(S, keys)
    PROVE  TInv'
<1>0. /\ sid' = [s \in Streams |-> IF s \in S THEN -1 ELSE sid[s]]
      /\ table' = [i \in Sids |-> IF table[i] \in S THEN Free ELSE table[i]]
      /\ sending' = Dequeue(sending, S)
      /\ enqueued' = [s \in Streams |-> enqueued[s] /\ s \notin S]
      /\ passedBy' = [s \in Streams |-> IF s \in S THEN {} ELSE passedBy[s]]
      /\ usid' = [s \in Streams |-> IF s \in alive' THEN usid[s] ELSE -1]
      /\ prio' = [s \in Streams |-> IF s \in alive' THEN prio[s] ELSE 0]
      /\ txByteSeq' = [s \in Streams |-> IF s \in alive' THEN txByteSeq[s] ELSE 0]
      /\ counter' = counter /\ looping' = FALSE
      /\ waitingAck' = [k \in InFlight \ keys |-> waitingAck[k]]
  <2>1. looping \in BOOLEAN
    BY DEF TInv, TypeOK
  <2> QED BY <2>1 DEF Detaches, Clear, LeaveLine, ForLiving, ForgetPackets, Untrack, Restrict
<1>1. /\ keys = {k \in InFlight : waitingAck[k].owner \in S} /\ alive' \subseteq alive
      /\ \A s \in alive \ alive' : IsAttached(s) => s \in S
      /\ channelUp' \in BOOLEAN /\ (~channelUp' => ~channelUp \/ S = InTable)
  BY DEF Detaches
<1>2. /\ sending \in Seq(Streams) /\ enqueued \in [Streams -> BOOLEAN] /\ txQueue \in Queues
      /\ Distinct(sending) /\ Sorted(sending, prio)
      /\ \A t \in Streams : enqueued[t] <=> t \in ToSet(sending)
      /\ waitingAck \in [InFlight -> Frame] /\ alive \subseteq Streams
  BY DEF TInv, TypeOK, LineExact, LowestFirst, Sorted, Queues
<1>3. /\ sending' \in Seq(Streams) /\ Distinct(sending') /\ ToSet(sending') = ToSet(sending) \ S
      /\ Sorted(sending', prio)
  BY <1>0, <1>2, DequeueLine
<1>4. txQueue' \in Queues /\ \A s \in alive' : s \notin S => txQueue'[s] = txQueue[s]
  <2>1. PICK order \in SetToSeqs(keys) : txQueue' = HandBack(order)
    BY DEF Detaches, Clear, ForgetPackets
  <2>2. order \in Seq(InFlight) /\ \A i \in 1..Len(order) : order[i] \in keys
    BY <1>1, OrderFacts
  <2>3. \A s \in alive' : s \notin S => \A i \in 1..Len(order) : waitingAck[order[i]].owner # s
    BY <1>1, <2>2
  <2> QED BY <1>1, <1>2, <2>1, <2>2, <2>3, HandBackFacts
<1>5. /\ enqueued' \in [Streams -> BOOLEAN]
      /\ \A t \in Streams : enqueued'[t] <=> enqueued[t] /\ t \notin S
  BY <1>0, <1>2
<1>6. \A t \in ToSet(sending') : /\ t \in Streams /\ t \notin S /\ t \in alive' /\ IsAttached(t)
                                /\ txQueue[t] # <<>>
  <2> SUFFICES ASSUME NEW t \in ToSet(sending')
               PROVE  t \in Streams /\ t \notin S /\ t \in alive' /\ IsAttached(t) /\ txQueue[t] # <<>>
    OBVIOUS
  <2>1. t \notin S /\ t \in alive /\ IsAttached(t) /\ txQueue[t] # <<>>
    BY <1>3 DEF TInv, SendersReady
  <2> QED BY <1>1, <1>2, <2>1
<1>7. \A t \in Streams : t \notin S => sid'[t] = sid[t]
  BY <1>0
<1>8. \A t \in Streams : sid'[t] # -1 => t \notin S /\ IsAttached(t) /\ t \in alive'
  <2> SUFFICES ASSUME NEW t \in Streams, sid'[t] # -1
               PROVE  t \notin S /\ IsAttached(t) /\ t \in alive'
    OBVIOUS
  <2>1. t \notin S /\ IsAttached(t)
    BY <1>0 DEF IsAttached
  <2>2. t \in alive
    BY <2>1 DEF TInv, SidTableExact
  <2> QED BY <1>1, <2>1, <2>2
<1>9. InFlight' = InFlight \ keys /\ \A k \in InFlight' : waitingAck'[k] = waitingAck[k]
  BY <1>0 DEF InFlight
<1>10. TypeOK'
  <2>1. InFlight' \subseteq Keys /\ waitingAck' \in [InFlight' -> Frame]
    BY <1>0, <1>2, <1>9 DEF TInv, TypeOK
  <2>2. /\ sid' \in [Streams -> Sids \cup {-1}] /\ usid' \in [Streams -> (0..MaxCounter) \cup {-1}]
        /\ table' \in [Sids -> Streams \cup {Root, Free}]
    BY <1>0 DEF TInv, TypeOK
  <2>3. /\ prio' \in [Streams -> Priorities] /\ txByteSeq' \in [Streams -> 0..MaxBytes]
        /\ passedBy' \in [Streams -> SUBSET Streams]
    BY <1>0, StreamAssumption, BoundAssumption DEF TInv, TypeOK
  <2>4. channelUp' \in BOOLEAN /\ looping' \in BOOLEAN /\ alive' \subseteq Streams /\ counter' = counter
    BY <1>0, <1>1, <1>2
  <2> QED BY <1>3, <1>4, <1>5, <2>1, <2>2, <2>3, <2>4 DEF TInv, TypeOK, Queues
<1>11. LineExact'
  BY <1>2, <1>3, <1>5 DEF LineExact
<1>12. SendersReady'
  BY <1>4, <1>6, <1>7 DEF SendersReady, IsAttached
<1>13. LowestFirst'
  <2>1. \A i \in DOMAIN sending' : prio'[sending'[i]] = prio[sending'[i]]
    <3>1. \A i \in DOMAIN sending' : sending'[i] \in ToSet(sending')
      BY DEF ToSet
    <3>2. \A t \in ToSet(sending') : prio'[t] = prio[t]
      BY <1>0, <1>6
    <3> QED BY <3>1, <3>2
  <2> QED BY <1>3, <2>1 DEF LowestFirst, Sorted
<1>14. SidTableExact'
  <2>1. ASSUME NEW t \in Streams, IsAttached(t)' PROVE t \in alive' /\ table'[sid'[t]] = t
    <3>1. t \notin S /\ IsAttached(t) /\ t \in alive' /\ sid'[t] = sid[t]
      BY <1>7, <1>8, <2>1 DEF IsAttached
    <3>2. table[sid[t]] = t /\ sid[t] \in Sids
      BY <3>1 DEF TInv, SidTableExact, TypeOK, IsAttached
    <3> QED BY <1>0, <3>1, <3>2
  <2>2. ASSUME NEW i \in Sids, table'[i] \in Streams PROVE sid'[table'[i]] = i
    <3>1. table[i] \notin S /\ table'[i] = table[i]
      BY <1>0, <2>2, NamesAssumption
    <3>2. sid[table[i]] = i
      BY <2>2, <3>1 DEF TInv, SidTableExact
    <3> QED BY <1>7, <2>2, <3>1, <3>2
  <2>3. ASSUME ~channelUp' PROVE InTable' = {}
    <3>1. \A i \in Sids : table'[i] = Free
      <4>1. \A i \in Sids : table[i] = Free \/ table[i] \in InTable
        BY DEF InTable
      <4>2. CASE S = InTable
        BY <1>0, <4>1, <4>2
      <4>3. CASE ~channelUp
        <5>1. InTable = {}
          BY <4>3 DEF TInv, SidTableExact
        <5> QED BY <1>0, <4>1, <5>1
      <4> QED BY <1>1, <2>3, <4>2, <4>3
    <3> QED BY <3>1 DEF InTable
  <2> QED BY <2>1, <2>2, <2>3 DEF SidTableExact
<1>15. NoOrphanFrames'
  <2> SUFFICES ASSUME NEW k \in InFlight'
               PROVE  waitingAck'[k].owner \in alive' /\ sid'[waitingAck'[k].owner] # -1
    BY DEF NoOrphanFrames, IsAttached
  <2> DEFINE o == waitingAck[k].owner
  <2>1. k \in InFlight /\ waitingAck'[k].owner = o /\ o \notin S
    BY <1>1, <1>9
  <2>2. o \in alive /\ IsAttached(o) /\ o \in Streams
    BY <1>2, <2>1 DEF TInv, NoOrphanFrames
  <2> HIDE DEF o
  <2>3. o \in alive' /\ sid'[o] # -1
    BY <1>1, <1>7, <2>1, <2>2 DEF IsAttached
  <2> QED BY <2>1, <2>3
<1>16. NoStreamForgotten'
  <2> SUFFICES ASSUME NEW t \in Streams, sid'[t] # -1, txQueue'[t] # <<>>, CanInit(t)' \/ CanReply(t)
               PROVE  enqueued'[t]
    BY DEF NoStreamForgotten, CanReply, IsAttached
  <2>1. t \notin S /\ IsAttached(t) /\ t \in alive' /\ txQueue[t] # <<>> /\ sid'[t] = sid[t]
    BY <1>4, <1>7, <1>8
  <2>2. usid'[t] = usid[t] /\ 0 \in Sids
    BY <1>0, <2>1, BoundAssumption DEF Sids
  <2>3. table'[0] = Root => table[0] = Root
    <3>1. Free # Root
      BY DEF Free, Root
    <3> QED BY <1>0, <2>2, <3>1
  <2>4. CanInit(t) \/ CanReply(t)
    BY <2>1, <2>2, <2>3 DEF CanInit
  <2> QED BY <1>5, <2>1, <2>4 DEF TInv, NoStreamForgotten
<1>17. LoopHasWork'
  BY <1>0 DEF LoopHasWork
<1> QED BY <1>10, <1>11, <1>12, <1>13, <1>14, <1>15, <1>16, <1>17 DEF TInv

\* Every packet in flight belongs to a stream of the table.
LEMMA OwnersInTable ==
    ASSUME TInv
    PROVE  /\ \A s \in Streams : IsAttached(s) => s \in InTable
           /\ \A k \in InFlight : waitingAck[k].owner \in InTable
<1>1. ASSUME NEW s \in Streams, IsAttached(s) PROVE s \in InTable
  <2>1. table[sid[s]] = s /\ sid[s] \in Sids
    BY <1>1 DEF TInv, SidTableExact, TypeOK, IsAttached
  <2> QED BY <2>1, NamesAssumption DEF InTable
<1>2. \A k \in InFlight : waitingAck[k].owner \in Streams /\ IsAttached(waitingAck[k].owner)
  BY DEF TInv, NoOrphanFrames, TypeOK
<1> QED BY <1>1, <1>2

LEMMA DetachPreserves ==
    ASSUME TInv, \/ DetachAll \/ Stop
                 \/ \E s \in Streams : ClearAttachment(s) \/ DestroyStream(s)
    PROVE  TInv'
<1>0. channelUp \in BOOLEAN /\ alive \subseteq Streams
  BY DEF TInv, TypeOK
<1>1. CASE DetachAll
  <2>1. InFlight = {k \in InFlight : waitingAck[k].owner \in InTable}
    BY OwnersInTable
  <2>2. Detaches(InTable, InFlight)
    BY <1>0, <1>1, <2>1 DEF DetachAll, Detaches
  <2> QED BY <2>2, ClearPreserves
<1>2. CASE Stop
  <2> DEFINE keys == UNION {Owned(s) : s \in InTable}
  <2>1. keys = {k \in InFlight : waitingAck[k].owner \in InTable}
    BY DEF Owned
  <2> HIDE DEF keys
  <2>2. Detaches(InTable, keys)
    BY <1>0, <1>2, <2>1 DEF Stop, Detaches, keys
  <2> QED BY <2>2, ClearPreserves
<1>3. ASSUME NEW s \in Streams, ClearAttachment(s) PROVE TInv'
  <2>1. Owned(s) = {k \in InFlight : waitingAck[k].owner \in {s}}
    BY DEF Owned
  <2>2. Detaches({s}, Owned(s))
    BY <1>0, <1>3, <2>1 DEF ClearAttachment, Detaches
  <2> QED BY <2>2, ClearPreserves
<1>4. ASSUME NEW s \in Streams, DestroyStream(s) PROVE TInv'
  <2> DEFINE S == {t \in {s} : IsAttached(t)}
             keys == UNION {Owned(t) : t \in S}
  <2>1. keys = {k \in InFlight : waitingAck[k].owner \in S}
    BY DEF Owned
  <2>2. Clear(S, keys) /\ ~looping /\ alive' = alive \ {s} /\ channelUp' = channelUp
    BY <1>4 DEF DestroyStream
  <2>3. \A t \in alive \ alive' : IsAttached(t) => t \in S
    BY <2>2
  <2> HIDE DEF keys, S
  <2>4. Detaches(S, keys)
    BY <1>0, <2>1, <2>2, <2>3 DEF Detaches
  <2> QED BY <2>4, ClearPreserves
<1> QED BY <1>1, <1>2, <1>3, <1>4

LEMMA InitTInv == Init => TInv
<1> SUFFICES ASSUME Init PROVE TInv
  OBVIOUS
<1>0. /\ channelUp = TRUE /\ alive = Streams /\ counter = 1 /\ looping = FALSE
      /\ sid = [s \in Streams |-> -1] /\ usid = [s \in Streams |-> -1]
      /\ table = [i \in Sids |-> IF i = 0 THEN Root ELSE Free]
      /\ sending = <<>> /\ waitingAck = <<>>
      /\ enqueued = [s \in Streams |-> FALSE]
  BY DEF Init
<1>1. /\ DOMAIN <<>> = {} /\ InFlight = {} /\ DOMAIN sending = {} /\ ToSet(sending) = {}
  BY <1>0 DEF InFlight, ToSet
<1>2. TypeOK
  <2>1. /\ prio \in [Streams -> Priorities] /\ txByteSeq \in [Streams -> 0..MaxBytes]
        /\ txQueue \in [Streams -> Seq(Queued)] /\ passedBy \in [Streams -> SUBSET Streams]
    <3>1. <<>> \in Seq(Queued)
      OBVIOUS
    <3> QED BY <3>1, StreamAssumption, BoundAssumption DEF Init
  <2>2. waitingAck \in [InFlight -> Frame]
    BY <1>0, <1>1
  <2>3. /\ channelUp \in BOOLEAN /\ looping \in BOOLEAN /\ alive \subseteq Streams
        /\ sid \in [Streams -> Sids \cup {-1}] /\ usid \in [Streams -> (0..MaxCounter) \cup {-1}]
        /\ table \in [Sids -> Streams \cup {Root, Free}] /\ counter \in 1..(MaxCounter + 1)
        /\ enqueued \in [Streams -> BOOLEAN] /\ sending \in Seq(Streams)
    <3>1. channelUp \in BOOLEAN /\ looping \in BOOLEAN /\ alive \subseteq Streams
      BY <1>0
    <3>2. /\ sid \in [Streams -> Sids \cup {-1}]
          /\ usid \in [Streams -> (0..MaxCounter) \cup {-1}]
      BY <1>0
    <3>3. table \in [Sids -> Streams \cup {Root, Free}]
      BY <1>0
    <3>4. counter \in 1..(MaxCounter + 1)
      BY <1>0, BoundAssumption
    <3>5. enqueued \in [Streams -> BOOLEAN]
      BY <1>0, Zenon
    <3>6. sending \in Seq(Streams)
      BY <1>0
    <3> QED BY <3>1, <3>2, <3>3, <3>4, <3>5, <3>6
  <2> QED BY <1>1, <2>1, <2>2, <2>3 DEF TypeOK
<1>3. LineExact /\ SendersReady /\ LowestFirst /\ NoOrphanFrames
  BY <1>0, <1>1 DEF LineExact, Distinct, SendersReady, LowestFirst, NoOrphanFrames
<1>4. SidTableExact
  <2>1. \A i \in Sids : table[i] \in {Root, Free}
    BY <1>0
  <2> QED BY <1>0, <2>1, NamesAssumption DEF SidTableExact, IsAttached
<1>5. NoStreamForgotten /\ LoopHasWork
  BY <1>0 DEF NoStreamForgotten, LoopHasWork, IsAttached
<1> QED BY <1>2, <1>3, <1>4, <1>5 DEF TInv

LEMMA SpecTInv == Spec => []TInv
<1>1. TInv /\ [Next]_vars => TInv'
  <2> SUFFICES ASSUME TInv, [Next]_vars PROVE TInv'
    OBVIOUS
  <2>1. CASE UNCHANGED vars
    <3>1. UNCHANGED <<channelUp, alive, sid, usid, table, counter, prio, txByteSeq, txQueue,
                      enqueued, sending, waitingAck, looping, passedBy>>
      BY <2>1 DEF vars
    <3>2. TypeOK' /\ LineExact' /\ SendersReady' /\ LowestFirst'
      BY <3>1 DEF TInv, TypeOK, LineExact, SendersReady, LowestFirst, IsAttached, InFlight
    <3>3. SidTableExact' /\ NoOrphanFrames' /\ NoStreamForgotten' /\ LoopHasWork'
      BY <3>1 DEF TInv, SidTableExact, NoOrphanFrames, NoStreamForgotten, LoopHasWork, IsAttached,
                  InTable, InFlight, CanInit, CanReply
    <3> QED BY <3>2, <3>3 DEF TInv
  <2>2. ASSUME NEW s \in Streams,
               \/ SetAttaching(s) \/ TransmitOn(s) \/ WriteDatagram(s)
               \/ \E size \in Sizes : WriteData(s, size)
               \/ \E priority \in Priorities : SetPriority(s, priority)
        PROVE  TInv'
    BY <2>2, SetAttachingPreserves, TransmitOnPreserves, WritePreserves, SetPriorityPreserves
  <2>3. ASSUME NEW s \in Streams, ClearAttachment(s) \/ DestroyStream(s) PROVE TInv'
    BY <2>3, DetachPreserves
  <2>4. CASE DetachAll \/ Stop
    BY <2>4, DetachPreserves
  <2>5. ASSUME NEW k \in Keys, Acknowledged(k) \/ Missed(k) \/ Expire(k) PROVE TInv'
    BY <2>5, UntrackPreserves, MissedPreserves
  <2> QED BY <2>1, <2>2, <2>3, <2>4, <2>5 DEF Next
<1> QED BY <1>1, InitTInv, PTL DEF Spec

-----------------------------------------------------------------------------
(* Theorems.                                                               *)

\* The variables keep their types; in particular no counter value becomes a
\* stream id without being cut to 16 bits.
THEOREM StreamTransmitTypes == Spec => []TypeOK
<1>1. TInv => TypeOK
  BY DEF TInv
<1> QED BY <1>1, SpecTInv, PTL

\* The flag of a stream and the line agree, and no stream is in line twice.
THEOREM StreamsEnqueuedOnce == Spec => []EnqueuedOnce
<1>1. TInv => EnqueuedOnce
  <2> SUFFICES ASSUME TInv, NEW s \in Streams
               PROVE  Cardinality({i \in DOMAIN sending : sending[i] = s})
                         = IF enqueued[s] THEN 1 ELSE 0
    BY DEF EnqueuedOnce
  <2> DEFINE P == {i \in DOMAIN sending : sending[i] = s}
  <2>1. CASE enqueued[s]
    <3>1. PICK i \in DOMAIN sending : sending[i] = s
      BY <2>1 DEF TInv, LineExact, ToSet
    <3>2. P = {i}
      BY <3>1 DEF TInv, LineExact, Distinct
    <3>3. Cardinality({i}) = 1
      BY FS_Singleton
    <3> QED BY <2>1, <3>2, <3>3
  <2>2. CASE ~enqueued[s]
    <3>1. P = {}
      BY <2>2 DEF TInv, LineExact, ToSet
    <3>2. Cardinality({}) = 0
      BY FS_EmptySet
    <3> QED BY <2>2, <3>1, <3>2
  <2> QED BY <2>1, <2>2
<1> QED BY <1>1, SpecTInv, PTL

\* A stream in line exists, is attached and has a packet: transmit_on's
\* assertions hold for any number of streams and any order of events.
THEOREM SendersStayReady == Spec => []SendersReady
<1>1. TInv => SendersReady
  BY DEF TInv
<1> QED BY <1>1, SpecTInv, PTL

\* The line stays in order of priority, which enqueue_stream relies on.
THEOREM LowestStaysFirst == Spec => []LowestFirst
<1>1. TInv => LowestFirst
  BY DEF TInv
<1> QED BY <1>1, SpecTInv, PTL

\* The table of stream ids holds the attached streams, each at its id, for
\* every width of stream ids and however often the counter wraps.
THEOREM SidTableStaysExact == Spec => []SidTableExact
<1>1. TInv => SidTableExact
  BY DEF TInv
<1> QED BY <1>1, SpecTInv, PTL

\* The owner of a packet in flight exists and is attached.
THEOREM FramesHaveOwners == Spec => []NoOrphanFrames
<1>1. TInv => NoOrphanFrames
  BY DEF TInv
<1> QED BY <1>1, SpecTInv, PTL

\* A stream with something to send that needs no Attach packet is in line.
THEOREM NobodyForgotten == Spec => []NoStreamForgotten
<1>1. TInv => NoStreamForgotten
  BY DEF TInv
<1> QED BY <1>1, SpecTInv, PTL
=============================================================================
