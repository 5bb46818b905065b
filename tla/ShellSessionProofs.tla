------------------------- MODULE ShellSessionProofs -------------------------
(***************************************************************************)
(* Proofs about modules TerminalModes and ShellSession: packing and        *)
(* unpacking terminal settings keeps all that the protocol can say, and a  *)
(* session accounts for its descriptors, for any settings of terminals.    *)
(***************************************************************************)
EXTENDS ShellSession, SequenceFacts, TLAPS

-----------------------------------------------------------------------------
(* Bits of a word.                                                         *)

Width == 13

LEMMA BitFacts ==
    /\ Bit[1] = 1 /\ \A n \in 1..Width : Bit[n] \in Nat \ {0}
    /\ \A n \in 2..Width : Bit[n] = 2 * Bit[n - 1]
BY DEF Bit, Width

\* A higher bit is a multiple of twice a lower one.
LEMMA HigherBit ==
    ASSUME NEW j \in 1..Width, NEW k \in 1..Width, j < k
    PROVE  \E c \in Nat : Bit[k] = Bit[j] * (2 * c)
<1> DEFINE D == {n \in 0..Width : n > j => \E c \in Nat : Bit[n] = Bit[j] * (2 * c)}
<1>1. 0 \in D
  BY DEF Width
<1>2. ASSUME NEW n \in 1..Width, n - 1 \in D PROVE n \in D
  <2> SUFFICES ASSUME n > j PROVE \E c \in Nat : Bit[n] = Bit[j] * (2 * c)
    BY DEF Width
  <2>1. n \in 2..Width /\ Bit[n] = 2 * Bit[n - 1] /\ Bit[j] \in Nat
    BY BitFacts DEF Width
  <2>2. CASE n - 1 = j
    <3>1. Bit[n] = Bit[j] * (2 * 1)
      BY <2>1, <2>2
    <3> QED BY <3>1
  <2>3. CASE n - 1 # j
    <3>1. PICK c \in Nat : Bit[n - 1] = Bit[j] * (2 * c)
      BY <1>2, <2>3 DEF Width
    <3>2. 2 * (Bit[j] * (2 * c)) = Bit[j] * (2 * (2 * c)) /\ 2 * c \in Nat
      BY <2>1
    <3> QED BY <2>1, <3>1, <3>2
  <2> QED BY <2>2, <2>3
<1> HIDE DEF D
<1>3. Width \in Nat
  BY DEF Width
<1>4. 0..Width \subseteq D
  BY <1>1, <1>2, <1>3, RangeInd
<1>5. k \in D
  BY <1>4 DEF Width
<1> QED BY <1>5 DEF D

\* Which bit a word has at a place does not depend on the bits around it.
LEMMA BitOfWord ==
    ASSUME NEW a \in Nat \ {0}, NEW r \in 0..(a - 1), NEW b \in {0, 1}, NEW c \in Nat
    PROVE  ((r + a * (b + 2 * c)) \div a) % 2 = b
<1> DEFINE q == b + 2 * c
           x == r + a * q
           d == x \div a
           m == x % a
<1>1. q \in Nat /\ x \in Nat
  OBVIOUS
<1>2. q % 2 = b
  OBVIOUS
<1> HIDE DEF q
<1>3. d \in Int /\ m \in 0..(a - 1) /\ x = a * d + m
  BY <1>1
<1> HIDE DEF d, m
<1>4. a * (q - d) = m - r
  BY <1>1, <1>3
<1>5. ~(q - d >= 1)
  <2> SUFFICES ASSUME q - d >= 1 PROVE FALSE
    OBVIOUS
  <2>1. a * (q - d) >= a
    BY <1>1, <1>3
  <2> QED BY <1>3, <1>4, <2>1
<1>6. ~(q - d <= -1)
  <2> SUFFICES ASSUME q - d <= -1 PROVE FALSE
    OBVIOUS
  <2>1. a * (q - d) <= -a
    BY <1>1, <1>3
  <2> QED BY <1>3, <1>4, <2>1
<1>7. d = q
  BY <1>1, <1>3, <1>5, <1>6
<1> QED BY <1>2, <1>7 DEF q, d


\* The loop of termpack: the words it goes through.
Packs(w, flags, table) ==
    /\ w \in [0..Len(table) -> Nat] /\ w[0] = 0
    /\ \A n \in 1..Len(table) : w[n] = w[n - 1] + (IF table[n] \in flags THEN Bit[n] ELSE 0)

LEMMA PackSteps ==
    ASSUME NEW flags, NEW table, Len(table) \in Nat, Len(table) <= Width
    PROVE  \E w : Packs(w, flags, table) /\ PackFlags(flags, table) = w[Len(table)]
<1> DEFINE N == Len(table)
           B == [n \in 1..N |-> IF table[n] \in flags THEN Bit[n] ELSE 0]
           F == [x \in (1..N) \X Nat |-> x[2] + B[x[1]]]
           IsWord(w) == w = [n \in 0..N |-> IF n = 0 THEN 0 ELSE w[n - 1]
                                                + (IF table[n] \in flags THEN Bit[n] ELSE 0)]
           word == CHOOSE w : IsWord(w)
<1>1. N \in Nat /\ N <= Width
  OBVIOUS
<1>2. \A n \in 1..N : B[n] \in Nat
  <2>1. \A n \in 1..N : n \in 1..Width
    BY <1>1 DEF Width
  <2>2. \A n \in 1..N : Bit[n] \in Nat
    BY <2>1, BitFacts
  <2> QED BY <2>2
<1>3. PackFlags(flags, table) = word[N]
  BY DEF PackFlags
<1>4. \A n \in 1..N : B[n] = IF table[n] \in flags THEN Bit[n] ELSE 0
  OBVIOUS
<1> HIDE DEF B, N
<1>5. Steps(F, N, Nat) /\ \A n \in 1..N, v \in Nat : F[<<n, v>>] = v + B[n]
  BY <1>2 DEF Steps
<1> HIDE DEF F
<1>6. PICK f \in [0..N -> Nat] : Follows(f, 0, F, N)
  BY <1>1, <1>5, Recursion
<1>7. ASSUME NEW n \in 1..N PROVE f[n] = f[n - 1] + B[n]
  <2>1. n - 1 \in 0..N
    BY <1>1
  <2> QED BY <1>5, <1>6, <2>1 DEF Follows
<1>8. f[0] = 0
  BY <1>6 DEF Follows
<1>9. IsWord(f)
  <2> DEFINE g == [n \in 0..N |-> IF n = 0 THEN 0 ELSE f[n - 1]
                                        + (IF table[n] \in flags THEN Bit[n] ELSE 0)]
  <2>1. ASSUME NEW n \in 0..N PROVE f[n] = g[n]
    <3>1. CASE n = 0
      BY <1>8, <3>1
    <3>2. CASE n # 0
      <4>1. n \in 1..N
        BY <1>1, <3>2
      <4> QED BY <1>4, <1>7, <3>2, <4>1
    <3> QED BY <3>1, <3>2
  <2>2. DOMAIN f = 0..N /\ f = [n \in DOMAIN f |-> f[n]]
    OBVIOUS
  <2>3. DOMAIN g = 0..N /\ g = [n \in DOMAIN g |-> g[n]]
    OBVIOUS
  <2> HIDE DEF g
  <2>4. f = g
    BY <2>1, <2>2, <2>3
  <2> QED BY <2>4 DEF g
<1>10. IsWord(word)
  BY <1>9
<1> HIDE DEF word
<1>11. \A n \in 0..N : word[n] = IF n = 0 THEN 0 ELSE word[n - 1]
                                  + (IF table[n] \in flags THEN Bit[n] ELSE 0)
  BY <1>10, Zenon
<1> DEFINE D == {n \in 0..N : word[n] = f[n]}
<1>12. 0 \in D
  BY <1>1, <1>8, <1>11
<1>13. ASSUME NEW n \in 1..N, n - 1 \in D PROVE n \in D
  <2>1. n \in 0..N /\ n # 0 /\ word[n - 1] = f[n - 1]
    BY <1>1, <1>13
  <2>2. word[n] = word[n - 1] + B[n]
    BY <1>4, <1>11, <2>1
  <2> QED BY <1>7, <2>1, <2>2
<1> HIDE DEF D
<1>14. 0..N \subseteq D
  BY <1>1, <1>12, <1>13, RangeInd
<1>15. word[N] = f[N]
  BY <1>1, <1>14 DEF D
<1>16. Packs(f, flags, table)
  BY <1>4, <1>6, <1>7, <1>8 DEF Packs, N
<1> QED BY <1>3, <1>15, <1>16 DEF N

\* The bits of a packed word are the flags that are on.
LEMMA PackedBits ==
    ASSUME NEW flags, NEW table, Len(table) \in Nat, Len(table) <= Width, NEW j \in 1..Len(table)
    PROVE  IsSet(PackFlags(flags, table), j) <=> table[j] \in flags
<1> DEFINE N == Len(table)
           b == IF table[j] \in flags THEN 1 ELSE 0
<1>1. N \in Nat /\ N <= Width /\ j \in 1..N /\ j \in 1..Width
  BY DEF Width
<1>2. PICK w : Packs(w, flags, table) /\ PackFlags(flags, table) = w[N]
  BY PackSteps
<1>3. /\ w[0] = 0 /\ \A n \in 0..N : w[n] \in Nat
      /\ \A n \in 1..N : w[n] = w[n - 1] \/ w[n] = w[n - 1] + Bit[n]
      /\ w[j] = w[j - 1] + (IF table[j] \in flags THEN Bit[j] ELSE 0)
  <2>1. /\ w \in [0..N -> Nat] /\ w[0] = 0
        /\ \A n \in 1..N : w[n] = w[n - 1] + (IF table[n] \in flags THEN Bit[n] ELSE 0)
    BY <1>2 DEF Packs
  <2>2. ASSUME NEW n \in 1..N PROVE w[n] = w[n - 1] \/ w[n] = w[n - 1] + Bit[n]
    <3>1. n - 1 \in 0..N
      BY <1>1
    <3>2. w[n - 1] \in Nat
      BY <2>1, <3>1
    <3>3. w[n - 1] + 0 = w[n - 1]
      BY <3>2
    <3> QED BY <2>1, <3>3
  <2> QED BY <1>1, <2>1, <2>2
<1> HIDE DEF N, b
<1>4. b \in {0, 1} /\ (b = 1 <=> table[j] \in flags)
  BY DEF b
<1> DEFINE L == {n \in 0..N : n < N => w[n] < Bit[n + 1]}
           H == {n \in 0..N : n >= j => \E c \in Nat : w[n] = w[j - 1] + Bit[j] * (b + 2 * c)}
<1>5. 0 \in L
  BY <1>1, <1>3, BitFacts
<1>6. ASSUME NEW n \in 1..N, n - 1 \in L PROVE n \in L
  <2> SUFFICES ASSUME n < N PROVE w[n] < Bit[n + 1]
    BY <1>1
  <2>1. w[n - 1] < Bit[n] /\ w[n - 1] \in Nat
    BY <1>1, <1>3, <1>6
  <2>2. n \in 1..Width /\ n + 1 \in 2..Width /\ (n + 1) - 1 = n
    BY <1>1 DEF Width
  <2>3. Bit[n + 1] = 2 * Bit[n] /\ Bit[n] \in Nat
    BY <2>2, BitFacts
  <2> QED BY <1>3, <2>1, <2>3
<1> HIDE DEF L
<1>7. 0..N \subseteq L
  BY <1>1, <1>5, <1>6, RangeInd
<1>8. w[j - 1] \in 0..(Bit[j] - 1) /\ Bit[j] \in Nat \ {0}
  <2>1. j - 1 \in 0..N /\ j - 1 < N /\ (j - 1) + 1 = j
    BY <1>1
  <2>2. w[j - 1] < Bit[j] /\ w[j - 1] \in Nat
    BY <1>3, <1>7, <2>1 DEF L
  <2> QED BY <1>1, <2>2, BitFacts
<1>9. 0 \in H
  BY <1>1
<1>10. ASSUME NEW n \in 1..N, n - 1 \in H PROVE n \in H
  <2> SUFFICES ASSUME n >= j PROVE \E c \in Nat : w[n] = w[j - 1] + Bit[j] * (b + 2 * c)
    BY <1>1
  <2>1. CASE n = j
    <3>1. w[n] = w[j - 1] + Bit[j] * (b + 2 * 0)
      BY <1>3, <1>8, <2>1 DEF b
    <3> QED BY <3>1
  <2>2. CASE n # j
    <3>1. n - 1 >= j /\ j < n /\ n \in 1..Width
      BY <1>1, <2>2 DEF Width
    <3>2. PICK c \in Nat : w[n - 1] = w[j - 1] + Bit[j] * (b + 2 * c)
      BY <1>10, <3>1
    <3>3. PICK k \in Nat : Bit[n] = Bit[j] * (2 * k)
      BY <1>1, <3>1, HigherBit
    <3>4. CASE w[n] = w[n - 1]
      BY <3>2, <3>4
    <3>5. CASE w[n] = w[n - 1] + Bit[n]
      <4>1. c + k \in Nat
        OBVIOUS
      <4>2. Bit[j] * (b + 2 * c) + Bit[j] * (2 * k) = Bit[j] * (b + 2 * (c + k))
        BY <1>4, <1>8
      <4>3. w[n] = w[j - 1] + Bit[j] * (b + 2 * (c + k))
        BY <1>4, <1>8, <3>2, <3>3, <3>5, <4>2
      <4> QED BY <4>1, <4>3
    <3> QED BY <1>3, <3>4, <3>5
  <2> QED BY <2>1, <2>2
<1> HIDE DEF H
<1>11. 0..N \subseteq H
  BY <1>1, <1>9, <1>10, RangeInd
<1>12. PICK c \in Nat : w[N] = w[j - 1] + Bit[j] * (b + 2 * c)
  <2>1. N \in 0..N /\ N >= j
    BY <1>1
  <2> QED BY <1>11, <2>1 DEF H
<1>13. (w[N] \div Bit[j]) % 2 = b
  <2>1. PICK a \in Nat \ {0}, r \in Nat : a = Bit[j] /\ r = w[j - 1] /\ r \in 0..(a - 1)
    BY <1>8
  <2>2. ((r + a * (b + 2 * c)) \div a) % 2 = b
    BY <1>4, <2>1, BitOfWord
  <2> QED BY <1>12, <2>1, <2>2
<1> QED BY <1>2, <1>4, <1>13 DEF IsSet


-----------------------------------------------------------------------------
(* Settings survive the trip.                                              *)

\* Packing a set of flags and unpacking the word gives the flags in the table.
LEMMA FlagsSurvive ==
    ASSUME NEW flags, NEW table, Len(table) \in Nat, Len(table) <= Width
    PROVE  UnpackFlags(PackFlags(flags, table), table) = flags \cap Flags(table)
<1> DEFINE word == PackFlags(flags, table)
<1>1. \A j \in 1..Len(table) : IsSet(word, j) <=> table[j] \in flags
  BY PackedBits
<1> HIDE DEF word
<1>2. UnpackFlags(word, table) = flags \cap Flags(table)
  BY <1>1 DEF UnpackFlags, Flags
<1> QED BY <1>2 DEF word

LEMMA Tables ==
    /\ Len(InputFlags) \in Nat /\ Len(InputFlags) <= Width
    /\ Len(OutputFlags) \in Nat /\ Len(OutputFlags) <= Width
    /\ Len(ControlFlags) \in Nat /\ Len(ControlFlags) <= Width
    /\ Len(LocalFlags) \in Nat /\ Len(LocalFlags) <= Width
BY DEF InputFlags, OutputFlags, ControlFlags, LocalFlags, Width

\* termunpack after termpack.
THEOREM SettingsRoundTrip ==
    ASSUME NEW t \in Settings, "CS8" \notin t.c
    PROVE  TermUnpack(TermPack(t)) = Portable(t)
<1> DEFINE w == TermPack(t)
           c == t.c \cup (IF t.size = 8 THEN {"CS8"} ELSE {})
           control == c \cap Flags(ControlFlags)
<1>1. /\ UnpackFlags(w.i, InputFlags) = t.i \cap Flags(InputFlags)
      /\ UnpackFlags(w.o, OutputFlags) = t.o \cap Flags(OutputFlags)
      /\ UnpackFlags(w.c, ControlFlags) = control
      /\ UnpackFlags(w.l, LocalFlags) = t.l \cap Flags(LocalFlags)
  <2>1. /\ w.i = PackFlags(t.i, InputFlags) /\ w.o = PackFlags(t.o, OutputFlags)
        /\ w.c = PackFlags(c, ControlFlags) /\ w.l = PackFlags(t.l, LocalFlags)
    BY DEF TermPack
  <2> QED BY <2>1, Tables, FlagsSurvive
<1>2. /\ w.ispeed = PackSpeed(t.ispeed) /\ w.ospeed = PackSpeed(t.ospeed)
      /\ w.cc = [k \in CarriedChars |-> t.cc[k]]
  BY DEF TermPack
<1>3. "CS8" \in Flags(ControlFlags)
  <2>1. 1 \in 1..Len(ControlFlags) /\ ControlFlags[1] = "CS8"
    BY DEF ControlFlags
  <2> QED BY <2>1 DEF Flags
<1>4. ("CS8" \in control <=> t.size = 8) /\ control \ {"CS8"} = t.c \cap Flags(ControlFlags)
  BY <1>3
<1>5. \A s : /\ PackSpeed(PackSpeed(s)) = PackSpeed(s)
             /\ PackSpeed(s) = IF s \in Speeds THEN s ELSE 9600
  BY DEF PackSpeed, Speeds
<1> DEFINE fi == t.i \cap Flags(InputFlags)
           fo == t.o \cap Flags(OutputFlags)
           fc == t.c \cap Flags(ControlFlags)
           fl == t.l \cap Flags(LocalFlags)
           size == IF t.size = 8 THEN 8 ELSE 7
           ispeed == IF t.ispeed \in Speeds THEN t.ispeed ELSE 9600
           ospeed == IF t.ospeed \in Speeds THEN t.ospeed ELSE 9600
           chars == [k \in Chars |-> IF k \in CarriedChars THEN t.cc[k] ELSE 0]
           out == [i |-> fi, o |-> fo, c |-> fc, l |-> fl, size |-> size,
                   ispeed |-> ispeed, ospeed |-> ospeed, cc |-> chars]
<1>6. /\ UnpackFlags(w.i, InputFlags) = fi /\ UnpackFlags(w.o, OutputFlags) = fo
      /\ UnpackFlags(w.l, LocalFlags) = fl
      /\ UnpackFlags(w.c, ControlFlags) = control /\ control \ {"CS8"} = fc
      /\ (IF "CS8" \in control THEN 8 ELSE 7) = size
      /\ PackSpeed(w.ispeed) = ispeed /\ PackSpeed(w.ospeed) = ospeed
  BY <1>1, <1>2, <1>4, <1>5
<1>9. [k \in Chars |-> IF k \in CarriedChars THEN w.cc[k] ELSE 0] = chars
  <2>1. \A k \in CarriedChars : w.cc[k] = t.cc[k]
    BY <1>2
  <2> QED BY <2>1
<1>7. Portable(t) = out
  BY DEF Portable
<1> HIDE DEF w, control, fi, fo, fc, fl, size, ispeed, ospeed, chars
<1>8. TermUnpack(w) = out
  <2>1. TermUnpack(w) =
          [i |-> UnpackFlags(w.i, InputFlags), o |-> UnpackFlags(w.o, OutputFlags),
           c |-> UnpackFlags(w.c, ControlFlags) \ {"CS8"}, l |-> UnpackFlags(w.l, LocalFlags),
           size |-> IF "CS8" \in UnpackFlags(w.c, ControlFlags) THEN 8 ELSE 7,
           ispeed |-> PackSpeed(w.ispeed), ospeed |-> PackSpeed(w.ospeed),
           cc |-> [k \in Chars |-> IF k \in CarriedChars THEN w.cc[k] ELSE 0]]
    BY DEF TermUnpack
  <2>2. /\ UnpackFlags(w.c, ControlFlags) \ {"CS8"} = fc
        /\ (IF "CS8" \in UnpackFlags(w.c, ControlFlags) THEN 8 ELSE 7) = size
    BY <1>6
  <2> QED BY <1>6, <1>9, <2>1, <2>2, Zenon
<1> QED BY <1>7, <1>8 DEF w

-----------------------------------------------------------------------------
(* The session.                                                            *)

\* What a client with these settings sends.
Ask(t) == [cmd |-> "Terminal", modes |-> TermPack(t)]
Requests(t) == {Ask(t)} \cup {[cmd |-> c] : c \in {"Shell", "Exec"}}

\* DescriptorsAccounted and SettingsSurvive are not inductive without the kinds
\* of the descriptors, the settings that are saved and those on their way.
HInv ==
    /\ original \in Terminals
    /\ saved \in {None, original}
    /\ terminal \in {original, Raw(original)}
    /\ saved = None => terminal = original \/ (client = "exited" /\ restoreFailed)
    /\ client \in {"begin", "exited"} => saved = None
    /\ client \in {"begin", "setup", "running", "exited", "aborted"}
    /\ toServer \in Seq(Requests(original))
    /\ ptyModes \in {None, Portable(original)}
    /\ ptyfd \in {None, "pty"} /\ ttyfd \in {None, "tty"} /\ aftty \in {None, "dup"}
    /\ DescriptorsAccounted


LEMMA Names ==
    /\ None \notin {"pty", "tty", "dup"}
    /\ \A t \in Terminals : t # None /\ TermUnpack(TermPack(t)) = Portable(t)
<1>1. \A t \in Terminals : t \in Settings /\ "CS8" \notin t.c
  BY TerminalsAssumption
<1>2. \A t \in Terminals : TermUnpack(TermPack(t)) = Portable(t)
  BY <1>1, SettingsRoundTrip
<1> QED BY <1>1, <1>2, TerminalsAssumption

\* A request for a terminal carries the client's settings.
LEMMA RequestFacts ==
    ASSUME NEW t
    PROVE  /\ Ask(t) \in Requests(t) /\ \A c \in {"Shell", "Exec"} : [cmd |-> c] \in Requests(t)
           /\ \A r \in Requests(t) : r.cmd = "Terminal" => r.modes = TermPack(t)
<1>1. \A c \in {"Shell", "Exec"} : [cmd |-> c].cmd # "Terminal"
  OBVIOUS
<1>2. Ask(t).modes = TermPack(t)
  BY DEF Ask
<1> QED BY <1>1, <1>2 DEF Requests

\* What the client does leaves the session alone, and the other way round.
ClientPart ==
    /\ original \in Terminals
    /\ saved \in {None, original}
    /\ terminal \in {original, Raw(original)}
    /\ saved = None => terminal = original \/ (client = "exited" /\ restoreFailed)
    /\ client \in {"begin", "exited"} => saved = None
    /\ client \in {"begin", "setup", "running", "exited", "aborted"}

SessionPart ==
    /\ ptyfd \in {None, "pty"} /\ ttyfd \in {None, "tty"} /\ aftty \in {None, "dup"}
    /\ DescriptorsAccounted

LEMMA Parts ==
    HInv <=> /\ ClientPart /\ SessionPart /\ toServer \in Seq(Requests(original))
             /\ ptyModes \in {None, Portable(original)}
BY DEF HInv, ClientPart, SessionPart

LEMMA InitHInv ==
    Init => HInv
<1> SUFFICES ASSUME Init PROVE HInv
  OBVIOUS
<1>1. ClientPart
  BY DEF Init, ClientPart
<1>2. SessionPart
  BY DEF Init, SessionPart, DescriptorsAccounted
<1>3. toServer \in Seq(Requests(original)) /\ ptyModes \in {None, Portable(original)}
  BY EmptySeq DEF Init
<1> QED BY <1>1, <1>2, <1>3, Parts

LEMMA SameSession ==
    ASSUME SessionPart, UNCHANGED sessionVars
    PROVE  SessionPart' /\ ptyModes' = ptyModes
BY DEF SessionPart, sessionVars, DescriptorsAccounted

LEMMA SameClient ==
    ASSUME ClientPart, UNCHANGED clientVars
    PROVE  ClientPart' /\ original' = original
BY DEF ClientPart, clientVars

LEMMA SetupTerminalHInv ==
    ASSUME HInv, SetupTerminal
    PROVE  HInv'
<1>1. /\ ClientPart /\ SessionPart /\ toServer \in Seq(Requests(original))
      /\ ptyModes \in {None, Portable(original)}
  BY Parts
<1>2. original' = original /\ UNCHANGED sessionVars /\ client = "begin" /\ client' \in {"setup", "aborted"}
  BY DEF SetupTerminal
<1>3. SessionPart' /\ ptyModes' = ptyModes
  BY <1>1, <1>2, SameSession
<1>4. saved = None /\ terminal = original /\ original \in Terminals
  BY <1>1, <1>2 DEF ClientPart
<1>5. ClientPart'
  <2>1. /\ saved' \in {None, original} /\ (saved' = None => terminal' = original)
        /\ terminal' \in {original, Raw(original)}
    <3>1. original # None
      BY <1>4, Names
    <3>2. /\ (saved' = saved /\ terminal' = terminal) \/ saved' = original
          /\ terminal' \in {terminal, Raw(terminal)}
      BY <1>4 DEF SetupTerminal
    <3> QED BY <1>4, <3>1, <3>2
  <2> QED BY <1>2, <1>4, <2>1 DEF ClientPart
<1>6. toServer' \in Seq(Requests(original))
  <2> DEFINE S == Requests(original)
  <2>1. toServer' = toServer \/ toServer' = Append(toServer, Ask(original))
    BY <1>4 DEF SetupTerminal, Ask
  <2>2. Ask(original) \in S
    BY RequestFacts
  <2> HIDE DEF S
  <2>3. Append(toServer, Ask(original)) \in Seq(S)
    BY <1>1, <2>2, AppendProperties DEF S
  <2> QED BY <1>1, <2>1, <2>3 DEF S
<1> QED
  <2>1. toServer' \in Seq(Requests(original')) /\ ptyModes' \in {None, Portable(original')}
    BY <1>1, <1>2, <1>3, <1>6
  <2> QED BY <1>3, <1>5, <2>1 DEF HInv, ClientPart, SessionPart

LEMMA RunShellHInv ==
    ASSUME HInv, NEW cmd \in {"Shell", "Exec"}, RunShell(cmd)
    PROVE  HInv'
<1>1. /\ ClientPart /\ SessionPart /\ toServer \in Seq(Requests(original))
      /\ ptyModes \in {None, Portable(original)}
  BY Parts
<1>2. /\ original' = original /\ UNCHANGED sessionVars /\ client' = "running"
      /\ toServer' = Append(toServer, [cmd |-> cmd]) /\ terminal' = terminal /\ saved' = saved
      /\ client \in {"begin", "setup"}
  BY DEF RunShell
<1>3. SessionPart' /\ ptyModes' = ptyModes
  BY <1>1, <1>2, SameSession
<1>4. ClientPart'
  BY <1>1, <1>2 DEF ClientPart
<1>5. toServer' \in Seq(Requests(original))
  <2> DEFINE S == Requests(original)
             r == [cmd |-> cmd]
  <2>1. r \in S
    BY RequestFacts
  <2> HIDE DEF S, r
  <2>2. Append(toServer, r) \in Seq(S)
    BY <1>1, <2>1, AppendProperties DEF S
  <2> QED BY <1>2, <2>2 DEF S, r
<1>6. toServer' \in Seq(Requests(original')) /\ ptyModes' \in {None, Portable(original')}
  BY <1>1, <1>2, <1>3, <1>5
<1> QED BY <1>3, <1>4, <1>6 DEF HInv, ClientPart, SessionPart

\* The client ends, or something happens that is no concern of the invariant.
LEMMA ClientEndsHInv ==
    ASSUME HInv, UNCHANGED sessionVars, toServer' = toServer,
           \/ UNCHANGED clientVars
           \/ /\ client = "running" /\ client' = "aborted" /\ terminal' = terminal
              /\ saved' = saved /\ original' = original
           \/ client = "running" /\ \E c : Exit(c)
    PROVE  HInv'
<1>1. /\ ClientPart /\ SessionPart /\ toServer \in Seq(Requests(original))
      /\ ptyModes \in {None, Portable(original)}
  BY Parts
<1>2. SessionPart' /\ ptyModes' = ptyModes
  BY <1>1, SameSession
<1>3. ClientPart' /\ original' = original
  <2>1. CASE UNCHANGED clientVars
    BY <1>1, <2>1, SameClient
  <2>2. CASE /\ client = "running" /\ client' = "aborted" /\ terminal' = terminal
             /\ saved' = saved /\ original' = original
    BY <1>1, <2>2 DEF ClientPart
  <2>3. ASSUME client = "running", NEW c, Exit(c) PROVE ClientPart' /\ original' = original
    <3>1. client' = "exited" /\ saved' = None /\ original' = original
      BY <2>3 DEF Exit
    <3>2. terminal' = original \/ (terminal' = terminal /\ restoreFailed')
      <4>1. CASE terminal' = (IF saved = None THEN terminal ELSE saved)
        BY <1>1, <2>3, <4>1 DEF ClientPart
      <4>2. CASE UNCHANGED terminal /\ restoreFailed' = TRUE
        BY <4>2
      <4> QED BY <2>3, <4>1, <4>2 DEF Exit
    <3> QED BY <1>1, <3>1, <3>2 DEF ClientPart
  <2> QED BY <2>1, <2>2, <2>3
<1>4. toServer' \in Seq(Requests(original')) /\ ptyModes' \in {None, Portable(original')}
  BY <1>1, <1>2, <1>3
<1> QED BY <1>2, <1>3, <1>4 DEF HInv, ClientPart, SessionPart

\* open_pty with the modes of the message.
LEMMA OpenPtyKeeps ==
    ASSUME SessionPart, NEW msg, OpenPty(msg)
    PROVE  SessionPart' /\ ptyModes' \in {ptyModes, TermUnpack(msg.modes), None}
<1>1. CASE UNCHANGED sessionVars
  BY <1>1, SameSession
<1>2. CASE /\ ptyfd = None /\ ttyfd = None /\ ptyfd' = "pty" /\ fds' = fds \cup {"pty"}
           /\ ptyModes' \in {TermUnpack(msg.modes), None} /\ UNCHANGED <<ttyfd, aftty>>
  <2>1. "pty" # None
    BY Names
  <2>2. fds' = {ptyfd', ttyfd', aftty'} \ {None}
    BY <1>2, <2>1 DEF SessionPart, DescriptorsAccounted
  <2> QED BY <1>2, <2>2 DEF SessionPart, DescriptorsAccounted
<1> QED BY <1>1, <1>2 DEF OpenPty

LEMMA RunKeeps ==
    ASSUME SessionPart, Run
    PROVE  SessionPart' /\ ptyModes' = ptyModes
<1>1. CASE UNCHANGED <<sessionVars, child>>
  BY <1>1, SameSession
<1>2. "tty" # None /\ "dup" # None
  BY Names
<1>3. CASE ttyfd = None /\ ForkFails /\ UNCHANGED <<ptyfd, aftty, ptyModes, child>>
  <2>1. ttyfd' \in {None, "tty"} /\ fds' = {ptyfd', ttyfd', aftty'} \ {None}
    BY <1>2, <1>3 DEF ForkFails, SessionPart, DescriptorsAccounted
  <2> QED BY <1>3, <2>1 DEF SessionPart, DescriptorsAccounted
<1>4. CASE ttyfd = None /\ Forked /\ UNCHANGED <<ptyfd, ptyModes>>
  <2>1. aftty' = "dup" /\ ttyfd' \in {None, "tty"}
    BY <1>4 DEF Forked
  <2>2. fds' = {ptyfd', ttyfd', aftty'} \ {None}
    BY <1>2, <1>4, <2>1 DEF Forked, SessionPart, DescriptorsAccounted
  <2> QED BY <1>4, <2>1, <2>2 DEF SessionPart, DescriptorsAccounted
<1> QED BY <1>1, <1>3, <1>4 DEF Run

LEMMA InReadyHInv ==
    ASSUME HInv, InReady
    PROVE  HInv'
<1>1. /\ ClientPart /\ SessionPart /\ toServer \in Seq(Requests(original))
      /\ ptyModes \in {None, Portable(original)}
  BY Parts
<1>2. /\ toServer # <<>> /\ toServer' = Tail(toServer) /\ GotControlPacket(Head(toServer))
      /\ UNCHANGED clientVars
  BY DEF InReady
<1>3. ClientPart' /\ original' = original
  BY <1>1, <1>2, SameClient
<1> DEFINE S == Requests(original)
<1>4. \A r \in S : r.cmd = "Terminal" => r.modes = TermPack(original)
  BY RequestFacts
<1>5. toServer \in Seq(S)
  BY <1>1
<1> HIDE DEF S
<1>6. Head(toServer) \in S /\ Tail(toServer) \in Seq(S)
  BY <1>2, <1>5, SeqFacts
<1>7. SessionPart' /\ ptyModes' \in {None, Portable(original)}
  <2>1. CASE Head(toServer).cmd = "Terminal" /\ OpenPty(Head(toServer))
    <3>1. Head(toServer).modes = TermPack(original)
      BY <1>4, <1>6, <2>1
    <3>2. TermUnpack(TermPack(original)) = Portable(original)
      BY <1>1, Names DEF ClientPart
    <3>3. SessionPart' /\ ptyModes' \in {ptyModes, TermUnpack(Head(toServer).modes), None}
      BY <1>1, <2>1, OpenPtyKeeps
    <3> QED BY <1>1, <3>1, <3>2, <3>3
  <2>2. CASE Run
    BY <1>1, <2>2, RunKeeps
  <2> QED BY <1>2, <2>1, <2>2 DEF GotControlPacket
<1>8. toServer' \in Seq(Requests(original')) /\ ptyModes' \in {None, Portable(original')}
  BY <1>2, <1>3, <1>6, <1>7 DEF S
<1> QED BY <1>3, <1>7, <1>8 DEF HInv, ClientPart, SessionPart

LEMMA NextHInv ==
    HInv /\ [Next]_vars => HInv'
<1> SUFFICES ASSUME HInv, [Next]_vars PROVE HInv'
  OBVIOUS
<1>1. CASE SetupTerminal
  BY <1>1, SetupTerminalHInv
<1>2. ASSUME NEW cmd \in {"Shell", "Exec"}, RunShell(cmd) PROVE HInv'
  BY <1>2, RunShellHInv
<1>3. CASE InReady
  BY <1>3, InReadyHInv
<1>4. CASE InputFails
  <2>1. /\ UNCHANGED sessionVars /\ toServer' = toServer
        /\ client = "running" /\ client' = "aborted"
        /\ terminal' = terminal /\ saved' = saved /\ original' = original
    BY <1>4 DEF InputFails
  <2> QED BY <2>1, ClientEndsHInv
<1>5. CASE OutReady
  <2>1. UNCHANGED sessionVars /\ toServer' = toServer /\ client = "running" /\ \E c : Exit(c)
    BY <1>5 DEF OutReady
  <2> QED BY <2>1, ClientEndsHInv
<1>6. CASE StreamEnds
  <2>1. UNCHANGED sessionVars /\ toServer' = toServer /\ client = "running" /\ \E c : Exit(c)
    BY <1>6 DEF StreamEnds
  <2> QED BY <2>1, ClientEndsHInv
<1>7. CASE ChildDone \/ UNCHANGED vars \/ \E status \in Statuses : ChildEnds(status)
  <2>1. UNCHANGED sessionVars /\ toServer' = toServer /\ UNCHANGED clientVars
    BY <1>7 DEF ChildDone, ChildEnds, vars
  <2> QED BY <2>1, ClientEndsHInv
<1> QED BY <1>1, <1>2, <1>3, <1>4, <1>5, <1>6, <1>7 DEF Next

\* In every state of a session its descriptors have their kinds, and the
\* client's settings are where they should be.
THEOREM SessionInvariant ==
    Spec => []HInv
<1>1. Init => HInv
  BY InitHInv
<1>2. HInv /\ [Next]_vars => HInv'
  BY NextHInv
<1> QED BY <1>1, <1>2, PTL DEF Spec

\* Whatever step of open_pty or run fails, the open descriptors are those that
\* the session holds and will close.
THEOREM DescriptorsStayAccounted ==
    Spec => []DescriptorsAccounted
<1>1. HInv => DescriptorsAccounted
  BY DEF HInv
<1> QED BY <1>1, SessionInvariant, PTL

\* The pseudo-terminal has the settings of the client's terminal, as far as the
\* protocol can say them; that terminal is as it was or raw, and stays raw after
\* the client only if a fatal error ended it or termiosRestore failed.
THEOREM SettingsStay ==
    Spec => []SettingsSurvive
<1>1. HInv => SettingsSurvive
  BY DEF HInv, SettingsSurvive
<1> QED BY <1>1, SessionInvariant, PTL
=============================================================================
