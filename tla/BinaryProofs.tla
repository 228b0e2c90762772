---------------------------- MODULE BinaryProofs ----------------------------
(***************************************************************************)
(* What GraphFormat and ElfSurgery do to a binary, for binaries of every   *)
(* length.                                                                 *)
(***************************************************************************)
EXTENDS GraphFormat, ElfSurgery, SequenceTheorems, TLAPS

\* A graph whose parts lie one behind the other and which ends with them.
IsGraph(g) ==
    /\ WellFormed(g) /\ g.off.byte_count = Len(g.bytes)
    /\ g = [bytes |-> g.bytes, off |-> g.off, marker |-> g.marker]
    /\ g.off = [byte_count |-> g.off.byte_count, mod_off |-> g.off.mod_off,
                mod_len |-> g.off.mod_len, argv0 |-> g.off.argv0]

Sizes == {RECORD_36, RECORD_52}

-----------------------------------------------------------------------------
(* The layout.                                                             *)

\* What the record size is inferred from is ambiguous for short records only
\* (parse_graph, detect_layout.detect): long ones are always told, short ones
\* unless their number is divisible by 13.
THEOREM LayoutTold ==
    ASSUME NEW n \in Nat
    PROVE  /\ Layout(RECORD_52 * n) = RECORD_52
           /\ n % 13 # 0 => Layout(RECORD_36 * n) = RECORD_36
           /\ n % 13 = 0 => Layout(RECORD_36 * n) = RECORD_52
<1>1. (13 * n) % 13 = 0
  BY SMT
<1>2. (9 * n) % 9 = 0 /\ ((9 * n) % 13 = 0 <=> n % 13 = 0)
  BY SMT
<1> QED  BY <1>1, <1>2 DEF Layout, RECORD_36, RECORD_52

LEMMA LayoutCount ==
    ASSUME NEW off, off.mod_len \in Nat, Layout(off.mod_len) # 0
    PROVE  /\ Layout(off.mod_len) \in Sizes /\ Count(off) \in Nat
           /\ off.mod_len = Layout(off.mod_len) * Count(off)
<1> DEFINE m == off.mod_len
<1>1. CASE m % 13 = 0
  <2>1. m = 13 * (m \div 13) /\ m \div 13 \in Nat
    BY <1>1, SMT
  <2> QED  BY <1>1, <2>1 DEF Layout, Count, Sizes, RECORD_36, RECORD_52
<1>2. CASE m % 13 # 0
  <2>1. m % 9 = 0
    BY <1>2 DEF Layout, RECORD_36, RECORD_52
  <2>2. m = 9 * (m \div 9) /\ m \div 9 \in Nat
    BY <2>1, SMT
  <2> QED  BY <1>2, <2>1, <2>2 DEF Layout, Count, Sizes, RECORD_36, RECORD_52
<1> QED  BY <1>1, <1>2

-----------------------------------------------------------------------------
(* Sequences that are cut and joined.                                      *)

LEMMA Pieces ==
    ASSUME NEW w \in Seq(Nat), NEW a \in Nat, NEW b \in Nat,
           a <= b, b <= Len(w)
    PROVE  /\ SubSeq(w, 1, a) \in Seq(Nat) /\ Len(SubSeq(w, 1, a)) = a
           /\ SubSeq(w, a + 1, b) \in Seq(Nat) /\ Len(SubSeq(w, a + 1, b)) = b - a
           /\ SubSeq(w, b + 1, Len(w)) \in Seq(Nat)
           /\ Len(SubSeq(w, b + 1, Len(w))) = Len(w) - b
           /\ w = SubSeq(w, 1, a) \o SubSeq(w, a + 1, b) \o SubSeq(w, b + 1, Len(w))
<1> DEFINE s == SubSeq(w, 1, a)
           t == SubSeq(w, a + 1, b)
           u == SubSeq(w, b + 1, Len(w))
<1>0. Len(w) \in Nat /\ \A i \in 1 .. Len(w) : w[i] \in Nat
  BY LenProperties, ElementOfSeq
<1>1. s \in Seq(Nat) /\ Len(s) = a
  <2>1. \A i \in 1 .. a : w[i] \in Nat
    BY <1>0
  <2> QED  BY <2>1, SubSeqProperties
<1>2. t \in Seq(Nat) /\ Len(t) = b - a
  <2>1. (\A i \in a + 1 .. b : w[i] \in Nat) /\ a + 1 \in Int
    BY <1>0
  <2>2. t \in Seq(Nat) /\ Len(t) = IF a + 1 <= b THEN b - (a + 1) + 1 ELSE 0
    BY <2>1, SubSeqProperties
  <2> QED  BY <2>2
<1>3. u \in Seq(Nat) /\ Len(u) = Len(w) - b
  <2>1. (\A i \in b + 1 .. Len(w) : w[i] \in Nat) /\ b + 1 \in Int
    BY <1>0
  <2>2. u \in Seq(Nat) /\ Len(u) = IF b + 1 <= Len(w) THEN Len(w) - (b + 1) + 1 ELSE 0
    BY <1>0, <2>1, SubSeqProperties
  <2> QED  BY <1>0, <2>2
<1>4. s \o t = SubSeq(w, 1, b)
  <2>1. 1 \in 1 .. Len(w) + 1 /\ a \in 1 - 1 .. Len(w) /\ b \in a .. Len(w)
    BY <1>0
  <2> QED  BY <2>1, ConcatAdjacentSubSeq
<1>5. SubSeq(w, 1, b) \o u = SubSeq(w, 1, Len(w))
  <2>1. 1 \in 1 .. Len(w) + 1 /\ b \in 1 - 1 .. Len(w) /\ Len(w) \in b .. Len(w)
    BY <1>0
  <2> QED  BY <2>1, ConcatAdjacentSubSeq
<1>6. SubSeq(w, 1, Len(w)) = w
  BY SubSeqFull
<1> QED  BY <1>1, <1>2, <1>3, <1>4, <1>5, <1>6

LEMMA Joined ==
    ASSUME NEW s \in Seq(Nat), NEW t \in Seq(Nat), NEW u \in Seq(Nat)
    PROVE  LET w == s \o t \o u
           IN  /\ w \in Seq(Nat) /\ Len(w) = Len(s) + Len(t) + Len(u)
               /\ SubSeq(w, 1, Len(s)) = s
               /\ SubSeq(w, Len(s) + 1, Len(s) + Len(t)) = t
               /\ SubSeq(w, Len(s) + Len(t) + 1, Len(w)) = u
<1> DEFINE w == s \o t \o u
<1>1. Len(s) \in Nat /\ Len(t) \in Nat /\ Len(u) \in Nat
  BY LenProperties
<1>2. /\ s \o t \in Seq(Nat) /\ Len(s \o t) = Len(s) + Len(t)
      /\ \A i \in 1 .. Len(s) + Len(t) :
            (s \o t)[i] = IF i <= Len(s) THEN s[i] ELSE t[i - Len(s)]
  BY ConcatProperties
<1>3. /\ w \in Seq(Nat) /\ Len(w) = Len(s) + Len(t) + Len(u)
      /\ \A i \in 1 .. Len(s) + Len(t) + Len(u) :
            w[i] = IF i <= Len(s) + Len(t) THEN (s \o t)[i]
                   ELSE u[i - (Len(s) + Len(t))]
  BY <1>2, ConcatProperties
<1>4. \A i \in 1 .. Len(w) : w[i] \in Nat
  BY <1>3, ElementOfSeq
<1> HIDE DEF w
<1>5. SubSeq(w, 1, Len(s)) = s
  <2> DEFINE x == SubSeq(w, 1, Len(s))
  <2>1. \A i \in 1 .. Len(s) : w[i] \in Nat
    BY <1>1, <1>3, <1>4
  <2>2. x \in Seq(Nat) /\ Len(x) = Len(s) /\ \A i \in 1 .. Len(s) : x[i] = w[i]
    <3>1. /\ x \in Seq(Nat) /\ Len(x) = (IF 1 <= Len(s) THEN Len(s) - 1 + 1 ELSE 0)
          /\ \A i \in 1 .. Len(s) - 1 + 1 : x[i] = w[1 + i - 1]
      BY <2>1, <1>1, SubSeqProperties
    <3> QED  BY <3>1, <1>1
  <2>3. \A i \in 1 .. Len(s) : w[i] = s[i]
    BY <1>1, <1>2, <1>3
  <2> HIDE DEF x
  <2>4. x = s
    BY <2>2, <2>3, SeqEqual
  <2> QED  BY <2>4 DEF x
<1>6. SubSeq(w, Len(s) + 1, Len(s) + Len(t)) = t
  <2> DEFINE x == SubSeq(w, Len(s) + 1, Len(s) + Len(t))
  <2>1. \A i \in Len(s) + 1 .. Len(s) + Len(t) : w[i] \in Nat
    BY <1>1, <1>3, <1>4
  <2>2. x \in Seq(Nat) /\ Len(x) = Len(t) /\ \A i \in 1 .. Len(t) : x[i] = w[Len(s) + i]
    <3>1. Len(s) + 1 \in Int /\ Len(s) + Len(t) \in Int
      BY <1>1
    <3>2. /\ x \in Seq(Nat)
          /\ Len(x) = (IF Len(s) + 1 <= Len(s) + Len(t)
                         THEN Len(s) + Len(t) - (Len(s) + 1) + 1 ELSE 0)
          /\ \A i \in 1 .. Len(s) + Len(t) - (Len(s) + 1) + 1 :
                x[i] = w[Len(s) + 1 + i - 1]
      BY <2>1, <3>1, SubSeqProperties
    <3> QED  BY <3>2, <1>1
  <2>3. ASSUME NEW i \in 1 .. Len(t)  PROVE w[Len(s) + i] = t[i]
    <3>1. Len(s) + i \in 1 .. Len(s) + Len(t) /\ ~(Len(s) + i <= Len(s))
          /\ Len(s) + i - Len(s) = i /\ Len(s) + i \in 1 .. Len(s) + Len(t) + Len(u)
      BY <1>1
    <3>2. w[Len(s) + i] = (s \o t)[Len(s) + i]
      BY <3>1, <1>3
    <3>3. (s \o t)[Len(s) + i] = t[Len(s) + i - Len(s)]
      BY <3>1, <1>2
    <3> QED  BY <3>1, <3>2, <3>3
  <2> HIDE DEF x
  <2>4. x = t
    BY <2>2, <2>3, SeqEqual
  <2> QED  BY <2>4 DEF x
<1>7. SubSeq(w, Len(s) + Len(t) + 1, Len(w)) = u
  <2> DEFINE x == SubSeq(w, Len(s) + Len(t) + 1, Len(w))
             l == Len(s) + Len(t)
  <2>1. \A i \in l + 1 .. Len(w) : w[i] \in Nat
    BY <1>1, <1>3, <1>4
  <2>2. x \in Seq(Nat) /\ Len(x) = Len(u) /\ \A i \in 1 .. Len(u) : x[i] = w[l + i]
    <3>1. l + 1 \in Int /\ Len(w) \in Int
      BY <1>1, <1>3
    <3>2. /\ x \in Seq(Nat)
          /\ Len(x) = (IF l + 1 <= Len(w) THEN Len(w) - (l + 1) + 1 ELSE 0)
          /\ \A i \in 1 .. Len(w) - (l + 1) + 1 : x[i] = w[l + 1 + i - 1]
      BY <2>1, <3>1, SubSeqProperties
    <3> QED  BY <3>2, <1>1, <1>3
  <2>3. ASSUME NEW i \in 1 .. Len(u)  PROVE w[l + i] = u[i]
    <3>1. /\ Len(s) + Len(t) + i \in 1 .. Len(s) + Len(t) + Len(u)
          /\ ~(Len(s) + Len(t) + i <= Len(s) + Len(t))
          /\ Len(s) + Len(t) + i - (Len(s) + Len(t)) = i
      BY <1>1
    <3>2. w[Len(s) + Len(t) + i] = u[Len(s) + Len(t) + i - (Len(s) + Len(t))]
      BY <3>1, <1>3
    <3> QED  BY <3>1, <3>2
  <2> HIDE DEF x
  <2>4. x = u
    BY <2>2, <2>3, SeqEqual
  <2> QED  BY <2>4 DEF x
<1> QED  BY <1>3, <1>5, <1>6, <1>7 DEF w

LEMMA FunctionIsSeq ==
    ASSUME NEW m \in Nat, NEW f \in [1 .. m -> Nat]
    PROVE  f \in Seq(Nat) /\ Len(f) = m
<1>1. f \in Seq(Nat)
  BY SeqDef
<1>2. DOMAIN f = 1 .. Len(f) /\ Len(f) \in Nat
  BY <1>1, LenProperties
<1>3. DOMAIN f = 1 .. m
  OBVIOUS
<1> QED  BY <1>1, <1>2, <1>3

-----------------------------------------------------------------------------
(* Records.                                                                *)

LongOf(r, n) ==
    [i \in 1 .. 13 * n |->
        LET k == (i - 1) \div 13
            j == (i - 1) % 13
        IN  IF j < 8 THEN r[9 * k + j + 1] ELSE IF j = 12 THEN r[9 * k + 9] ELSE 0]
ShortOf(r, n) ==
    [i \in 1 .. 9 * n |->
        LET k == (i - 1) \div 9
            j == (i - 1) % 9
        IN  IF j < 8 THEN r[13 * k + j + 1] ELSE r[13 * k + 13]]

LEMMA ConvertIs ==
    ASSUME NEW n \in Nat, NEW r
    PROVE  /\ Len(r) = 9 * n => ConvertRecords(r, 13) = LongOf(r, n)
           /\ Len(r) = 13 * n => ConvertRecords(r, 9) = ShortOf(r, n)
<1>1. (9 * n) \div 9 = n /\ (13 * n) \div 13 = n
  BY SMT
<1>2. Len(r) = 9 * n => ConvertRecords(r, 13) = LongOf(r, n)
  BY <1>1 DEF ConvertRecords, LongOf, RECORD_36, RECORD_52
<1>3. Len(r) = 13 * n => ConvertRecords(r, 9) = ShortOf(r, n)
  BY <1>1 DEF ConvertRecords, ShortOf, RECORD_36, RECORD_52
<1> QED  BY <1>2, <1>3

LEMMA LongType ==
    ASSUME NEW n \in Nat, NEW r \in Seq(Nat), Len(r) = 9 * n
    PROVE  /\ LongOf(r, n) \in Seq(Nat) /\ Len(LongOf(r, n)) = 13 * n
           /\ \A k \in 0 .. n - 1 :
                /\ \A j \in 1 .. 8 : LongOf(r, n)[13 * k + j] = r[9 * k + j]
                /\ LongOf(r, n)[13 * k + 13] = r[9 * k + 9]
<1>1. ASSUME NEW i \in 1 .. 13 * n  PROVE LongOf(r, n)[i] \in Nat
  <2>1. PICK k \in 0 .. n - 1, j \in 0 .. 12 : k = (i - 1) \div 13 /\ j = (i - 1) % 13
    <3>1. (i - 1) \div 13 \in 0 .. n - 1 /\ (i - 1) % 13 \in 0 .. 12
      BY SMT
    <3> QED  BY <3>1
  <2>2. 9 * k + 9 \in 1 .. Len(r) /\ (j < 8 => 9 * k + j + 1 \in 1 .. Len(r))
    BY <2>1, SMT
  <2>3. LongOf(r, n)[i] = IF j < 8 THEN r[9 * k + j + 1]
                          ELSE IF j = 12 THEN r[9 * k + 9] ELSE 0
    BY <2>1 DEF LongOf
  <2>4. r[9 * k + 9] \in Nat /\ (j < 8 => r[9 * k + j + 1] \in Nat)
    BY <2>2, ElementOfSeq
  <2> QED  BY <2>3, <2>4
<1>2. LongOf(r, n) \in [1 .. 13 * n -> Nat] /\ 13 * n \in Nat
  BY <1>1 DEF LongOf
<1>3. ASSUME NEW k \in 0 .. n - 1, NEW j \in 1 .. 13
      PROVE  LongOf(r, n)[13 * k + j] = IF j < 9 THEN r[9 * k + j]
                                        ELSE IF j = 13 THEN r[9 * k + 9] ELSE 0
  <2>1. 13 * k + j \in 1 .. 13 * n
    BY SMT
  <2>2. (13 * k + j - 1) \div 13 = k /\ (13 * k + j - 1) % 13 = j - 1
    BY SMT
  <2>3. 9 * k + (j - 1) + 1 = 9 * k + j
    OBVIOUS
  <2> QED  BY <2>1, <2>2, <2>3 DEF LongOf
<1>4. ASSUME NEW k \in 0 .. n - 1
      PROVE  /\ \A j \in 1 .. 8 : LongOf(r, n)[13 * k + j] = r[9 * k + j]
             /\ LongOf(r, n)[13 * k + 13] = r[9 * k + 9]
  BY <1>3
<1> QED  BY <1>2, <1>4, FunctionIsSeq

LEMMA ShortType ==
    ASSUME NEW n \in Nat, NEW r \in Seq(Nat), Len(r) = 13 * n
    PROVE  /\ ShortOf(r, n) \in Seq(Nat) /\ Len(ShortOf(r, n)) = 9 * n
           /\ \A k \in 0 .. n - 1 :
                /\ \A j \in 1 .. 8 : ShortOf(r, n)[9 * k + j] = r[13 * k + j]
                /\ ShortOf(r, n)[9 * k + 9] = r[13 * k + 13]
<1>1. ASSUME NEW i \in 1 .. 9 * n  PROVE ShortOf(r, n)[i] \in Nat
  <2>1. PICK k \in 0 .. n - 1, j \in 0 .. 8 : k = (i - 1) \div 9 /\ j = (i - 1) % 9
    <3>1. (i - 1) \div 9 \in 0 .. n - 1 /\ (i - 1) % 9 \in 0 .. 8
      BY SMT
    <3> QED  BY <3>1
  <2>2. 13 * k + 13 \in 1 .. Len(r) /\ (j < 8 => 13 * k + j + 1 \in 1 .. Len(r))
    BY <2>1, SMT
  <2>3. ShortOf(r, n)[i] = IF j < 8 THEN r[13 * k + j + 1] ELSE r[13 * k + 13]
    BY <2>1 DEF ShortOf
  <2>4. r[13 * k + 13] \in Nat /\ (j < 8 => r[13 * k + j + 1] \in Nat)
    BY <2>2, ElementOfSeq
  <2> QED  BY <2>3, <2>4
<1>2. ShortOf(r, n) \in [1 .. 9 * n -> Nat] /\ 9 * n \in Nat
  BY <1>1 DEF ShortOf
<1>3. ASSUME NEW k \in 0 .. n - 1, NEW j \in 1 .. 9
      PROVE  ShortOf(r, n)[9 * k + j] = IF j < 9 THEN r[13 * k + j] ELSE r[13 * k + 13]
  <2>1. 9 * k + j \in 1 .. 9 * n
    BY SMT
  <2>2. (9 * k + j - 1) \div 9 = k /\ (9 * k + j - 1) % 9 = j - 1
    BY SMT
  <2>3. 13 * k + (j - 1) + 1 = 13 * k + j
    OBVIOUS
  <2> QED  BY <2>1, <2>2, <2>3 DEF ShortOf
<1>4. ASSUME NEW k \in 0 .. n - 1
      PROVE  /\ \A j \in 1 .. 8 : ShortOf(r, n)[9 * k + j] = r[13 * k + j]
             /\ ShortOf(r, n)[9 * k + 9] = r[13 * k + 13]
  BY <1>3
<1> QED  BY <1>2, <1>4, FunctionIsSeq

\* Short records that are made long and short again are the same records.
LEMMA ThereAndBack ==
    ASSUME NEW n \in Nat, NEW r \in Seq(Nat), Len(r) = 9 * n
    PROVE  ShortOf(LongOf(r, n), n) = r
<1> DEFINE c == LongOf(r, n)
           d == ShortOf(c, n)
<1>1. c \in Seq(Nat) /\ Len(c) = 13 * n
  BY LongType
<1>2. d \in Seq(Nat) /\ Len(d) = 9 * n
  BY <1>1, ShortType
<1>3. ASSUME NEW i \in 1 .. 9 * n  PROVE d[i] = r[i]
  <2>1. PICK k \in 0 .. n - 1, j \in 1 .. 9 : i = 9 * k + j
    <3>1. (i - 1) \div 9 \in 0 .. n - 1 /\ ((i - 1) % 9) + 1 \in 1 .. 9
          /\ i = 9 * ((i - 1) \div 9) + (((i - 1) % 9) + 1)
      BY SMT
    <3> QED  BY <3>1
  <2>2. CASE j <= 8
    <3>1. j \in 1 .. 8
      BY <2>2
    <3>2. d[9 * k + j] = c[13 * k + j]
      BY <1>1, <3>1, ShortType
    <3>3. c[13 * k + j] = r[9 * k + j]
      BY <3>1, LongType
    <3> QED  BY <2>1, <3>2, <3>3
  <2>3. CASE j = 9
    <3>1. d[9 * k + 9] = c[13 * k + 13]
      BY <1>1, ShortType
    <3>2. c[13 * k + 13] = r[9 * k + 9]
      BY LongType
    <3> QED  BY <2>1, <2>3, <3>1, <3>2
  <2> QED  BY <2>2, <2>3
<1> HIDE DEF c, d
<1>4. d = r
  <2>1. Len(d) = Len(r) /\ \A i \in 1 .. Len(d) : d[i] = r[i]
    BY <1>2, <1>3
  <2> QED  BY <1>2, <2>1, SeqEqual
<1> QED  BY <1>4 DEF d, c

-----------------------------------------------------------------------------
(* Graphs.                                                                 *)

LEMMA PartsOf ==
    ASSUME NEW g, IsGraph(g)
    PROVE  /\ Strings(g) \in Seq(Nat) /\ Len(Strings(g)) = g.off.mod_off
           /\ Records(g) \in Seq(Nat) /\ Len(Records(g)) = g.off.mod_len
           /\ Argv(g) \in Seq(Nat) /\ Len(Argv(g)) = g.off.byte_count - g.off.argv0
           /\ g.bytes = Strings(g) \o Records(g) \o Argv(g)
<1> DEFINE w == g.bytes
           a == g.off.mod_off
           b == g.off.argv0
<1>1. /\ w \in Seq(Nat) /\ a \in Nat /\ b \in Nat /\ a <= b /\ b <= Len(w)
      /\ a + g.off.mod_len = b /\ g.off.mod_len = b - a /\ g.off.byte_count = Len(w)
  BY DEF IsGraph, WellFormed, OffsetsOf
<1>2. /\ Strings(g) = SubSeq(w, 1, a) /\ Records(g) = SubSeq(w, a + 1, b)
      /\ Argv(g) = SubSeq(w, b + 1, Len(w))
  BY <1>1 DEF Strings, Records, Argv
<1> HIDE DEF w, a, b
<1>3. /\ SubSeq(w, 1, a) \in Seq(Nat) /\ Len(SubSeq(w, 1, a)) = a
      /\ SubSeq(w, a + 1, b) \in Seq(Nat) /\ Len(SubSeq(w, a + 1, b)) = b - a
      /\ SubSeq(w, b + 1, Len(w)) \in Seq(Nat)
      /\ Len(SubSeq(w, b + 1, Len(w))) = Len(w) - b
      /\ w = SubSeq(w, 1, a) \o SubSeq(w, a + 1, b) \o SubSeq(w, b + 1, Len(w))
  <2>1. w \in Seq(Nat) /\ a \in Nat /\ b \in Nat /\ a <= b /\ b <= Len(w)
    BY <1>1
  <2> QED  BY ONLY <2>1, Pieces
<1> QED  BY <1>1, <1>2, <1>3 DEF w, a, b

\* Three parts and the Offsets that tell where they are make a graph.
GraphOf(s, t, u) ==
    [bytes |-> s \o t \o u,
     off |-> [byte_count |-> Len(s) + Len(t) + Len(u), mod_off |-> Len(s),
              mod_len |-> Len(t), argv0 |-> Len(s) + Len(t)],
     marker |-> TRUE]

LEMMA GraphOfParts ==
    ASSUME NEW s \in Seq(Nat), NEW t \in Seq(Nat), NEW u \in Seq(Nat)
    PROVE  LET g == GraphOf(s, t, u)
           IN  IsGraph(g) /\ Strings(g) = s /\ Records(g) = t /\ Argv(g) = u
<1> DEFINE g == GraphOf(s, t, u)
           w == s \o t \o u
<1>1. Len(s) \in Nat /\ Len(t) \in Nat /\ Len(u) \in Nat
  BY LenProperties
<1>2. /\ w \in Seq(Nat) /\ Len(w) = Len(s) + Len(t) + Len(u)
      /\ SubSeq(w, 1, Len(s)) = s
      /\ SubSeq(w, Len(s) + 1, Len(s) + Len(t)) = t
      /\ SubSeq(w, Len(s) + Len(t) + 1, Len(w)) = u
  BY Joined
<1> HIDE DEF w
<1>3. g = [bytes |-> w,
           off |-> [byte_count |-> Len(s) + Len(t) + Len(u), mod_off |-> Len(s),
                    mod_len |-> Len(t), argv0 |-> Len(s) + Len(t)],
           marker |-> TRUE]
  BY DEF GraphOf, w
<1> HIDE DEF g
<1>4. IsGraph(g)
  <2>1. /\ g.off = [byte_count |-> Len(s) + Len(t) + Len(u), mod_off |-> Len(s),
                    mod_len |-> Len(t), argv0 |-> Len(s) + Len(t)]
        /\ g.bytes = w
        /\ g = [bytes |-> g.bytes, off |-> g.off, marker |-> g.marker]
    BY <1>3
  <2>2. /\ g.off.byte_count = Len(s) + Len(t) + Len(u) /\ g.off.mod_off = Len(s)
        /\ g.off.mod_len = Len(t) /\ g.off.argv0 = Len(s) + Len(t)
    BY <2>1
  <2>3. g.off \in OffsetsOf
    BY <1>1, <2>1 DEF OffsetsOf
  <2>4. g.off.argv0 <= g.off.byte_count
    BY <1>1, <2>2
  <2>5. g.off = [byte_count |-> g.off.byte_count, mod_off |-> g.off.mod_off,
                 mod_len |-> g.off.mod_len, argv0 |-> g.off.argv0]
    BY <2>1, <2>2
  <2>6. WellFormed(g)
    BY <1>2, <2>1, <2>2, <2>3, <2>4 DEF WellFormed
  <2> QED  BY <1>2, <2>1, <2>2, <2>5, <2>6 DEF IsGraph
<1>5. Strings(g) = s /\ Records(g) = t /\ Argv(g) = u
  BY <1>2, <1>3 DEF Strings, Records, Argv
<1> QED  BY <1>4, <1>5 DEF g

LEMMA IsGraphOfParts ==
    ASSUME NEW g, IsGraph(g), g.marker = TRUE
    PROVE  g = GraphOf(Strings(g), Records(g), Argv(g))
<1>1. /\ g.bytes = Strings(g) \o Records(g) \o Argv(g)
      /\ Len(Strings(g)) = g.off.mod_off /\ Len(Records(g)) = g.off.mod_len
      /\ Len(Argv(g)) = g.off.byte_count - g.off.argv0
  BY PartsOf
<1>2. /\ g.off = [byte_count |-> g.off.byte_count, mod_off |-> g.off.mod_off,
                  mod_len |-> g.off.mod_len, argv0 |-> g.off.argv0]
      /\ g = [bytes |-> g.bytes, off |-> g.off, marker |-> TRUE]
      /\ g.off.mod_off \in Nat /\ g.off.mod_len \in Nat /\ g.off.argv0 \in Nat
      /\ g.off.byte_count \in Nat /\ g.off.mod_off + g.off.mod_len = g.off.argv0
  BY DEF IsGraph, WellFormed, OffsetsOf
<1>3. /\ g.off.argv0 = Len(Strings(g)) + Len(Records(g))
      /\ g.off.byte_count = Len(Strings(g)) + Len(Records(g)) + Len(Argv(g))
  BY <1>1, <1>2
<1> QED  BY <1>1, <1>2, <1>3 DEF GraphOf

\* A conversion changes the records and nothing else: convert_graph gives the
\* graph of the same strings, the same arguments and the converted records.
LEMMA ConvertParts ==
    ASSUME NEW g, IsGraph(g), NEW to \in Sizes, CanConvert(g, to)
    PROVE  /\ Convert(g, to) = GraphOf(Strings(g), ConvertRecords(Records(g), to), Argv(g))
           /\ ConvertRecords(Records(g), to) \in Seq(Nat)
           /\ Len(ConvertRecords(Records(g), to)) = to * Count(g.off)
           /\ Count(g.off) \in Nat
<1> DEFINE n == Count(g.off)
           r == Records(g)
           c == ConvertRecords(r, to)
           from == Layout(g.off.mod_len)
<1>1. /\ Layout(g.off.mod_len) # 0 /\ from # to
      /\ g.off.mod_off + g.off.mod_len = g.off.argv0
      /\ g.off.mod_len \in Nat /\ g.off.mod_off \in Nat /\ g.off.argv0 \in Nat
      /\ g.off.byte_count \in Nat /\ g.off.argv0 <= g.off.byte_count
      /\ g.off = [byte_count |-> g.off.byte_count, mod_off |-> g.off.mod_off,
                  mod_len |-> g.off.mod_len, argv0 |-> g.off.argv0]
  BY DEF CanConvert, Parses, IsGraph, WellFormed, OffsetsOf
<1>2. from \in Sizes /\ n \in Nat /\ g.off.mod_len = from * n
  BY <1>1, LayoutCount
<1>3. r \in Seq(Nat) /\ Len(r) = from * n
      /\ Strings(g) \in Seq(Nat) /\ Len(Strings(g)) = g.off.mod_off
      /\ Len(Argv(g)) = g.off.byte_count - g.off.argv0
  BY <1>2, PartsOf
<1> HIDE DEF n, r, from
<1>4. /\ to = 13 => from = 9
      /\ to = 9 => from = 13
      /\ to \in {9, 13}
  BY <1>1, <1>2 DEF Sizes, RECORD_36, RECORD_52
<1>5. c \in Seq(Nat) /\ Len(c) = to * n
  <2>1. CASE to = 13
    <3>1. Len(r) = 9 * n
      BY <1>3, <1>4, <2>1
    <3>2. c = LongOf(r, n)
      BY <1>2, <2>1, <3>1, ConvertIs
    <3> QED  BY <1>2, <1>3, <2>1, <3>1, <3>2, LongType
  <2>2. CASE to = 9
    <3>1. Len(r) = 13 * n
      BY <1>3, <1>4, <2>2
    <3>2. c = ShortOf(r, n)
      BY <1>2, <2>2, <3>1, ConvertIs
    <3> QED  BY <1>2, <1>3, <2>2, <3>1, <3>2, ShortType
  <2> QED  BY <1>4, <2>1, <2>2
<1> HIDE DEF c
<1>6. NewOffsets(g.off, to) =
        [byte_count |-> Len(Strings(g)) + Len(c) + Len(Argv(g)),
         mod_off |-> Len(Strings(g)), mod_len |-> Len(c),
         argv0 |-> Len(Strings(g)) + Len(c)]
  <2>1. CASE to = 13
    <3>1. NewOffsets(g.off, 13) =
            [byte_count |-> g.off.byte_count + 4 * n, mod_off |-> g.off.mod_off,
             mod_len |-> 13 * n, argv0 |-> g.off.mod_off + 13 * n]
      BY <1>1, <1>2 DEF NewOffsets, n, DELTA, RECORD_36, RECORD_52
    <3>2. Len(c) = 13 * n /\ g.off.argv0 = g.off.mod_off + 9 * n
      BY <2>1, <1>1, <1>2, <1>4, <1>5
    <3>3. g.off.byte_count + 4 * n = Len(Strings(g)) + Len(c) + Len(Argv(g))
      BY <3>2, <1>1, <1>2, <1>3
    <3> QED  BY <2>1, <3>1, <3>2, <3>3, <1>3
  <2>2. CASE to = 9
    <3>1. NewOffsets(g.off, 9) =
            [byte_count |-> g.off.byte_count - 4 * n, mod_off |-> g.off.mod_off,
             mod_len |-> 9 * n, argv0 |-> g.off.mod_off + 9 * n]
      BY <1>1, <1>2 DEF NewOffsets, n, DELTA, RECORD_36, RECORD_52
    <3>2. Len(c) = 9 * n /\ g.off.argv0 = g.off.mod_off + 13 * n
      BY <2>2, <1>1, <1>2, <1>4, <1>5
    <3>3. g.off.byte_count - 4 * n = Len(Strings(g)) + Len(c) + Len(Argv(g))
      BY <3>2, <1>1, <1>2, <1>3
    <3> QED  BY <2>2, <3>1, <3>2, <3>3, <1>3
  <2> QED  BY <2>1, <2>2, <1>4
<1>7. Convert(g, to) = GraphOf(Strings(g), c, Argv(g))
  BY <1>6 DEF Convert, GraphOf, c, r
<1> QED  BY <1>2, <1>5, <1>7 DEF c, n, r

\* A converted graph is a graph again (convert_graph's byte_count, mod_len and
\* argv0 fit what it writes) that says what the original says: the same strings
\* and arguments, as many records, and in each the 4 string pointers and the 4
\* u8 of the original.
THEOREM ConvertFaithful ==
    ASSUME NEW g, IsGraph(g), NEW to \in Sizes, CanConvert(g, to)
    PROVE  LET c == Convert(g, to)
               from == Layout(g.off.mod_len)
           IN  /\ IsGraph(c) /\ c.marker = TRUE
               /\ Strings(c) = Strings(g) /\ Argv(c) = Argv(g)
               /\ c.off.mod_len = to * Count(g.off)
               /\ \A k \in 0 .. Count(g.off) - 1 :
                    /\ \A j \in 1 .. 8 : Records(c)[to * k + j] = Records(g)[from * k + j]
                    /\ Records(c)[to * k + to] = Records(g)[from * k + from]
<1> DEFINE n == Count(g.off)
           r == Records(g)
           d == ConvertRecords(r, to)
           c == Convert(g, to)
           from == Layout(g.off.mod_len)
<1>1. c = GraphOf(Strings(g), d, Argv(g)) /\ d \in Seq(Nat) /\ Len(d) = to * n /\ n \in Nat
  BY ConvertParts
<1>2. Strings(g) \in Seq(Nat) /\ Argv(g) \in Seq(Nat)
      /\ r \in Seq(Nat) /\ Len(r) = g.off.mod_len
  BY PartsOf
<1>3. IsGraph(c) /\ Strings(c) = Strings(g) /\ Records(c) = d /\ Argv(c) = Argv(g)
  BY <1>1, <1>2, GraphOfParts
<1>4. c.marker = TRUE /\ c.off.mod_len = Len(d)
  BY <1>1 DEF GraphOf
<1>5. from \in Sizes /\ g.off.mod_len = from * n /\ from # to
  BY LayoutCount DEF CanConvert, Parses, IsGraph, WellFormed, OffsetsOf
<1> HIDE DEF n, r, d, c, from
<1>6. (to = 13 /\ from = 9) \/ (to = 9 /\ from = 13)
  BY <1>5 DEF Sizes, RECORD_36, RECORD_52
<1>7. ASSUME NEW k \in 0 .. n - 1
      PROVE  /\ \A j \in 1 .. 8 : d[to * k + j] = r[from * k + j]
             /\ d[to * k + to] = r[from * k + from]
  <2>1. CASE to = 13 /\ from = 9
    <3>1. Len(r) = 9 * n
      BY <1>2, <1>5, <2>1
    <3>2. d = LongOf(r, n)
      BY <1>1, <2>1, <3>1, ConvertIs DEF d
    <3> QED  BY <1>1, <1>2, <2>1, <3>1, <3>2, LongType
  <2>2. CASE to = 9 /\ from = 13
    <3>1. Len(r) = 13 * n
      BY <1>2, <1>5, <2>2
    <3>2. d = ShortOf(r, n)
      BY <1>1, <2>2, <3>1, ConvertIs DEF d
    <3> QED  BY <1>1, <1>2, <2>2, <3>1, <3>2, ShortType
  <2> QED  BY <1>6, <2>1, <2>2
<1> QED  BY <1>1, <1>3, <1>4, <1>7 DEF c, r, n, from

\* Converting to long records and back is the identity: of the bytes that
\* convert_layout.py writes with --to 52 nothing is lost.
THEOREM ConvertBack ==
    ASSUME NEW g, IsGraph(g), CanConvert(g, RECORD_52)
    PROVE  LET c == Convert(g, RECORD_52)
           IN  CanConvert(c, RECORD_36) /\ Convert(c, RECORD_36) = g
<1> DEFINE n == Count(g.off)
           s == Strings(g)
           r == Records(g)
           u == Argv(g)
           d == ConvertRecords(r, RECORD_52)
           c == Convert(g, RECORD_52)
<1>1. Parses(g) /\ g.marker = TRUE
  <2>1. Parses(g)
    BY DEF CanConvert
  <2> QED  BY <2>1 DEF Parses
<1>2. c = GraphOf(s, d, u) /\ d \in Seq(Nat) /\ Len(d) = 13 * n /\ n \in Nat
  BY ConvertParts DEF Sizes, RECORD_52
<1>3. s \in Seq(Nat) /\ r \in Seq(Nat) /\ u \in Seq(Nat) /\ Len(r) = g.off.mod_len
  BY PartsOf
<1>4. Len(r) = 9 * n
  <2>1. Layout(g.off.mod_len) = 9 /\ g.off.mod_len = Layout(g.off.mod_len) * n
    BY LayoutCount DEF CanConvert, Parses, IsGraph, WellFormed, OffsetsOf, Sizes,
                       RECORD_36, RECORD_52
  <2> QED  BY <1>3, <2>1
<1>5. IsGraph(c) /\ Strings(c) = s /\ Records(c) = d /\ Argv(c) = u
  BY <1>2, <1>3, GraphOfParts
<1>6. /\ c.marker = TRUE /\ c.off.mod_len = Len(d) /\ c.off.argv0 = c.off.mod_off + c.off.mod_len
  BY <1>2 DEF GraphOf
<1> HIDE DEF s, r, u, d, c, n
<1>7. Layout(c.off.mod_len) = 13
  BY <1>2, <1>6, LayoutTold DEF RECORD_52
<1>8. CanConvert(c, RECORD_36)
  BY <1>6, <1>7 DEF CanConvert, Parses, RECORD_36
<1>9. Convert(c, RECORD_36) = GraphOf(s, ConvertRecords(d, 9), u)
  BY <1>5, <1>8, ConvertParts DEF Sizes, RECORD_36
<1>10. ConvertRecords(d, 9) = r
  <2>1. d = LongOf(r, n)
    BY <1>2, <1>4, ConvertIs DEF d, RECORD_52
  <2>2. ConvertRecords(d, 9) = ShortOf(d, n)
    BY <1>2, ConvertIs
  <2> QED  BY <1>2, <1>3, <1>4, <2>1, <2>2, ThereAndBack
<1>11. g = GraphOf(s, r, u)
  BY <1>1, IsGraphOfParts DEF s, r, u
<1> QED  BY <1>8, <1>9, <1>10, <1>11 DEF c

-----------------------------------------------------------------------------
(* Whole binaries.                                                         *)

LEMMA PieceOfTail ==
    ASSUME NEW w \in Seq(Nat), NEW h \in Nat, NEW x \in Nat, NEW y \in Nat,
           x <= y, h + y <= Len(w)
    PROVE  SubSeq(SubSeq(w, h + 1, Len(w)), x + 1, y) = SubSeq(w, h + x + 1, h + y)
<1> DEFINE t == SubSeq(w, h + 1, Len(w))
           p == SubSeq(t, x + 1, y)
           q == SubSeq(w, h + x + 1, h + y)
<1>1. Len(w) \in Nat /\ \A i \in 1 .. Len(w) : w[i] \in Nat
  BY LenProperties, ElementOfSeq
<1>2. t \in Seq(Nat) /\ Len(t) = Len(w) - h /\ \A i \in 1 .. Len(w) - h : t[i] = w[h + i]
  <2>1. (\A i \in h + 1 .. Len(w) : w[i] \in Nat) /\ h + 1 \in Int
    BY <1>1
  <2>2. /\ t \in Seq(Nat)
        /\ Len(t) = (IF h + 1 <= Len(w) THEN Len(w) - (h + 1) + 1 ELSE 0)
        /\ \A i \in 1 .. Len(w) - (h + 1) + 1 : t[i] = w[h + 1 + i - 1]
    BY <1>1, <2>1, SubSeqProperties
  <2> QED  BY <1>1, <2>2
<1> HIDE DEF t
<1>3. p \in Seq(Nat) /\ Len(p) = y - x /\ \A i \in 1 .. y - x : p[i] = t[x + i]
  <2>1. (\A i \in x + 1 .. y : t[i] \in Nat) /\ x + 1 \in Int /\ y \in Int
    BY <1>1, <1>2, ElementOfSeq
  <2>2. /\ p \in Seq(Nat) /\ Len(p) = (IF x + 1 <= y THEN y - (x + 1) + 1 ELSE 0)
        /\ \A i \in 1 .. y - (x + 1) + 1 : p[i] = t[x + 1 + i - 1]
    BY <2>1, SubSeqProperties
  <2> QED  BY <2>2
<1>4. q \in Seq(Nat) /\ Len(q) = y - x /\ \A i \in 1 .. y - x : q[i] = w[h + x + i]
  <2>1. (\A i \in h + x + 1 .. h + y : w[i] \in Nat) /\ h + x + 1 \in Int /\ h + y \in Int
    BY <1>1
  <2>2. /\ q \in Seq(Nat)
        /\ Len(q) = (IF h + x + 1 <= h + y THEN h + y - (h + x + 1) + 1 ELSE 0)
        /\ \A i \in 1 .. h + y - (h + x + 1) + 1 : q[i] = w[h + x + 1 + i - 1]
    BY <2>1, SubSeqProperties
  <2> QED  BY <2>2
<1>5. ASSUME NEW i \in 1 .. y - x  PROVE t[x + i] = w[h + x + i]
  <2>1. x + i \in 1 .. Len(w) - h /\ h + (x + i) = h + x + i
    BY <1>1
  <2> QED  BY <2>1, <1>2
<1> HIDE DEF p, q
<1>6. p = q
  <2>1. Len(p) = Len(q) /\ \A i \in 1 .. Len(p) : p[i] = q[i]
    BY <1>3, <1>4, <1>5
  <2> QED  BY <1>3, <1>4, <2>1, SeqEqual
<1> QED  BY <1>6 DEF p, q, t

LEMMA JoinedTwo ==
    ASSUME NEW s \in Seq(Nat), NEW t \in Seq(Nat)
    PROVE  /\ s \o t \in Seq(Nat) /\ Len(s \o t) = Len(s) + Len(t)
           /\ SubSeq(s \o t, 1, Len(s)) = s
           /\ SubSeq(s \o t, Len(s) + 1, Len(s \o t)) = t
<1>1. << >> \in Seq(Nat) /\ Len(<< >>) = 0
  BY EmptySeq
<1>2. s \o t \in Seq(Nat) /\ Len(s \o t) = Len(s) + Len(t)
  BY ConcatProperties
<1>3. (s \o t) \o << >> = s \o t
  BY <1>2, ConcatEmptySeq
<1> DEFINE w == (s \o t) \o << >>
<1>4. /\ SubSeq(w, 1, Len(s)) = s
      /\ SubSeq(w, Len(s) + 1, Len(s) + Len(t)) = t
  BY <1>1, Joined
<1> QED  BY <1>2, <1>3, <1>4

LEMMA TailParts ==
    ASSUME NEW w \in Seq(Nat), NEW h \in Nat, NEW m \in Nat, NEW a \in Nat,
           NEW n \in Nat, m <= a, a <= n, h + n = Len(w)
    PROVE  /\ SubSeq(w, 1, h) \in Seq(Nat) /\ Len(SubSeq(w, 1, h)) = h
           /\ SubSeq(w, h + 1, Len(w)) \in Seq(Nat)
           /\ Len(SubSeq(w, h + 1, Len(w))) = n
           /\ SubSeq(SubSeq(w, h + 1, Len(w)), 1, m) = SubSeq(w, h + 0 + 1, h + m)
           /\ SubSeq(SubSeq(w, h + 1, Len(w)), m + 1, a) = SubSeq(w, h + m + 1, h + a)
           /\ SubSeq(SubSeq(w, h + 1, Len(w)), a + 1, n) = SubSeq(w, h + a + 1, h + n)
<1>1. Len(w) \in Nat
  BY LenProperties
<1>2. h <= Len(w) /\ h + m <= Len(w) /\ h + a <= Len(w) /\ h + n <= Len(w)
      /\ 0 <= m /\ 0 \in Nat /\ h <= h
  BY <1>1
<1>3. /\ SubSeq(w, 1, h) \in Seq(Nat) /\ Len(SubSeq(w, 1, h)) = h
      /\ SubSeq(w, h + 1, Len(w)) \in Seq(Nat)
      /\ Len(SubSeq(w, h + 1, Len(w))) = Len(w) - h
  BY <1>2, Pieces
<1>4. SubSeq(SubSeq(w, h + 1, Len(w)), 0 + 1, m) = SubSeq(w, h + 0 + 1, h + m)
  BY <1>2, PieceOfTail
<1>5. SubSeq(SubSeq(w, h + 1, Len(w)), m + 1, a) = SubSeq(w, h + m + 1, h + a)
  BY <1>2, PieceOfTail
<1>6. SubSeq(SubSeq(w, h + 1, Len(w)), a + 1, n) = SubSeq(w, h + a + 1, h + n)
  BY <1>2, PieceOfTail
<1> QED  BY <1>1, <1>3, <1>4, <1>5, <1>6

\* convert_layout.py works on the whole binary, with offsets that count from
\* the host's end; transplant.py extracts the graph and converts that.  They
\* agree: the graph of the converted binary is the converted graph, and the
\* host before it is left as it was.
THEOREM ConvertBinaryAgrees ==
    ASSUME NEW b, b.bytes \in Seq(Nat), b.off \in OffsetsOf,
           b.off.argv0 <= b.off.byte_count,
           ParsesBinary(b),
           NEW to \in Sizes, Layout(b.off.mod_len) # to
    PROVE  LET c == ConvertBinary(b, to)
           IN  /\ Extract(c) = Convert(Extract(b), to)
               /\ GraphStart(c) = GraphStart(b)
               /\ SubSeq(c.bytes, 1, GraphStart(c)) = SubSeq(b.bytes, 1, GraphStart(b))
<1> DEFINE w == b.bytes
           h == GraphStart(b)
           e == Extract(b)
           c == ConvertBinary(b, to)
           v == Convert(e, to)
           host == SubSeq(w, 1, h)
           tail == SubSeq(w, h + 1, Len(w))
<1>1. /\ b.end = "trailer" /\ b.marker = TRUE /\ Layout(b.off.mod_len) # 0
      /\ b.off.mod_off + b.off.mod_len = b.off.argv0
      /\ b.off.byte_count <= Len(w)
      /\ b.off.byte_count \in Nat /\ b.off.mod_off \in Nat
      /\ b.off.mod_len \in Nat /\ b.off.argv0 \in Nat /\ w \in Seq(Nat)
      /\ b.off.argv0 <= b.off.byte_count
  BY DEF ParsesBinary, Parses, OffsetsOf
<1>2. h \in Nat /\ h = Len(w) - b.off.byte_count /\ Len(w) \in Nat
  BY <1>1, LenProperties DEF GraphStart
<1>3. /\ host \in Seq(Nat) /\ Len(host) = h
      /\ tail \in Seq(Nat) /\ Len(tail) = b.off.byte_count
      /\ SubSeq(tail, 1, b.off.mod_off) = SubSeq(w, h + 0 + 1, h + b.off.mod_off)
      /\ SubSeq(tail, b.off.mod_off + 1, b.off.argv0)
           = SubSeq(w, h + b.off.mod_off + 1, h + b.off.argv0)
      /\ SubSeq(tail, b.off.argv0 + 1, b.off.byte_count)
           = SubSeq(w, h + b.off.argv0 + 1, h + b.off.byte_count)
  <2>1. b.off.mod_off <= b.off.argv0 /\ h + b.off.byte_count = Len(w)
    BY <1>1, <1>2
  <2> DEFINE m == b.off.mod_off
             a == b.off.argv0
             n == b.off.byte_count
  <2>2. /\ w \in Seq(Nat) /\ h \in Nat /\ m \in Nat /\ a \in Nat /\ n \in Nat
        /\ m <= a /\ a <= n /\ h + n = Len(w)
    BY <1>1, <1>2, <2>1
  <2> HIDE DEF w, h, m, a, n
  <2>3. /\ SubSeq(w, 1, h) \in Seq(Nat) /\ Len(SubSeq(w, 1, h)) = h
        /\ SubSeq(w, h + 1, Len(w)) \in Seq(Nat)
        /\ Len(SubSeq(w, h + 1, Len(w))) = n
        /\ SubSeq(SubSeq(w, h + 1, Len(w)), 1, m) = SubSeq(w, h + 0 + 1, h + m)
        /\ SubSeq(SubSeq(w, h + 1, Len(w)), m + 1, a) = SubSeq(w, h + m + 1, h + a)
        /\ SubSeq(SubSeq(w, h + 1, Len(w)), a + 1, n) = SubSeq(w, h + a + 1, h + n)
    BY ONLY <2>2, TailParts
  <2> QED  BY ONLY <2>3 DEF host, tail, m, a, n
<1>4. e = [bytes |-> tail, off |-> b.off, marker |-> b.marker]
  BY <1>1 DEF Extract, ExtractTrailer
<1>5. IsGraph(e) /\ e.off = b.off /\ e.bytes = tail
  <2>1. b.off = [byte_count |-> b.off.byte_count, mod_off |-> b.off.mod_off,
                 mod_len |-> b.off.mod_len, argv0 |-> b.off.argv0]
    BY DEF OffsetsOf
  <2> HIDE DEF e, tail
  <2>2. e.bytes = tail /\ e.off = b.off /\ e = [bytes |-> e.bytes, off |-> e.off, marker |-> e.marker]
    BY <1>4
  <2> QED  BY <1>1, <1>3, <2>1, <2>2 DEF IsGraph, WellFormed
<1>6. CanConvert(e, to)
  BY <1>1, <1>4, <1>5 DEF CanConvert, Parses
<1> HIDE DEF w, h
<1>7. /\ Strings(e) = SubSeq(w, h + 0 + 1, h + b.off.mod_off)
      /\ Records(e) = SubSeq(w, h + b.off.mod_off + 1, h + (b.off.mod_off + b.off.mod_len))
      /\ Argv(e) = SubSeq(w, h + b.off.argv0 + 1, h + b.off.byte_count)
  <2> HIDE DEF e, tail
  <2> QED  BY <1>1, <1>3, <1>5 DEF Strings, Records, Argv
<1>8. c = [end |-> "trailer",
           bytes |-> host \o (Strings(e) \o ConvertRecords(Records(e), to) \o Argv(e)),
           off |-> NewOffsets(b.off, to), marker |-> TRUE]
  <2> HIDE DEF e, host
  <2> QED  BY <1>7 DEF ConvertBinary, h, w, host
<1>9. v = [bytes |-> Strings(e) \o ConvertRecords(Records(e), to) \o Argv(e),
           off |-> NewOffsets(b.off, to), marker |-> TRUE]
  <2> HIDE DEF e
  <2> QED  BY <1>5 DEF Convert
<1>10. IsGraph(v)
  BY <1>5, <1>6, ConvertFaithful
<1> HIDE DEF c, v, e, host
<1>11. v.bytes \in Seq(Nat) /\ v.off.byte_count = Len(v.bytes)
       /\ c.bytes = host \o v.bytes /\ c.off = v.off /\ c.end = "trailer"
       /\ c.marker = TRUE /\ v = [bytes |-> v.bytes, off |-> v.off, marker |-> TRUE]
  BY <1>8, <1>9, <1>10 DEF IsGraph, WellFormed
<1>12. /\ Len(c.bytes) = h + Len(v.bytes)
       /\ SubSeq(c.bytes, 1, h) = host
       /\ SubSeq(c.bytes, h + 1, Len(c.bytes)) = v.bytes
  <2> DEFINE t == v.bytes
  <2>1. host \in Seq(Nat) /\ t \in Seq(Nat) /\ Len(host) = h /\ c.bytes = host \o t
    BY <1>3, <1>11
  <2> HIDE DEF t
  <2>2. /\ Len(host \o t) = Len(host) + Len(t)
        /\ SubSeq(host \o t, 1, Len(host)) = host
        /\ SubSeq(host \o t, Len(host) + 1, Len(host \o t)) = t
    BY ONLY <2>1, JoinedTwo
  <2> QED  BY ONLY <2>1, <2>2 DEF t
<1>13. GraphStart(c) = h
  BY <1>2, <1>11, <1>12, LenProperties DEF GraphStart
<1>14. Extract(c) = v
  BY <1>11, <1>12, <1>13 DEF Extract, ExtractTrailer
<1> QED  BY <1>12, <1>13, <1>14 DEF c, v, e, host, h, w

-----------------------------------------------------------------------------
(* Patches.                                                                *)

Texts(P) == \A p \in P : p.replace \in Nat

LEMMA ReplacedType ==
    ASSUME NEW P, Texts(P), NEW w \in Nat
    PROVE  Replaced(w, P) \in Nat
<1>1. CASE \E p \in P : p.search = w
  <2>1. (CHOOSE p \in P : p.search = w) \in P
    BY <1>1
  <2> QED  BY <1>1, <2>1 DEF Replaced, Texts
<1>2. CASE ~\E p \in P : p.search = w
  BY <1>2 DEF Replaced
<1> QED  BY <1>1, <1>2

LEMMA PatchedWords ==
    ASSUME NEW g, IsGraph(g), NEW P, Texts(P)
    PROVE  /\ Patched(g, P).bytes \in Seq(Nat)
           /\ Len(Patched(g, P).bytes) = Len(g.bytes)
           /\ \A i \in 1 .. Len(g.bytes) :
                Patched(g, P).bytes[i] = IF i <= g.off.mod_off THEN Replaced(g.bytes[i], P)
                                         ELSE g.bytes[i]
           /\ Patched(g, P).off = g.off /\ Patched(g, P).marker = g.marker
           /\ Patched(g, P) = [bytes |-> Patched(g, P).bytes, off |-> g.off,
                               marker |-> g.marker]
<1> DEFINE f == [i \in 1 .. Len(g.bytes) |->
                    IF i <= g.off.mod_off THEN Replaced(g.bytes[i], P) ELSE g.bytes[i]]
<1>1. /\ g.bytes \in Seq(Nat)
      /\ g = [bytes |-> g.bytes, off |-> g.off, marker |-> g.marker]
  BY DEF IsGraph, WellFormed
<1>2. Patched(g, P) = [bytes |-> f, off |-> g.off, marker |-> g.marker]
  BY DEF Patched
<1>3. \A i \in 1 .. Len(g.bytes) : g.bytes[i] \in Nat
  BY <1>1, ElementOfSeq
<1>4. ASSUME NEW i \in 1 .. Len(g.bytes)  PROVE f[i] \in Nat
  BY <1>3, ReplacedType
<1>5. f \in [1 .. Len(g.bytes) -> Nat] /\ Len(g.bytes) \in Nat
  BY <1>1, <1>4, LenProperties
<1>6. f \in Seq(Nat) /\ Len(f) = Len(g.bytes)
  <2> DEFINE m == Len(g.bytes)
  <2>1. m \in Nat /\ f \in [1 .. m -> Nat]
    BY <1>5
  <2> HIDE DEF m, f
  <2>2. f \in Seq(Nat) /\ Len(f) = m
    BY ONLY <2>1, FunctionIsSeq
  <2> QED  BY ONLY <2>2 DEF m
<1>7. \A i \in 1 .. Len(g.bytes) : f[i] = IF i <= g.off.mod_off THEN Replaced(g.bytes[i], P)
                                          ELSE g.bytes[i]
  OBVIOUS
<1> HIDE DEF f
<1> QED  BY <1>2, <1>6, <1>7

LEMMA SamePart ==
    ASSUME NEW v \in Seq(Nat), NEW w \in Seq(Nat), NEW x \in Nat, NEW y \in Nat,
           x <= y, y <= Len(v), y <= Len(w),
           \A i \in x + 1 .. y : v[i] = w[i]
    PROVE  SubSeq(v, x + 1, y) = SubSeq(w, x + 1, y)
<1> DEFINE p == SubSeq(v, x + 1, y)
           q == SubSeq(w, x + 1, y)
<1>1. (\A i \in x + 1 .. y : v[i] \in Nat /\ w[i] \in Nat) /\ x + 1 \in Int /\ y \in Int
  BY ElementOfSeq, LenProperties
<1>2. /\ p \in Seq(Nat) /\ Len(p) = (IF x + 1 <= y THEN y - (x + 1) + 1 ELSE 0)
      /\ \A i \in 1 .. y - (x + 1) + 1 : p[i] = v[x + 1 + i - 1]
  BY <1>1, SubSeqProperties
<1>3. /\ q \in Seq(Nat) /\ Len(q) = (IF x + 1 <= y THEN y - (x + 1) + 1 ELSE 0)
      /\ \A i \in 1 .. y - (x + 1) + 1 : q[i] = w[x + 1 + i - 1]
  BY <1>1, SubSeqProperties
<1> HIDE DEF p, q
<1>4. Len(p) = Len(q) /\ \A i \in 1 .. Len(p) : p[i] = q[i]
  <2>1. Len(p) = y - x /\ Len(q) = y - x
    BY <1>2, <1>3
  <2>2. ASSUME NEW i \in 1 .. y - x  PROVE p[i] = q[i]
    <3>1. i \in 1 .. y - (x + 1) + 1 /\ x + 1 + i - 1 \in x + 1 .. y
      OBVIOUS
    <3> QED  BY <1>2, <1>3, <3>1
  <2> QED  BY <2>1, <2>2
<1>5. p = q
  BY <1>2, <1>3, <1>4, SeqEqual
<1> QED  BY <1>5 DEF p, q

\* patch_graph writes in the string data only and keeps every length: the
\* records that point into it and the Offsets stay true.
THEOREM PatchKeeps ==
    ASSUME NEW g, IsGraph(g), NEW P, Texts(P)
    PROVE  LET p == Patched(g, P)
           IN  /\ IsGraph(p) /\ p.off = g.off /\ p.marker = g.marker
               /\ Records(p) = Records(g) /\ Argv(p) = Argv(g)
<1> DEFINE p == Patched(g, P)
           v == p.bytes
           w == g.bytes
           a == g.off.mod_off
           b == g.off.argv0
           n == g.off.byte_count
<1>1. /\ w \in Seq(Nat) /\ a \in Nat /\ b \in Nat /\ n \in Nat /\ n = Len(w)
      /\ a + g.off.mod_len = b /\ a <= b /\ b <= n
      /\ g = [bytes |-> w, off |-> g.off, marker |-> g.marker]
  BY DEF IsGraph, WellFormed, OffsetsOf
<1>2. /\ v \in Seq(Nat) /\ Len(v) = Len(w) /\ p.off = g.off /\ p.marker = g.marker
      /\ p = [bytes |-> v, off |-> g.off, marker |-> g.marker]
      /\ \A i \in 1 .. Len(w) : v[i] = IF i <= a THEN Replaced(w[i], P) ELSE w[i]
  BY PatchedWords
<1> HIDE DEF p, v, w, a, b, n
<1>3. IsGraph(p)
  BY <1>1, <1>2 DEF IsGraph, WellFormed, OffsetsOf, v, w, a, b, n
<1>4. (\A i \in a + 1 .. b : v[i] = w[i]) /\ (\A i \in b + 1 .. n : v[i] = w[i])
  <2>1. ASSUME NEW i \in a + 1 .. n  PROVE v[i] = w[i]
    <3>1. i \in 1 .. Len(w) /\ ~(i <= a)
      BY <1>1
    <3> QED  BY <1>2, <3>1
  <2>2. (\A i \in a + 1 .. b : i \in a + 1 .. n) /\ (\A i \in b + 1 .. n : i \in a + 1 .. n)
    BY <1>1
  <2> QED  BY <2>1, <2>2
<1>5. /\ SubSeq(v, a + 1, b) = SubSeq(w, a + 1, b)
      /\ SubSeq(v, b + 1, n) = SubSeq(w, b + 1, n)
  <2>1. b <= Len(v) /\ b <= Len(w) /\ n <= Len(v) /\ n <= Len(w)
    BY <1>1, <1>2
  <2>2. v \in Seq(Nat) /\ w \in Seq(Nat) /\ a \in Nat /\ b \in Nat /\ n \in Nat
        /\ a <= b /\ b <= n
    BY <1>1, <1>2
  <2> QED  BY ONLY <2>1, <2>2, <1>4, SamePart
<1>6. Records(p) = SubSeq(v, a + 1, b) /\ Records(g) = SubSeq(w, a + 1, b)
      /\ Argv(p) = SubSeq(v, b + 1, n) /\ Argv(g) = SubSeq(w, b + 1, n)
  BY <1>1, <1>2 DEF Records, Argv, v, w, a, b, n
<1> QED  BY <1>2, <1>3, <1>5, <1>6 DEF p

\* It does not matter whether a graph is patched and then converted (as
\* `convert` after `patch` does) or converted and then patched (as `all`).
THEOREM PatchThenConvert ==
    ASSUME NEW g, IsGraph(g), NEW P, Texts(P), NEW to \in Sizes, CanConvert(g, to)
    PROVE  Convert(Patched(g, P), to) = Patched(Convert(g, to), P)
<1> DEFINE p == Patched(g, P)
           c == Convert(g, to)
           q == Patched(c, P)
           r == ConvertRecords(Records(g), to)
<1>1. /\ IsGraph(p) /\ p.off = g.off /\ p.marker = g.marker
      /\ Records(p) = Records(g) /\ Argv(p) = Argv(g)
  BY PatchKeeps
<1>2. CanConvert(p, to)
  BY <1>1 DEF CanConvert, Parses
<1>3. Convert(p, to) = GraphOf(Strings(p), r, Argv(g))
  BY <1>1, <1>2, ConvertParts
<1>4. c = GraphOf(Strings(g), r, Argv(g)) /\ r \in Seq(Nat)
  BY ConvertParts
<1>5. Strings(g) \in Seq(Nat) /\ Argv(g) \in Seq(Nat)
  BY PartsOf
<1>6. /\ IsGraph(c) /\ c.marker = TRUE /\ Strings(c) = Strings(g)
      /\ Records(c) = r /\ Argv(c) = Argv(g)
  <2>1. IsGraph(c) /\ Strings(c) = Strings(g) /\ Records(c) = r /\ Argv(c) = Argv(g)
    BY <1>4, <1>5, GraphOfParts
  <2>2. c.marker = TRUE
    BY <1>4 DEF GraphOf
  <2> QED  BY <2>1, <2>2
<1>7. /\ IsGraph(q) /\ q.off = c.off /\ q.marker = TRUE
      /\ Records(q) = r /\ Argv(q) = Argv(g)
  BY <1>6, PatchKeeps
<1>8. q = GraphOf(Strings(q), r, Argv(g))
  BY <1>7, IsGraphOfParts
<1>9. Strings(q) = Strings(p)
  <2> DEFINE a == g.off.mod_off
             vp == p.bytes
             vq == q.bytes
             wg == g.bytes
             wc == c.bytes
  <2>1. c.off.mod_off = a
    <3>1. Len(Strings(c)) = c.off.mod_off /\ Len(Strings(g)) = a
      BY <1>6, PartsOf
    <3> QED  BY <1>6, <3>1
  <2>2. /\ vp \in Seq(Nat) /\ Len(vp) = Len(wg)
        /\ \A i \in 1 .. Len(wg) : vp[i] = IF i <= a THEN Replaced(wg[i], P) ELSE wg[i]
    BY PatchedWords
  <2>3. /\ vq \in Seq(Nat) /\ Len(vq) = Len(wc)
        /\ \A i \in 1 .. Len(wc) : vq[i] = IF i <= a THEN Replaced(wc[i], P) ELSE wc[i]
    BY <1>6, <2>1, PatchedWords
  <2>4. a \in Nat /\ a <= Len(wg) /\ wg \in Seq(Nat)
    BY DEF IsGraph, WellFormed, OffsetsOf
  <2>5. a <= Len(wc) /\ wc \in Seq(Nat)
    BY <1>6, <2>1 DEF IsGraph, WellFormed, OffsetsOf
  <2>6. SubSeq(wc, 1, a) = SubSeq(wg, 1, a)
    BY <1>6, <2>1 DEF Strings
  <2>7. Strings(p) = SubSeq(vp, 1, a) /\ Strings(q) = SubSeq(vq, 1, a)
    BY <1>1, <1>7, <2>1 DEF Strings
  <2> HIDE DEF a, vp, vq, wg, wc, p, q, c
  <2>8. ASSUME NEW i \in 1 .. a  PROVE wc[i] = wg[i]
    <3>1. \A k \in 1 .. a : SubSeq(wc, 1, a)[k] = wc[k] /\ SubSeq(wg, 1, a)[k] = wg[k]
      <4>1. (\A k \in 1 .. a : wc[k] \in Nat) /\ (\A k \in 1 .. a : wg[k] \in Nat)
        BY <2>4, <2>5, ElementOfSeq, LenProperties
      <4>2. /\ \A k \in 1 .. a - 1 + 1 : SubSeq(wc, 1, a)[k] = wc[1 + k - 1]
            /\ \A k \in 1 .. a - 1 + 1 : SubSeq(wg, 1, a)[k] = wg[1 + k - 1]
        BY ONLY <2>4, <4>1, SubSeqProperties
      <4> QED  BY <2>4, <4>2
    <3> QED  BY <2>6, <3>1
  <2>9. \A i \in 0 + 1 .. a : vp[i] = vq[i]
    BY <2>2, <2>3, <2>4, <2>5, <2>8, LenProperties
  <2>10. SubSeq(vp, 0 + 1, a) = SubSeq(vq, 0 + 1, a)
    <3>1. a \in Nat /\ 0 \in Nat /\ 0 <= a /\ a <= Len(vp) /\ a <= Len(vq)
          /\ vp \in Seq(Nat) /\ vq \in Seq(Nat)
      BY <2>2, <2>3, <2>4, <2>5
    <3> QED  BY ONLY <3>1, <2>9, SamePart
  <2>11. 0 + 1 = 1
    OBVIOUS
  <2>12. SubSeq(vp, 1, a) = SubSeq(vq, 1, a)
    BY ONLY <2>10, <2>11, Zenon
  <2> QED  BY <2>7, <2>12
<1> QED  BY <1>3, <1>8, <1>9

LEMMA NoPatches ==
    ASSUME NEW g, IsGraph(g)  PROVE Patched(g, {}) = g
<1>1. Texts({})
  BY DEF Texts
<1> DEFINE q == Patched(g, {}).bytes
           w == g.bytes
<1>2. /\ q \in Seq(Nat) /\ Len(q) = Len(w)
      /\ \A i \in 1 .. Len(w) : q[i] = IF i <= g.off.mod_off THEN Replaced(w[i], {})
                                       ELSE w[i]
      /\ Patched(g, {}) = [bytes |-> q, off |-> g.off, marker |-> g.marker]
  BY <1>1, PatchedWords
<1>3. w \in Seq(Nat) /\ g = [bytes |-> w, off |-> g.off, marker |-> g.marker]
  BY DEF IsGraph, WellFormed
<1>4. \A i \in 1 .. Len(w) : q[i] = w[i]
  BY <1>2 DEF Replaced
<1> HIDE DEF q, w
<1>5. q = w
  BY <1>2, <1>3, <1>4, SeqEqual
<1> QED  BY <1>2, <1>3, <1>5

\* predict says "matched" of ranged patches if and only if patch_graph has a
\* patch to apply; when it says "intentional-noop" or "miss", the graph stays
\* as it is.  (Of flat patches it always says "miss".)
THEOREM PredictionOfPatches ==
    ASSUME NEW g, IsGraph(g), NEW cfg, NEW v, cfg.kind = "ranges"
    PROVE  /\ PredictHit(cfg, v) = "matched" <=> Selected(cfg, v) # {}
           /\ PredictHit(cfg, v) # "matched" => PatchGraph(g, cfg, v) = g
<1>1. Selected(cfg, v) = UNION {r.patches : r \in {s \in cfg.ranges : Covers(s, v)}}
  BY DEF Selected
<1>2. PredictHit(cfg, v) = "matched"
        <=> \E r \in {s \in cfg.ranges : Covers(s, v)} : r.patches # {}
  BY DEF PredictHit
<1>3. Selected(cfg, v) # {} <=> \E r \in {s \in cfg.ranges : Covers(s, v)} : r.patches # {}
  BY <1>1
<1>4. Selected(cfg, v) = {} => PatchGraph(g, cfg, v) = g
  BY NoPatches DEF PatchGraph
<1> QED  BY <1>2, <1>3, <1>4

-----------------------------------------------------------------------------
(* Slots.                                                                  *)

\* A slot keeps its room (lib and what it leaves empty), and a library that
\* has been put into it can be put there again and changes nothing: a second
\* run of swap_native_assets.py over its own output is harmless.
THEOREM SwapAgain ==
    ASSUME NEW slot, slot.pad \in Nat, slot.lib.len \in Nat, slot.lib.size \in 0 .. slot.lib.len,
           NEW repl, repl.len \in Nat, NEW prefixed,
           CanSwap(slot, repl, prefixed)
    PROVE  LET new == Put(slot, repl)
           IN  /\ new.pad \in Nat
               /\ new.pad + new.lib.len = slot.pad + slot.lib.len
               /\ CanSwap(new, repl, prefixed) /\ Put(new, repl) = new
<1> DEFINE p == slot.pad + slot.lib.len - repl.len
<1>1. Put(slot, repl) = [lib |-> repl, pad |-> p]
  BY DEF Put
<1>2. slot.lib = repl \/ repl.len <= slot.lib.size
  BY DEF CanSwap
<1>3. p \in Nat /\ p + repl.len = slot.pad + slot.lib.len
  BY <1>2
<1>4. repl # NoLib
  BY DEF CanSwap
<1>5. CanSwap([lib |-> repl, pad |-> p], repl, prefixed)
  BY <1>4 DEF CanSwap
<1>6. Put([lib |-> repl, pad |-> p], repl) = [lib |-> repl, pad |-> p]
  BY <1>3 DEF Put
<1> QED  BY <1>1, <1>3, <1>5, <1>6

-----------------------------------------------------------------------------
(* Revival.                                                                *)

LEMMA Aligned ==
    ASSUME NEW x \in Nat
    PROVE  /\ AlignUp(x, PAGE_ALIGN) \in Nat /\ x <= AlignUp(x, PAGE_ALIGN)
           /\ AlignUp(x, PAGE_ALIGN) < x + PAGE_ALIGN
           /\ AlignUp(x, PAGE_ALIGN) % PAGE_ALIGN = 0
<1>1. AlignUp(x, PAGE_ALIGN) = ((x + 16384 - 1) \div 16384) * 16384
  BY DEF AlignUp, PAGE_ALIGN
<1>2. PICK k \in Nat : k = (x + 16384 - 1) \div 16384
  <2>1. (x + 16384 - 1) \div 16384 \in Nat
    BY SMT
  <2> QED  BY <2>1
<1>3. x <= k * 16384 /\ k * 16384 < x + 16384
  BY <1>2, SMT
<1>4. (k * 16384) % 16384 = 0
  BY SMT
<1> QED  BY <1>1, <1>2, <1>3, <1>4 DEF PAGE_ALIGN

\* revive_patch.py puts the graph on a page of its own, behind the base and
\* behind all that the loader clears (.bss), and the moved relocations behind
\* the graph; the grown segment covers both and ends with the file; and what
\* is published is where the graph is.
THEOREM GraftIsMapped ==
    ASSUME NEW base, base.len \in Nat, base.load.offset \in Nat,
           base.load.filesz \in Nat, base.load.memsz \in Nat, base.rela.size \in Nat,
           NEW p, p.len \in Nat, NEW mode \in {"plain-offset", "reloc"}
    PROVE  LET r == Revived(base, p, mode)
           IN  /\ r.blob.at % PAGE_ALIGN = 0 /\ r.published = r.blob.at
               /\ base.len <= r.blob.at /\ BssEnd(base) <= r.blob.at
               /\ p.len + 8 <= r.blob.len
               /\ r.blob.at + r.blob.len <= r.len
               /\ mode = "reloc" =>
                    /\ r.blob.at + r.blob.len <= r.rela.off
                    /\ r.rela.off + r.rela.size = r.len
                    /\ r.rela.size = base.rela.size + RELAENT
               /\ r.load.offset + r.load.filesz = r.len
               /\ r.load.filesz <= r.load.memsz /\ base.load.memsz <= r.load.memsz
<1> DEFINE n == NewOff(base)
           l == BlobLen(mode, p)
           o == base.load.offset
           m == base.load.memsz
           r == Revived(base, p, mode)
           behind == n + l
<1>1. MaxOf(base.len, BssEnd(base)) \in Nat /\ base.len <= MaxOf(base.len, BssEnd(base))
      /\ BssEnd(base) <= MaxOf(base.len, BssEnd(base)) /\ BssEnd(base) = o + m
  BY DEF MaxOf, BssEnd
<1>2. /\ n \in Nat /\ MaxOf(base.len, BssEnd(base)) <= n /\ n % PAGE_ALIGN = 0
  BY <1>1, Aligned DEF NewOff
<1>3. l \in Nat /\ p.len + 8 <= l
  <2>1. CASE mode = "reloc"
    BY <2>1 DEF BlobLen, OwnPrefix
  <2>2. CASE mode = "plain-offset"
    BY <2>2 DEF BlobLen, OwnPrefix
  <2> QED  BY <2>1, <2>2
<1>4. o \in Nat /\ m \in Nat /\ o <= n /\ base.len <= n /\ BssEnd(base) <= n
  BY <1>1, <1>2
<1>5. CASE mode = "reloc"
  <2> DEFINE s == base.rela.size + RELAENT
             e == behind + s
  <2>1. s \in Nat /\ behind \in Nat /\ e \in Nat /\ behind <= e
    BY <1>2, <1>3 DEF RELAENT
  <2>2. /\ r.len = e /\ r.published = n /\ r.blob = [at |-> n, len |-> l]
        /\ r.rela = [off |-> behind, size |-> s]
        /\ r.load = [offset |-> o, filesz |-> e - o, memsz |-> MaxOf(m, e - o)]
    BY <1>5 DEF Revived
  <2> HIDE DEF n, l, o, m, r, behind, s, e
  <2>3. e - o <= MaxOf(m, e - o) /\ m <= MaxOf(m, e - o) /\ o + (e - o) = e
    BY <1>4, <2>1 DEF MaxOf
  <2>4. behind + s = e /\ n + l = behind
    BY DEF e, behind
  <2>5. /\ r.blob.at = n /\ r.blob.len = l /\ r.rela.off = behind /\ r.rela.size = s
        /\ r.load.offset = o /\ r.load.filesz = e - o /\ r.load.memsz = MaxOf(m, e - o)
    BY <2>2
  <2>6. s = base.rela.size + RELAENT /\ m = base.load.memsz
    BY DEF s, m
  <2>7. behind <= behind
    BY <2>1
  <2> QED  BY <1>2, <1>3, <1>4, <2>1, <2>2, <2>3, <2>4, <2>5, <2>6, <2>7 DEF r
<1>6. CASE mode = "plain-offset"
  <2>1. behind \in Nat
    BY <1>2, <1>3
  <2>2. /\ r.len = behind /\ r.published = n /\ r.blob = [at |-> n, len |-> l]
        /\ r.load = [offset |-> o, filesz |-> behind - o, memsz |-> MaxOf(m, behind - o)]
    BY <1>6 DEF Revived
  <2> HIDE DEF n, l, o, m, r, behind
  <2>3. behind - o <= MaxOf(m, behind - o) /\ m <= MaxOf(m, behind - o)
        /\ o + (behind - o) = behind
    BY <1>4, <2>1 DEF MaxOf
  <2>4. n + l = behind /\ behind <= behind
    BY <2>1 DEF behind
  <2>5. /\ r.blob.at = n /\ r.blob.len = l
        /\ r.load.offset = o /\ r.load.filesz = behind - o
        /\ r.load.memsz = MaxOf(m, behind - o)
    BY <2>2
  <2>6. m = base.load.memsz /\ mode # "reloc"
    BY <1>6 DEF m
  <2> QED  BY <1>2, <1>3, <1>4, <2>1, <2>2, <2>3, <2>4, <2>5, <2>6 DEF r
<1> QED  BY <1>5, <1>6

-----------------------------------------------------------------------------
(* Hardening.                                                              *)

\* Entry i is the first one with the tag.
IsFirst(d, tag, i) ==
    i \in DOMAIN d /\ d[i].tag = tag /\ \A j \in DOMAIN d : d[j].tag = tag => i <= j

LEMMA FirstIsFirst ==
    ASSUME NEW n \in Nat, NEW d, DOMAIN d = 1 .. n, NEW tag, NEW i, IsFirst(d, tag, i)
    PROVE  FirstOf(d, tag) = i
<1>1. \A k \in DOMAIN d :
        (d[k].tag = tag /\ \A j \in DOMAIN d : d[j].tag = tag => k <= j) => k = i
  BY DEF IsFirst
<1>2. i \in DOMAIN d /\ d[i].tag = tag /\ \A j \in DOMAIN d : d[j].tag = tag => i <= j
  BY DEF IsFirst
<1> QED  BY <1>1, <1>2 DEF FirstOf

Needed(d) == {d[i].name : i \in {k \in DOMAIN d : d[k].tag = "NEEDED"}}

\* crhandler_patch.py adds the shim to what the loader needs and drops nothing:
\* libc moves to the slot of DT_DEBUG.  Three entries are written, and a second
\* run finds the shim and leaves the file alone.  The shim is what the loader
\* looks into first, provided that DT_DEBUG stands behind the first DT_NEEDED,
\* which the code does not check.
THEOREM HardenAddsTheShim ==
    ASSUME NEW n \in Nat, NEW d, DOMAIN d = 1 .. n,
           NEW a, IsFirst(d, "NEEDED", a), NEW b, IsFirst(d, "DEBUG", b),
           NEW c, IsFirst(d, "HASH", c),
           NEW text, NEW room, CanHarden(d, text, room)
    PROVE  LET h == Harden(d)
           IN  /\ DOMAIN h = 1 .. n /\ Needed(h) = Needed(d) \cup {SHIM}
               /\ \A i \in (1 .. n) \ {a, b, c} : h[i] = d[i]
               /\ ~CanHarden(h, text, room)
               /\ a < b => IsFirst(h, "NEEDED", a) /\ h[a].name = SHIM
<1> DEFINE h == Harden(d)
<1>1. FirstOf(d, "NEEDED") = a /\ FirstOf(d, "DEBUG") = b /\ FirstOf(d, "HASH") = c
  BY FirstIsFirst
<1>2. /\ a \in 1 .. n /\ b \in 1 .. n /\ c \in 1 .. n
      /\ d[a].tag = "NEEDED" /\ d[b].tag = "DEBUG" /\ d[c].tag = "HASH"
      /\ \A j \in 1 .. n : d[j].tag = "NEEDED" => a <= j
  BY DEF IsFirst
<1>3. a # b /\ a # c /\ b # c
  BY <1>2
<1>4. d[a].name = LIBC
  BY <1>1 DEF CanHarden
<1>5. /\ DOMAIN h = 1 .. n
      /\ h[a] = [tag |-> "NEEDED", name |-> SHIM]
      /\ h[b] = [tag |-> "NEEDED", name |-> LIBC]
      /\ h[c] = [tag |-> "RUNPATH", name |-> "runpath"]
      /\ \A i \in (1 .. n) \ {a, b, c} : h[i] = d[i]
  BY <1>1, <1>2, <1>3 DEF Harden
<1> HIDE DEF h
<1>6. Needed(h) \subseteq Needed(d) \cup {SHIM}
  <2> SUFFICES ASSUME NEW i \in 1 .. n, h[i].tag = "NEEDED"
               PROVE  h[i].name \in Needed(d) \cup {SHIM}
    BY <1>5 DEF Needed
  <2>1. LIBC \in Needed(d)
    BY <1>2, <1>4 DEF Needed
  <2>2. CASE i = a
    BY <2>2, <1>5
  <2>3. CASE i = b
    BY <2>1, <2>3, <1>5
  <2>4. CASE i = c
    BY <2>4, <1>5
  <2>5. CASE i \notin {a, b, c}
    <3>1. h[i] = d[i]
      BY <2>5, <1>5
    <3>2. d[i].name \in Needed(d)
      BY <3>1 DEF Needed
    <3> QED  BY <3>1, <3>2
  <2> QED  BY <2>2, <2>3, <2>4, <2>5
<1>7. SHIM \in Needed(h) /\ LIBC \in Needed(h)
  <2>1. h[a].tag = "NEEDED" /\ h[a].name = SHIM /\ h[b].tag = "NEEDED" /\ h[b].name = LIBC
    BY <1>5
  <2> QED  BY <2>1, <1>2, <1>5 DEF Needed
<1>8. Needed(d) \subseteq Needed(h)
  <2> SUFFICES ASSUME NEW i \in 1 .. n, d[i].tag = "NEEDED"  PROVE d[i].name \in Needed(h)
    BY DEF Needed
  <2>1. CASE i = a
    BY <2>1, <1>4, <1>7
  <2>2. CASE i # a
    <3>1. i \notin {a, b, c}
      BY <2>2, <1>2
    <3>2. h[i] = d[i]
      BY <3>1, <1>5
    <3> QED  BY <3>2, <1>5 DEF Needed
  <2> QED  BY <2>1, <2>2
<1>9. ~CanHarden(h, text, room)
  <2>1. a \in DOMAIN h /\ h[a].name = SHIM
    BY <1>2, <1>5
  <2> QED  BY <2>1 DEF CanHarden, Hardened
<1>10. ASSUME a < b  PROVE IsFirst(h, "NEEDED", a) /\ h[a].name = SHIM
  <2>1. ASSUME NEW j \in 1 .. n, h[j].tag = "NEEDED"  PROVE a <= j
    <3>1. CASE j \in {a, b}
      BY <3>1, <1>2, <1>10
    <3>2. CASE j = c
      BY <2>1, <3>2, <1>5
    <3>3. CASE j \notin {a, b, c}
      BY <2>1, <3>3, <1>2, <1>5
    <3> QED  BY <3>1, <3>2, <3>3
  <2>2. a \in DOMAIN h /\ h[a].tag = "NEEDED" /\ h[a].name = SHIM
    BY <1>2, <1>5
  <2> QED  BY <2>1, <2>2, <1>5 DEF IsFirst
<1> QED  BY <1>5, <1>6, <1>7, <1>8, <1>9, <1>10 DEF h
=============================================================================
