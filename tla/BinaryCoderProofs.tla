-------------------------- MODULE BinaryCoderProofs --------------------------
(***************************************************************************)
(* Proofs about BinaryCoder for all integers and lengths, buffers of any   *)
(* capacity that 16 bits can tell and messages of any number of fields:    *)
(* what is packed is read back, and what is not is empty.                  *)
(*                                                                         *)
(* The argument: the buffer holds the fields that fitted, each where the   *)
(* one before it ends (Shape), and the walk of the reader comes from each  *)
(* to the next as long as positions have 8 bits.                           *)
(***************************************************************************)
EXTENDS BinaryCoder, SequenceTheorems, WellFoundedInduction, NaturalsInduction, TLAPS

\* A set of naturals that is not empty has a least element: induction as a search for
\* the least counterexample.
LEMMA LeastNatural ==
  ASSUME NEW S \in SUBSET Nat, S # {}
  PROVE  \E m \in S : \A k \in S : m <= k
<1> DEFINE R == OpToRel(<, Nat)
<1>1. IsWellFoundedOn(R, Nat)
  BY NatLessThanWellFounded
<1>2. \A x, y \in Nat : <<y, x>> \in R <=> y < x
  BY DEF OpToRel
<1> HIDE DEF R
<1>3. PICK m \in S : \A k \in S : <<k, m>> \notin R
  BY <1>1, WFMin
<1>4. \A k \in S : ~(k < m)
  BY <1>2, <1>3
<1>5. m \in Nat /\ \A k \in S : k \in Nat
  OBVIOUS
<1> QED
  BY <1>4, <1>5
-----------------------------------------------------------------------------
(* The reader's walk, one field after the other. *)

Walks(b, n, f) == f = [k \in 0 .. n |-> IF k = 0 THEN 2 ELSE Move(b, f[k - 1])]

\* There is such a walk of each length, so the recursive function exists.
LEMMA WalksExist ==
  ASSUME NEW b, NEW n \in Nat
  PROVE  \E f : Walks(b, n, f)
<1> DEFINE Bad == {m \in Nat : ~\E f : Walks(b, m, f)}
<1>1. SUFFICES ASSUME Bad # {} PROVE FALSE
  OBVIOUS
<1>2. PICK m \in Bad : \A k \in Bad : m <= k
  BY <1>1, LeastNatural
<1>3. CASE m = 0
  <2> DEFINE f == [k \in 0 .. 0 |-> 2]
  <2>1. Walks(b, 0, f)
    BY DEF Walks
  <2> QED
    BY <1>3, <2>1
<1>4. CASE m # 0
  <2>1. m - 1 \in Nat /\ m - 1 \notin Bad
    BY <1>2, <1>4
  <2>2. PICK f : Walks(b, m - 1, f)
    BY <2>1
  <2> DEFINE g == [k \in 0 .. m |-> IF k = m THEN Move(b, f[m - 1]) ELSE f[k]]
  <2>3. ASSUME NEW k \in 0 .. m
        PROVE  g[k] = IF k = 0 THEN 2 ELSE Move(b, g[k - 1])
    <3>1. k = m => g[k - 1] = f[m - 1]
      BY <1>4, <2>1
    <3>2. k # m => k \in 0 .. (m - 1) /\ g[k] = f[k] /\ (k # 0 => g[k - 1] = f[k - 1])
      BY <1>4, <2>1
    <3> HIDE DEF g
    <3>3. CASE k = m
      BY <1>4, <3>1, <3>3 DEF g
    <3>4. CASE k # m
      BY <2>2, <3>2, <3>4 DEF Walks
    <3> QED
      BY <3>3, <3>4
  <2>4. g = [k \in 0 .. m |-> g[k]]
    OBVIOUS
  <2> HIDE DEF g
  <2>5. Walks(b, m, g)
    BY <2>3, <2>4 DEF Walks
  <2> QED
    BY <1>2, <2>5
<1> QED
  BY <1>3, <1>4

LEMMA PositionWalks ==
  ASSUME NEW b, NEW n \in Nat
  PROVE  \E f : Walks(b, n, f) /\ Position(b, n) = f[n]
<1> DEFINE f == CHOOSE h : Walks(b, n, h)
<1>1. Walks(b, n, f)
  BY WalksExist
<1>2. Position(b, n) = f[n]
  BY DEF Position, Walks
<1> HIDE DEF f
<1> QED
  BY <1>1, <1>2

\* Two walks over a buffer are the same as far as both go.
LEMMA WalksAgree ==
  ASSUME NEW b, NEW n \in Nat, NEW f, NEW g, Walks(b, n, f), Walks(b, n + 1, g)
  PROVE  f[n] = g[n]
<1> DEFINE Bad == {k \in 0 .. n : f[k] # g[k]}
<1>1. SUFFICES ASSUME Bad # {} PROVE FALSE
  OBVIOUS
<1>2. PICK k \in Bad : \A h \in Bad : k <= h
  <2>1. Bad \in SUBSET Nat
    OBVIOUS
  <2> QED
    BY <1>1, <2>1, LeastNatural
<1>3. k \in 0 .. n /\ k \in 0 .. (n + 1) /\ f[k] # g[k]
  OBVIOUS
<1>4. CASE k = 0
  BY <1>3, <1>4 DEF Walks
<1>5. CASE k # 0
  <2>1. k - 1 \in 0 .. n
    BY <1>3, <1>5
  <2>2. f[k - 1] = g[k - 1]
    BY <1>2, <2>1
  <2>3. f[k] = Move(b, f[k - 1]) /\ g[k] = Move(b, g[k - 1])
    BY <1>3, <1>5 DEF Walks
  <2> QED
    BY <1>3, <2>2, <2>3
<1> QED
  BY <1>4, <1>5

\* The walk begins behind the header of the message, and moves on for each field.
LEMMA PositionNext ==
  ASSUME NEW b
  PROVE  /\ Position(b, 0) = 2
         /\ \A n \in Nat : Position(b, n + 1) = Move(b, Position(b, n))
<1>1. Position(b, 0) = 2
  <2>1. PICK f : Walks(b, 0, f) /\ Position(b, 0) = f[0]
    BY PositionWalks
  <2> QED
    BY <2>1 DEF Walks
<1>2. ASSUME NEW n \in Nat
      PROVE  Position(b, n + 1) = Move(b, Position(b, n))
  <2>1. PICK f : Walks(b, n, f) /\ Position(b, n) = f[n]
    BY PositionWalks
  <2>2. PICK g : Walks(b, n + 1, g) /\ Position(b, n + 1) = g[n + 1]
    BY PositionWalks
  <2>3. g[n + 1] = Move(b, g[n])
    BY <2>2 DEF Walks
  <2> QED
    BY <2>1, <2>2, <2>3, WalksAgree
<1> QED
  BY <1>1, <1>2
-----------------------------------------------------------------------------
(* The message as the reference builds it, one field after the other. *)

Builds(fs, cap, n, f) == f = [k \in 0 .. n |-> IF k = 0 THEN NoFields ELSE With(f[k - 1], fs[k], k, cap)]

\* There is such a function for each length, so the recursive one exists.
LEMMA BuildsExist ==
  ASSUME NEW fs, NEW cap, NEW n \in Nat
  PROVE  \E f : Builds(fs, cap, n, f)
<1> DEFINE Bad == {m \in Nat : ~\E f : Builds(fs, cap, m, f)}
<1>1. SUFFICES ASSUME Bad # {} PROVE FALSE
  OBVIOUS
<1>2. PICK m \in Bad : \A k \in Bad : m <= k
  BY <1>1, LeastNatural
<1>3. CASE m = 0
  <2> DEFINE f == [k \in 0 .. 0 |-> NoFields]
  <2>1. Builds(fs, cap, 0, f)
    BY DEF Builds
  <2> QED
    BY <1>3, <2>1
<1>4. CASE m # 0
  <2>1. m - 1 \in Nat /\ m - 1 \notin Bad
    BY <1>2, <1>4
  <2>2. PICK f : Builds(fs, cap, m - 1, f)
    BY <2>1
  <2> DEFINE g == [k \in 0 .. m |-> IF k = m THEN With(f[m - 1], fs[m], m, cap) ELSE f[k]]
  <2>3. ASSUME NEW k \in 0 .. m
        PROVE  g[k] = IF k = 0 THEN NoFields ELSE With(g[k - 1], fs[k], k, cap)
    <3>1. k = m => g[k - 1] = f[m - 1]
      BY <1>4, <2>1
    <3>2. k # m => k \in 0 .. (m - 1) /\ g[k] = f[k] /\ (k # 0 => g[k - 1] = f[k - 1])
      BY <1>4, <2>1
    <3> HIDE DEF g
    <3>3. CASE k = m
      BY <1>4, <3>1, <3>3 DEF g
    <3>4. CASE k # m
      BY <2>2, <3>2, <3>4 DEF Builds
    <3> QED
      BY <3>3, <3>4
  <2>4. g = [k \in 0 .. m |-> g[k]]
    OBVIOUS
  <2> HIDE DEF g
  <2>5. Builds(fs, cap, m, g)
    BY <2>3, <2>4 DEF Builds
  <2> QED
    BY <1>2, <2>5
<1> QED
  BY <1>3, <1>4

LEMMA AcceptedBuilds ==
  ASSUME NEW fs, NEW cap, Len(fs) \in Nat
  PROVE  \E f : Builds(fs, cap, Len(fs), f) /\ Accepted(fs, cap) = f[Len(fs)]
<1> DEFINE f == CHOOSE h : Builds(fs, cap, Len(fs), h)
<1>1. Builds(fs, cap, Len(fs), f)
  BY BuildsExist
<1>2. Accepted(fs, cap) = f[Len(fs)]
  BY DEF Accepted, Builds
<1> HIDE DEF f
<1> QED
  BY <1>1, <1>2

\* What is built of two sequences is the same as far as they agree.
LEMMA BuildsAgree ==
  ASSUME NEW fs, NEW gs, NEW cap, NEW n \in Nat, NEW f, NEW g, Builds(fs, cap, n, f),
         Builds(gs, cap, n + 1, g), \A k \in 1 .. n : fs[k] = gs[k]
  PROVE  f[n] = g[n]
<1> DEFINE Bad == {k \in 0 .. n : f[k] # g[k]}
<1>1. SUFFICES ASSUME Bad # {} PROVE FALSE
  OBVIOUS
<1>2. PICK k \in Bad : \A h \in Bad : k <= h
  <2>1. Bad \in SUBSET Nat
    OBVIOUS
  <2> QED
    BY <1>1, <2>1, LeastNatural
<1>3. k \in 0 .. n /\ k \in 0 .. (n + 1) /\ f[k] # g[k]
  OBVIOUS
<1>4. CASE k = 0
  BY <1>3, <1>4 DEF Builds
<1>5. CASE k # 0
  <2>1. k - 1 \in 0 .. n /\ k \in 1 .. n
    BY <1>3, <1>5
  <2>2. f[k - 1] = g[k - 1]
    BY <1>2, <2>1
  <2>3. f[k] = With(f[k - 1], fs[k], k, cap) /\ g[k] = With(g[k - 1], gs[k], k, cap)
    BY <1>3, <1>5 DEF Builds
  <2>4. fs[k] = gs[k]
    BY <2>1
  <2> QED
    BY <1>3, <2>2, <2>3, <2>4
<1> QED
  BY <1>4, <1>5

\* No fields make an empty message; one more is packed behind the others, or refused.
LEMMA AcceptedNext ==
  ASSUME NEW cap
  PROVE  /\ Accepted(<<>>, cap) = NoFields
         /\ \A fs \in Seq(Fields), f \in Fields :
              Accepted(Append(fs, f), cap) = With(Accepted(fs, cap), f, Len(fs) + 1, cap)
<1>1. Accepted(<<>>, cap) = NoFields
  <2>1. PICK f : Builds(<<>>, cap, Len(<<>>), f) /\ Accepted(<<>>, cap) = f[Len(<<>>)]
    BY AcceptedBuilds
  <2> QED
    BY <2>1 DEF Builds
<1>2. ASSUME NEW fs \in Seq(Fields), NEW f \in Fields
      PROVE  Accepted(Append(fs, f), cap) = With(Accepted(fs, cap), f, Len(fs) + 1, cap)
  <2> DEFINE gs == Append(fs, f)
             n == Len(fs)
  <2>1. n \in Nat /\ Len(gs) = n + 1 /\ gs[n + 1] = f /\ \A k \in 1 .. n : fs[k] = gs[k]
    OBVIOUS
  <2> HIDE DEF gs, n
  <2>2. PICK a : Builds(fs, cap, n, a) /\ Accepted(fs, cap) = a[n]
    BY <2>1, AcceptedBuilds DEF n
  <2>3. PICK b : Builds(gs, cap, n + 1, b) /\ Accepted(gs, cap) = b[n + 1]
    BY <2>1, AcceptedBuilds
  <2>4. b[n + 1] = With(b[n], gs[n + 1], n + 1, cap)
    BY <2>1, <2>3 DEF Builds
  <2>5. a[n] = b[n]
    BY <2>1, <2>2, <2>3, BuildsAgree
  <2> QED
    BY <2>1, <2>2, <2>3, <2>4, <2>5 DEF gs, n
<1> QED
  BY <1>1, <1>2
-----------------------------------------------------------------------------
\* What is packed is a sequence of fields.
FieldsTyped == fields \in Seq(Fields)

\* High and Low take the lower 16 bits of an integer apart.
LEMMA LowerHalf == \A n \in Int : High(n) * 256 + Low(n) = n % 65536
  BY SMT DEF High, Low

LEMMA TwoBytes == \A n \in Nat : n < 65536 => High(n) * 256 + Low(n) = n
  BY SMT DEF High, Low

\* Four bytes make up an int that is not negative.
LEMMA FourBytes ==
  \A n \in Nat : n <= 2147483647 =>
     (((((n \div 16777216) % 256) * 256) + ((n \div 65536) % 256)) * 256 + High(n)) * 256 + Low(n) = n
  BY SMT DEF High, Low

\* The bytes of an integer make up what a reader gets of it.
LEMMA IntOfBytes == ASSUME NEW v \in Ints PROVE IntOf(IntBytes(v)) = Heard(v)
  <1>1. v \in Int /\ v <= 2147483647
    BY IntsAssumption, SMT
  <1>2. CASE v < 65535
    <2>1. IntBytes(v) = <<High(v), Low(v)>>
      BY <1>1, <1>2, SMT DEF IntBytes
    <2>2. High(v) * 256 + Low(v) = Heard(v)
      <3>1. CASE v >= 0
        BY <1>1, <1>2, <3>1, TwoBytes, SMT DEF Heard
      <3>2. CASE v < 0
        BY <1>1, <3>2, LowerHalf, SMT DEF Heard
      <3> QED
        BY <1>1, <3>1, <3>2, SMT
    <2> QED
      BY <2>1, <2>2, SMT DEF IntOf, TwoOf
  <1>3. CASE v >= 65535
    <2>1. IntBytes(v) = <<(v \div 16777216) % 256, (v \div 65536) % 256, High(v), Low(v)>>
      BY <1>1, <1>3, SMT DEF IntBytes
    <2>2. (((((v \div 16777216) % 256) * 256) + ((v \div 65536) % 256)) * 256 + High(v)) * 256 + Low(v) = v
      BY <1>1, <1>3, FourBytes, SMT
    <2>3. Heard(v) = v
      BY <1>1, <1>3, SMT DEF Heard
    <2> QED
      BY <2>1, <2>2, <2>3, SMT DEF IntOf, TwoOf
  <1> QED
    BY <1>1, <1>2, <1>3, SMT

\* Only fields are packed.
LEMMA OnlyFields == CoderSpec => []FieldsTyped
  <1>1. CoderInit => FieldsTyped
    BY SMT DEF CoderInit, FieldsTyped
  <1>2. FieldsTyped /\ [Coding]_coderVars => FieldsTyped'
    <2> SUFFICES ASSUME FieldsTyped, [Coding]_coderVars PROVE FieldsTyped'
      OBVIOUS
    <2>1. CASE ResetBuffer
      BY <2>1, SMT DEF ResetBuffer, FieldsTyped
    <2>2. ASSUME NEW f \in Fields, PackField(f) PROVE FieldsTyped'
      BY <2>2, SMT DEF PackField, FieldsTyped
    <2>3. CASE PackInt
      BY <2>2, <2>3, Zenon DEF PackInt, Fields
    <2>4. CASE PackString
      BY <2>2, <2>4, Zenon DEF PackString, Fields
    <2>5. CASE UNCHANGED coderVars
      BY <2>5 DEF coderVars, FieldsTyped
    <2> QED
      BY <2>1, <2>3, <2>4, <2>5 DEF Coding
  <1> QED
    BY <1>1, <1>2, PTL DEF CoderSpec

-----------------------------------------------------------------------------
(* What a message looks like. *)

\* What 16 bits can tell of the length of a message.
Words == {n \in Nat : n >= 2 /\ n <= 65535}

\* The bytes of the k-th field of message m, and where it ends.
BytesOf(m, fs, k) == Bytes(fs[m.index[k]], m.index[k])
EndOf(m, fs, k) == m.at[k] + HeaderLen + Len(BytesOf(m, fs, k))

\* There is a field with bytes x at pos.
Holds(b, pos, type, x) ==
  /\ b[pos + 1] = type /\ FieldLen(b, pos) = Len(x)
  /\ \A j \in 1 .. Len(x) : b[pos + HeaderLen + j] = x[j]

\* The message m of the fields fs, in a sender's buffer b of some capacity: each field
\* begins where the one before it ends, the last one at the end of the message.
Message == [index : Seq(Nat), at : Seq(Nat), size : Nat]
Shape(b, m, fs, cap) ==
  /\ m \in Message /\ m.size \in 2 .. cap /\ Len(m.at) = Len(m.index)
  /\ b \in Seq(Nat) /\ Len(b) = m.size /\ Claimed(b) = m.size
  /\ IF Len(m.index) = 0 THEN m.size = 2 ELSE m.at[1] = 2 /\ m.size = EndOf(m, fs, Len(m.index))
  /\ \A k \in 1 .. Len(m.index) :
       /\ m.index[k] \in 1 .. Len(fs) /\ m.at[k] >= 2 /\ EndOf(m, fs, k) <= m.size
       /\ Holds(b, m.at[k], fs[m.index[k]].type, BytesOf(m, fs, k))
       /\ k # Len(m.index) => m.at[k + 1] = EndOf(m, fs, k)

\* What a concatenation consists of.
LEMMA ConcatIs ==
  ASSUME NEW a \in Seq(Nat), NEW x \in Seq(Nat)
  PROVE  /\ a \o x \in Seq(Nat) /\ Len(a \o x) = Len(a) + Len(x)
         /\ \A i \in 1 .. Len(a) : (a \o x)[i] = a[i]
         /\ \A j \in 1 .. Len(x) : (a \o x)[Len(a) + j] = x[j]
<1>1. a \o x \in Seq(Nat) /\ Len(a \o x) = Len(a) + Len(x) /\ \A i \in 1 .. Len(a) : (a \o x)[i] = a[i]
  OBVIOUS
<1>2. ASSUME NEW j \in 1 .. Len(x) PROVE (a \o x)[Len(a) + j] = x[j]
  OBVIOUS
<1> QED
  BY <1>1, <1>2

LEMMA BytesType ==
  ASSUME NEW f \in Fields, NEW n \in Nat
  PROVE  Bytes(f, n) \in Seq(Nat) /\ f.type \in Nat
<1>1. CASE f.type = INTEGER_TYPE
  <2>1. f.val \in Int
    BY <1>1, IntsAssumption, SMT DEF Fields, INTEGER_TYPE, STRING_TYPE
  <2> DEFINE v == f.val
  <2>2. v \div 16777216 \in Int /\ v \div 65536 \in Int /\ v \div 256 \in Int
    BY <2>1, SMT
  <2>3. (v \div 16777216) % 256 \in Nat /\ (v \div 65536) % 256 \in Nat /\ High(v) \in Nat /\ Low(v) \in Nat
    BY <2>1, <2>2, SMT DEF High, Low
  <2>4. IntBytes(v) \in Seq(Nat)
    BY <2>3, SMT DEF IntBytes
  <2> QED
    BY <1>1, <2>4 DEF Bytes, INTEGER_TYPE
<1>2. CASE f.type # INTEGER_TYPE
  <2>0. Lengths \subseteq Nat
    BY BuffersAssumption, SMT
  <2>1. f.type = STRING_TYPE /\ f.val \in Nat
    BY <1>2, <2>0 DEF Fields
  <2>2. Bytes(f, n) = [j \in 1 .. f.val |-> Letter(n)]
    BY <1>2 DEF Bytes
  <2>3. Letter(n) \in Nat
    BY DEF Letter
  <2> QED
    BY <2>1, <2>2, <2>3 DEF STRING_TYPE
<1> QED
  BY <1>1, <1>2

\* The header of a sealed buffer claims its length; the rest is left as it was.
LEMMA SealedIs ==
  ASSUME NEW b \in Seq(Nat), Len(b) \in Words
  PROVE  LET c == Sealed(b) IN
         /\ c \in Seq(Nat) /\ Len(c) = Len(b) /\ Claimed(c) = Len(b)
         /\ \A i \in 3 .. Len(b) : c[i] = b[i]
<1> DEFINE n == Len(b)
<1>1. n \in Nat /\ n < 65536 /\ n >= 2
  BY SMT DEF Words
<1>2. High(n) \in Nat /\ Low(n) \in Nat
  BY <1>1 DEF High, Low
<1>3. High(n) * 256 + Low(n) = n
  BY <1>1, TwoBytes, SMT
<1> DEFINE c == Sealed(b)
<1>4. c = [[b EXCEPT ![1] = High(n)] EXCEPT ![2] = Low(n)]
  BY DEF Sealed
<1>5. c \in Seq(Nat) /\ Len(c) = n /\ c[1] = High(n) /\ c[2] = Low(n) /\ \A i \in 3 .. n : c[i] = b[i]
  BY <1>1, <1>2, <1>4
<1>6. Claimed(c) = n
  BY <1>3, <1>5 DEF Claimed
<1> QED
  BY <1>5, <1>6

\* A field that fits is packed behind the message.
LEMMA PackIs ==
  ASSUME NEW b \in Seq(Nat), NEW x \in Seq(Nat), NEW type \in Nat, NEW cap \in Words,
         Len(b) >= 2, Fits(b, x, cap)
  PROVE  LET c == Pack(b, x, type, cap) IN
         /\ c \in Seq(Nat) /\ Len(c) = Len(b) + HeaderLen + Len(x) /\ Claimed(c) = Len(c)
         /\ \A i \in 3 .. Len(b) : c[i] = b[i]
         /\ Holds(c, Len(b), type, x)
<1> DEFINE h == <<type, High(Len(x)), Low(Len(x))>>
           a == b \o h
           d == a \o x
           c == Sealed(d)
           l == Len(b)
           n == Len(x)
<1>1. n \in Nat /\ l \in Nat /\ l >= 2 /\ n + l + 3 <= cap /\ n < 65536 /\ cap \in Nat
  BY SMT DEF Fits, HeaderLen, Words
<1>2. High(n) \in Nat /\ Low(n) \in Nat
  BY <1>1 DEF High, Low
<1>3. h \in Seq(Nat) /\ Len(h) = 3 /\ h[1] = type /\ h[2] = High(n) /\ h[3] = Low(n)
  BY <1>2
<1>4. Pack(b, x, type, cap) = c
  BY DEF Pack
<1> HIDE DEF h
<1>5. /\ a \in Seq(Nat) /\ Len(a) = l + 3 /\ \A i \in 1 .. l : a[i] = b[i]
      /\ \A i \in 1 .. 3 : a[l + i] = h[i]
  <2>1. /\ a \in Seq(Nat) /\ Len(a) = Len(b) + Len(h)
        /\ \A i \in 1 .. Len(b) : a[i] = b[i]
        /\ \A i \in 1 .. Len(h) : a[Len(b) + i] = h[i]
    BY <1>3, ConcatIs
  <2> HIDE DEF a
  <2> QED
    BY <1>3, <2>1
<1> HIDE DEF a
<1>6. /\ d \in Seq(Nat) /\ Len(d) = l + 3 + n /\ \A i \in 1 .. (l + 3) : d[i] = a[i]
      /\ \A i \in 1 .. n : d[l + 3 + i] = x[i]
  <2>1. /\ d \in Seq(Nat) /\ Len(d) = Len(a) + Len(x)
        /\ \A i \in 1 .. Len(a) : d[i] = a[i]
        /\ \A i \in 1 .. Len(x) : d[Len(a) + i] = x[i]
    BY <1>5, ConcatIs
  <2> HIDE DEF d
  <2> QED
    BY <1>5, <2>1
<1> HIDE DEF d, l, n
<1>7. Len(d) \in Words
  BY <1>1, <1>6, SMT DEF Words
<1>8. c \in Seq(Nat) /\ Len(c) = Len(d) /\ Claimed(c) = Len(d) /\ \A i \in 3 .. Len(d) : c[i] = d[i]
  BY <1>6, <1>7, SealedIs
<1> HIDE DEF c
<1>9. \A i \in 3 .. l : c[i] = b[i]
  <2>1. \A i \in 3 .. l : i \in 3 .. Len(d) /\ i \in 1 .. (l + 3) /\ i \in 1 .. l
    BY <1>1, <1>6
  <2> QED
    BY <1>5, <1>6, <1>8, <2>1
<1>10. \A i \in 1 .. 3 : c[l + i] = h[i]
  <2>1. \A i \in 1 .. 3 : l + i \in 3 .. Len(d) /\ l + i \in 1 .. (l + 3)
    BY <1>1, <1>6
  <2> QED
    BY <1>5, <1>6, <1>8, <2>1
<1>11. \A j \in 1 .. n : c[l + 3 + j] = x[j]
  <2>1. \A j \in 1 .. n : l + 3 + j \in 3 .. Len(d)
    BY <1>1, <1>6
  <2> QED
    BY <1>6, <1>8, <2>1
<1>12. c[l + 1] = type /\ c[l + 2] = High(n) /\ c[l + 3] = Low(n)
  BY <1>3, <1>10
<1>13. FieldLen(c, l) = n
  BY <1>1, <1>12, TwoBytes, SMT DEF FieldLen
<1>14. Holds(c, Len(b), type, x)
  BY <1>11, <1>12, <1>13 DEF Holds, HeaderLen, l, n
<1>15. Len(c) = Len(b) + HeaderLen + Len(x)
  BY <1>6, <1>8 DEF HeaderLen, l, n
<1> QED
  BY <1>4, <1>8, <1>9, <1>14, <1>15 DEF l

LEMMA CapIs == \A cap \in Words : cap \in Nat /\ cap >= 2 /\ 2 \in 2 .. cap
BY SMT DEF Words

\* Packing one more field, which fits or not, keeps the shape.
LEMMA PackShape ==
  ASSUME NEW b, NEW m, NEW fs \in Seq(Fields), NEW cap \in Words, NEW f \in Fields,
         Shape(b, m, fs, cap)
  PROVE  LET n == Len(fs) + 1 IN
         Shape(Pack(b, Bytes(f, n), f.type, cap), With(m, f, n, cap), Append(fs, f), cap)
<1> DEFINE n == Len(fs) + 1
           x == Bytes(f, n)
           gs == Append(fs, f)
           c == Pack(b, x, f.type, cap)
           l == Len(m.index)
           p == With(m, f, n, cap)
<1>1. n \in Nat /\ Len(gs) = n /\ gs[n] = f /\ \A i \in 1 .. Len(fs) : gs[i] = fs[i]
  OBVIOUS
<1>2. x \in Seq(Nat) /\ Len(x) \in Nat /\ f.type \in Nat
  BY <1>1, BytesType
<1>3. /\ m \in Message /\ m.size \in 2 .. cap /\ Len(m.at) = l /\ l \in Nat
      /\ b \in Seq(Nat) /\ Len(b) = m.size /\ Claimed(b) = m.size
      /\ \A k \in 1 .. l : m.index[k] \in 1 .. Len(fs) /\ m.at[k] \in Nat
  BY DEF Shape, Message
<1>4. \A k \in 1 .. l : BytesOf(m, gs, k) = BytesOf(m, fs, k) /\ EndOf(m, gs, k) = EndOf(m, fs, k)
                          /\ gs[m.index[k]] = fs[m.index[k]]
  BY <1>1, <1>3 DEF BytesOf, EndOf
<1> HIDE DEF n, x, gs
<1>5. CASE ~Fits(b, x, cap)
  <2>0. m.size + HeaderLen + Len(x) > cap
    BY <1>2, <1>3, <1>5, CapIs DEF Fits, HeaderLen
  <2>1. c = b /\ p = m
    BY <1>5, <2>0 DEF Pack, With, x
  <2>2. \A i : i \in 1 .. Len(fs) => i \in 1 .. Len(gs)
    BY <1>1 DEF n
  <2>3. l # 0 => l \in 1 .. l
    BY <1>3
  <2>4. IF l = 0 THEN m.size = 2 ELSE m.at[1] = 2 /\ m.size = EndOf(m, gs, l)
    BY <1>4, <2>3 DEF Shape
  <2>5. ASSUME NEW k \in 1 .. l
        PROVE  /\ m.index[k] \in 1 .. Len(gs) /\ m.at[k] >= 2 /\ EndOf(m, gs, k) <= m.size
               /\ Holds(b, m.at[k], gs[m.index[k]].type, BytesOf(m, gs, k))
               /\ k # l => m.at[k + 1] = EndOf(m, gs, k)
    BY <1>3, <1>4, <2>2 DEF Shape
  <2>6. Shape(b, m, gs, cap)
    BY <1>3, <2>4, <2>5 DEF Shape
  <2> QED
    BY <2>1, <2>6 DEF n, x, gs
<1>6. CASE Fits(b, x, cap)
  <2> DEFINE size == m.size + HeaderLen + Len(x)
  <2>0. ~(size > cap) /\ size \in 2 .. cap
    BY <1>2, <1>3, <1>6, CapIs DEF Fits, HeaderLen
  <2>1. p = [index |-> Append(m.index, n), at |-> Append(m.at, m.size), size |-> size]
    BY <2>0 DEF With, x
  <2>2. /\ c \in Seq(Nat) /\ Len(c) = size /\ Claimed(c) = size
        /\ \A i \in 3 .. m.size : c[i] = b[i]
        /\ Holds(c, m.size, f.type, x)
    <3>1. m.size >= 2
      BY <1>3, CapIs
    <3>2. /\ c \in Seq(Nat) /\ Len(c) = Len(b) + HeaderLen + Len(x) /\ Claimed(c) = Len(c)
          /\ \A i \in 3 .. Len(b) : c[i] = b[i]
          /\ Holds(c, Len(b), f.type, x)
      <4>1. Len(b) >= 2
        BY <1>3, <3>1
      <4> QED
        BY <1>2, <1>3, <1>6, <4>1, PackIs
    <3> HIDE DEF c
    <3> QED
      BY <1>3, <3>2
  <2>3. size \in 2 .. cap
    BY <2>0
  <2> HIDE DEF c, p
  <2>4. /\ p \in Message /\ p.size = size /\ Len(p.index) = l + 1 /\ Len(p.at) = l + 1
        /\ p.index[l + 1] = n /\ p.at[l + 1] = m.size
        /\ \A k \in 1 .. l : p.index[k] = m.index[k] /\ p.at[k] = m.at[k]
    <3>1. m.index \in Seq(Nat) /\ m.at \in Seq(Nat)
      BY <1>3 DEF Message
    <3>2. Append(m.index, n) \in Seq(Nat) /\ Append(m.at, m.size) \in Seq(Nat) /\ size \in Nat
      BY <1>1, <1>3, <2>3, <3>1
    <3>3. p \in Message
      BY <2>1, <3>2 DEF Message
    <3> HIDE DEF size
    <3> QED
      BY <1>1, <1>3, <2>1, <3>1, <3>3
  <2>5. /\ BytesOf(p, gs, l + 1) = x /\ EndOf(p, gs, l + 1) = size
        /\ \A k \in 1 .. l : BytesOf(p, gs, k) = BytesOf(m, fs, k) /\ EndOf(p, gs, k) = EndOf(m, fs, k)
    <3>1. BytesOf(p, gs, l + 1) = x
      BY <1>1, <2>4 DEF BytesOf, x
    <3>2. \A k \in 1 .. l : BytesOf(p, gs, k) = BytesOf(m, gs, k)
      BY <2>4 DEF BytesOf
    <3> QED
      BY <1>4, <2>4, <3>1, <3>2 DEF EndOf
  <2>6. ASSUME NEW k \in 1 .. l
        PROVE  Holds(c, m.at[k], fs[m.index[k]].type, BytesOf(m, fs, k))
    <3> DEFINE y == BytesOf(m, fs, k)
               at == m.at[k]
    <3>0. m.size \in Nat
      BY <1>3 DEF Message
    <3>1. at \in Nat /\ at >= 2 /\ at + 3 + Len(y) <= m.size /\ Holds(b, at, fs[m.index[k]].type, y)
      BY <1>3 DEF Shape, EndOf, HeaderLen
    <3>2. Len(y) \in Nat
      <4>1. m.index[k] \in 1 .. Len(fs) /\ fs[m.index[k]] \in Fields
        BY <1>3
      <4> QED
        BY <4>1, BytesType DEF BytesOf
    <3> HIDE DEF y, at
    <3>3. c[at + 1] = b[at + 1] /\ c[at + 2] = b[at + 2] /\ c[at + 3] = b[at + 3]
      <4>1. at + 1 \in 3 .. m.size /\ at + 2 \in 3 .. m.size /\ at + 3 \in 3 .. m.size
        BY <3>0, <3>1, <3>2
      <4> QED
        BY <2>2, <4>1
    <3>4. \A j \in 1 .. Len(y) : c[at + 3 + j] = b[at + 3 + j]
      <4>1. \A j \in 1 .. Len(y) : at + 3 + j \in 3 .. m.size
        BY <3>0, <3>1, <3>2
      <4> QED
        BY <2>2, <4>1
    <3> QED
      BY <3>1, <3>3, <3>4 DEF Holds, FieldLen, HeaderLen, y, at
  <2>7. ASSUME NEW k \in 1 .. (l + 1)
        PROVE  /\ p.index[k] \in 1 .. Len(gs) /\ p.at[k] >= 2 /\ EndOf(p, gs, k) <= p.size
               /\ Holds(c, p.at[k], gs[p.index[k]].type, BytesOf(p, gs, k))
               /\ k # l + 1 => p.at[k + 1] = EndOf(p, gs, k)
    <3>1. CASE k = l + 1
      <4>1. Len(gs) = n /\ n \in 1 .. n
        BY <1>1 DEF n
      <4>2. p.at[k] >= 2
        BY <1>3, <2>4, <3>1, CapIs
      <4>3. p.index[k] = n /\ p.at[k] = m.size /\ gs[n] = f
        BY <1>1, <2>4, <3>1
      <4>4. EndOf(p, gs, k) <= p.size
        BY <2>3, <2>4, <2>5, <3>1, CapIs
      <4>5. Holds(c, p.at[k], gs[p.index[k]].type, BytesOf(p, gs, k))
        BY <2>2, <2>5, <3>1, <4>3
      <4> QED
        BY <3>1, <4>1, <4>2, <4>3, <4>4, <4>5
    <3>2. CASE k # l + 1
      <4>1. k \in 1 .. l
        BY <1>3, <3>2
      <4>2. /\ m.index[k] \in 1 .. Len(fs) /\ m.at[k] >= 2 /\ EndOf(m, fs, k) <= m.size
            /\ k # l => m.at[k + 1] = EndOf(m, fs, k)
            /\ k = l => m.size = EndOf(m, fs, k)
        BY <1>3, <4>1 DEF Shape
      <4>3. p.index[k] = m.index[k] /\ p.at[k] = m.at[k] /\ gs[m.index[k]] = fs[m.index[k]]
        BY <1>4, <2>4, <4>1
      <4>4. m.index[k] \in 1 .. Len(gs)
        BY <1>1, <4>2 DEF n
      <4>5. EndOf(m, fs, k) <= size
        <5>1. EndOf(m, fs, k) \in Int
          <6>1. m.index[k] \in 1 .. Len(fs) /\ fs[m.index[k]] \in Fields /\ m.at[k] \in Nat
            BY <1>3, <4>1
          <6>2. m.index[k] \in Nat
            BY <6>1
          <6>3. BytesOf(m, fs, k) \in Seq(Nat)
            BY <6>1, <6>2, BytesType DEF BytesOf
          <6> QED
            BY <6>1, <6>3 DEF EndOf, HeaderLen
        <5> QED
          BY <1>2, <1>3, <4>2, <5>1 DEF HeaderLen
      <4>6. k + 1 = l + 1 \/ k + 1 \in 1 .. l
        BY <1>3, <4>1
      <4>7. p.at[k + 1] = EndOf(m, fs, k)
        BY <2>4, <4>1, <4>2, <4>6
      <4> QED
        BY <2>4, <2>5, <2>6, <4>1, <4>2, <4>3, <4>4, <4>5, <4>7
    <3> QED
      BY <3>1, <3>2
  <2>8. p.at[1] = 2
    <3>1. CASE l = 0
      BY <2>4, <3>1 DEF Shape
    <3>2. CASE l # 0
      <4>1. 1 \in 1 .. l /\ m.at[1] = 2
        BY <1>3, <3>2 DEF Shape
      <4> QED
        BY <2>4, <4>1
    <3> QED
      BY <3>1, <3>2
  <2>9. Shape(c, p, gs, cap)
    BY <1>3, <2>2, <2>3, <2>4, <2>5, <2>7, <2>8 DEF Shape
  <2> QED
    BY <2>9 DEF c, p, n, x, gs
<1> QED
  BY <1>5, <1>6

\* A message without fields is its header.
LEMMA ResetShape == ASSUME NEW cap \in Words PROVE Shape(Reset, NoFields, <<>>, cap)
<1>1. Reset \in Seq(Nat) /\ Len(Reset) = 2 /\ Claimed(Reset) = 2
  BY DEF Reset, Claimed
<1>2. NoFields \in Message /\ NoFields.size = 2 /\ Len(NoFields.index) = 0 /\ Len(NoFields.at) = 0
  BY DEF NoFields, Message, HeaderLen
<1>3. \A k \in 1 .. Len(NoFields.index) : FALSE
  BY <1>2
<1> QED
  BY <1>1, <1>2, <1>3, CapIs DEF Shape
-----------------------------------------------------------------------------
(* What is read of it. *)

\* Buffer g begins with message b.
Begins(g, b) == g \in Seq(Nat) /\ Len(b) <= Len(g) /\ \A i \in 1 .. Len(b) : g[i] = b[i]

\* What is received begins with what was sent, if there is room for it.
LEMMA ReceivedBegins ==
  ASSUME NEW b \in Seq(Nat), Len(b) <= RecvCap
  PROVE  Begins(Received(Leftover, b), b)
<1> DEFINE g == Received(Leftover, b)
<1>1. RecvCap \in Nat /\ Len(b) \in Nat
  BY BuffersAssumption, SMT
<1>2. Leftover \in Seq(Nat) /\ Len(Leftover) = RecvCap
  BY <1>1 DEF Leftover
<1>3. g = [i \in 1 .. RecvCap |-> IF i <= Len(b) THEN b[i] ELSE Leftover[i]]
  BY <1>2 DEF Received
<1>4. \A i \in 1 .. RecvCap : (IF i <= Len(b) THEN b[i] ELSE Leftover[i]) \in Nat
  BY <1>1, <1>2
<1> HIDE DEF g
<1>5. g \in Seq(Nat) /\ Len(g) = RecvCap
  BY <1>1, <1>3, <1>4
<1>6. \A i \in 1 .. Len(b) : g[i] = b[i]
  BY <1>1, <1>3
<1> QED
  BY <1>5, <1>6 DEF Begins, g

\* Part of a buffer that is the same as x is x.
LEMMA PartIs ==
  ASSUME NEW g \in Seq(Nat), NEW x \in Seq(Nat), NEW i \in Nat, i + Len(x) <= Len(g),
         \A j \in 1 .. Len(x) : g[i + j] = x[j]
  PROVE  SubSeq(g, i + 1, i + Len(x)) = x
<1> DEFINE n == Len(x)
           y == SubSeq(g, i + 1, i + n)
<1>1. n \in Nat /\ i + 1 \in Int /\ i + n \in Int
  OBVIOUS
<1>2. \A j \in (i + 1) .. (i + n) : g[j] \in Nat
  OBVIOUS
<1> HIDE DEF n
<1>3. /\ y \in Seq(Nat) /\ Len(y) = IF i + 1 <= i + n THEN i + n - (i + 1) + 1 ELSE 0
      /\ \A j \in 1 .. (i + n - (i + 1) + 1) : y[j] = g[i + 1 + j - 1]
  BY <1>1, <1>2, SubSeqProperties
<1> HIDE DEF y
<1>4. Len(y) = n
  BY <1>1, <1>3
<1>5. \A j \in 1 .. n : y[j] = x[j]
  <2>1. \A j \in 1 .. n : j \in 1 .. (i + n - (i + 1) + 1) /\ i + 1 + j - 1 = i + j
    BY <1>1
  <2>2. \A j \in 1 .. n : g[i + j] = x[j]
    BY DEF n
  <2> QED
    BY <1>3, <2>1, <2>2
<1> QED
  BY <1>3, <1>4, <1>5, SeqEqual DEF n, y

\* The fix-up cuts off what is behind the message.
LEMMA FixupIs ==
  ASSUME NEW b, NEW m, NEW fs, NEW cap, Shape(b, m, fs, cap), NEW g, Begins(g, b)
  PROVE  Fixup(g) = b
<1>1. b \in Seq(Nat) /\ g \in Seq(Nat) /\ Len(b) = m.size /\ Claimed(b) = m.size /\ m.size \in 2 .. cap
  BY DEF Shape, Begins
<1>2. m.size \in Nat /\ m.size >= 2
  <2>1. m.size \in Int /\ m.size >= 2
    BY <1>1
  <2> QED
    BY <2>1
<1>3. g[1] = b[1] /\ g[2] = b[2]
  BY <1>1, <1>2 DEF Begins
<1>4. Claimed(g) = m.size
  BY <1>1, <1>3 DEF Claimed
<1>5. SubSeq(g, 0 + 1, 0 + Len(b)) = b
  <2>1. 0 + Len(b) <= Len(g) /\ \A j \in 1 .. Len(b) : g[0 + j] = b[j]
    BY <1>1 DEF Begins
  <2> QED
    BY <1>1, <2>1, PartIs
<1> QED
  BY <1>1, <1>2, <1>4, <1>5 DEF Fixup

\* What the fields of the message are in a buffer that begins with it.
LEMMA FieldsOf ==
  ASSUME NEW b, NEW m, NEW fs \in Seq(Fields), NEW cap, Shape(b, m, fs, cap), NEW g, Begins(g, b)
  PROVE  /\ m.size \in Nat /\ m.size >= 2 /\ Claimed(g) = m.size /\ Len(m.index) \in Nat
         /\ Len(m.index) # 0 => m.at[1] = 2 /\ m.size = EndOf(m, fs, Len(m.index))
         /\ \A k \in 1 .. Len(m.index) :
              /\ m.at[k] \in Nat /\ m.at[k] >= 2 /\ BytesOf(m, fs, k) \in Seq(Nat)
              /\ EndOf(m, fs, k) <= m.size
              /\ Holds(g, m.at[k], fs[m.index[k]].type, BytesOf(m, fs, k))
              /\ k # Len(m.index) => m.at[k + 1] = EndOf(m, fs, k)
<1>1. /\ m \in Message /\ Len(m.at) = Len(m.index) /\ m.size \in 2 .. cap
      /\ b \in Seq(Nat) /\ g \in Seq(Nat) /\ Len(b) = m.size /\ Claimed(b) = m.size
  BY DEF Shape, Begins
<1>2. m.size \in Nat /\ m.size >= 2
  <2>1. m.size \in Int /\ m.size >= 2
    BY <1>1
  <2> QED
    BY <2>1
<1>3. Claimed(g) = m.size
  <2>1. g[1] = b[1] /\ g[2] = b[2]
    BY <1>1, <1>2 DEF Begins
  <2> QED
    BY <1>1, <2>1 DEF Claimed
<1>4. Len(m.index) \in Nat /\ m.at \in Seq(Nat)
  BY <1>1 DEF Message
<1>5. ASSUME NEW k \in 1 .. Len(m.index)
      PROVE  /\ m.at[k] \in Nat /\ m.at[k] >= 2 /\ BytesOf(m, fs, k) \in Seq(Nat)
             /\ EndOf(m, fs, k) <= m.size
             /\ Holds(g, m.at[k], fs[m.index[k]].type, BytesOf(m, fs, k))
             /\ k # Len(m.index) => m.at[k + 1] = EndOf(m, fs, k)
  <2> DEFINE x == BytesOf(m, fs, k)
             at == m.at[k]
             type == fs[m.index[k]].type
  <2>1. /\ at \in Nat /\ at >= 2 /\ m.index[k] \in 1 .. Len(fs) /\ EndOf(m, fs, k) <= m.size
        /\ Holds(b, at, type, x)
        /\ k # Len(m.index) => m.at[k + 1] = EndOf(m, fs, k)
    <3>1. at \in Nat
      BY <1>1, <1>4
    <3>2. /\ m.index[k] \in 1 .. Len(fs) /\ m.at[k] >= 2 /\ EndOf(m, fs, k) <= m.size
          /\ Holds(b, m.at[k], fs[m.index[k]].type, BytesOf(m, fs, k))
          /\ k # Len(m.index) => m.at[k + 1] = EndOf(m, fs, k)
      BY DEF Shape
    <3> QED
      BY <3>1, <3>2
  <2>2. m.index[k] \in Nat /\ fs[m.index[k]] \in Fields
    BY <2>1
  <2>3. x \in Seq(Nat)
    BY <2>2, BytesType DEF BytesOf
  <2>4. at + 3 + Len(x) <= m.size /\ Len(x) \in Nat
    BY <2>1, <2>3 DEF EndOf, HeaderLen
  <2> HIDE DEF x, at, type
  <2>5. at + 1 \in 1 .. m.size /\ at + 2 \in 1 .. m.size /\ at + 3 \in 1 .. m.size
    BY <1>2, <2>1, <2>4
  <2>6. \A j \in 1 .. Len(x) : at + 3 + j \in 1 .. m.size
    BY <1>2, <2>1, <2>4
  <2>7. \A i \in 1 .. m.size : g[i] = b[i]
    BY <1>1 DEF Begins
  <2>8. Holds(g, at, type, x)
    <3>1. g[at + 1] = b[at + 1] /\ g[at + 2] = b[at + 2] /\ g[at + 3] = b[at + 3]
      BY <2>5, <2>7
    <3>2. \A j \in 1 .. Len(x) : g[at + 3 + j] = b[at + 3 + j]
      BY <2>6, <2>7
    <3> QED
      BY <2>1, <3>1, <3>2 DEF Holds, FieldLen, HeaderLen
  <2> QED
    BY <2>1, <2>3, <2>8 DEF x, at, type
<1>6. Len(m.index) # 0 => m.at[1] = 2 /\ m.size = EndOf(m, fs, Len(m.index))
  BY DEF Shape
<1> QED
  BY <1>2, <1>3, <1>4, <1>5, <1>6

\* From a field that begins within 8 bits the walk goes on to where it ends, within 8 bits.
LEMMA MoveIs ==
  ASSUME NEW b, NEW m, NEW fs \in Seq(Fields), NEW cap, Shape(b, m, fs, cap), NEW g, Begins(g, b),
         NEW k \in 1 .. Len(m.index)
  PROVE  /\ EndOf(m, fs, k) \in Nat /\ EndOf(m, fs, k) >= m.at[k] + 3 /\ ~Broken(g, m.at[k])
         /\ EndOf(m, fs, k) < 256 =>
              Move(g, m.at[k]) = IF EndOf(m, fs, k) < m.size THEN EndOf(m, fs, k) ELSE -1
<1> DEFINE x == BytesOf(m, fs, k)
           at == m.at[k]
           end == EndOf(m, fs, k)
<1>1. /\ m.size \in Nat /\ Claimed(g) = m.size /\ at \in Nat /\ x \in Seq(Nat) /\ end <= m.size
      /\ FieldLen(g, at) = Len(x)
  <2>1. /\ m.size \in Nat /\ Claimed(g) = m.size /\ m.at[k] \in Nat /\ BytesOf(m, fs, k) \in Seq(Nat)
        /\ EndOf(m, fs, k) <= m.size
        /\ Holds(g, m.at[k], fs[m.index[k]].type, BytesOf(m, fs, k))
    BY FieldsOf
  <2> QED
    BY <2>1 DEF Holds
<1>2. Len(x) \in Nat /\ end = at + 3 + Len(x)
  BY <1>1 DEF EndOf, HeaderLen
<1> HIDE DEF x, at, end
<1>3. end \in Nat /\ end >= at + 3
  BY <1>1, <1>2
<1>4. ~Broken(g, at)
  BY <1>1, <1>2 DEF Broken
<1>5. ASSUME end < 256
      PROVE  Move(g, at) = IF end < m.size THEN end ELSE -1
  <2>1. NextPos(g, at) = end
    <3>1. at + FieldLen(g, at) + HeaderLen = end
      BY <1>1, <1>2 DEF HeaderLen
    <3>2. end % 256 = end
      BY <1>3, <1>5
    <3> QED
      BY <3>1, <3>2 DEF NextPos
  <2>2. ~(at < 0)
    BY <1>1
  <2> QED
    BY <1>1, <1>4, <2>1, <2>2 DEF Move
<1> QED
  BY <1>3, <1>4, <1>5 DEF at, end

\* The walk comes to every field that begins within the reach of 8 bits.
LEMMA WalkFinds ==
  ASSUME NEW b, NEW m, NEW fs \in Seq(Fields), NEW cap, Shape(b, m, fs, cap), NEW g, Begins(g, b)
  PROVE  \A k \in 1 .. Len(m.index) : m.at[k] + 3 < 256 => Position(g, k - 1) = m.at[k]
<1> DEFINE Bad == {k \in 1 .. Len(m.index) : m.at[k] + 3 < 256 /\ Position(g, k - 1) # m.at[k]}
<1>1. SUFFICES ASSUME Bad # {} PROVE FALSE
  OBVIOUS
<1>2. PICK k \in Bad : \A h \in Bad : k <= h
  <2>1. Bad \in SUBSET Nat
    OBVIOUS
  <2> QED
    BY <1>1, <2>1, LeastNatural
<1>3. k \in 1 .. Len(m.index) /\ m.at[k] + 3 < 256 /\ Position(g, k - 1) # m.at[k]
  OBVIOUS
<1>4. Len(m.index) \in Nat /\ m.size \in Nat /\ \A h \in 1 .. Len(m.index) : m.at[h] \in Nat
  BY FieldsOf
<1>5. CASE k = 1
  <2>1. Len(m.index) # 0
    BY <1>3, <1>4, <1>5
  <2>2. m.at[1] = 2
    BY <2>1, FieldsOf
  <2> QED
    BY <1>3, <1>5, <2>2, PositionNext
<1>6. CASE k # 1
  <2> DEFINE h == k - 1
  <2>1. h \in 1 .. Len(m.index) /\ h \in Nat /\ h # Len(m.index) /\ h < k /\ h + 1 = k /\ h - 1 \in Nat
        /\ h - 1 + 1 = h
    BY <1>3, <1>4, <1>6
  <2> HIDE DEF h
  <2>2. m.at[k] = EndOf(m, fs, h)
    BY <2>1, FieldsOf
  <2>3. EndOf(m, fs, h) \in Nat /\ EndOf(m, fs, h) >= m.at[h] + 3
    BY <2>1, MoveIs
  <2>4. EndOf(m, fs, h) < m.size
    <3>1. EndOf(m, fs, k) >= m.at[k] + 3 /\ EndOf(m, fs, k) \in Nat
      BY <1>3, MoveIs
    <3>2. EndOf(m, fs, k) <= m.size
      BY <1>3, FieldsOf
    <3> QED
      BY <1>4, <2>2, <2>3, <3>1, <3>2
  <2>5. m.at[h] + 3 < 256 /\ EndOf(m, fs, h) < 256
    BY <1>3, <1>4, <2>1, <2>2, <2>3
  <2>6. Position(g, h - 1) = m.at[h]
    <3>1. h \notin Bad
      BY <1>2, <1>3, <2>1
    <3> QED
      BY <2>1, <2>5, <3>1
  <2>7. Move(g, m.at[h]) = EndOf(m, fs, h)
    BY <2>1, <2>4, <2>5, MoveIs
  <2>8. Position(g, h) = Move(g, Position(g, h - 1))
    BY <2>1, PositionNext
  <2> QED
    BY <1>3, <2>2, <2>6, <2>7, <2>8 DEF h
<1> QED
  BY <1>5, <1>6

\* Behind the last field the walk stands still, if the message has less than 256 bytes.
LEMMA WalkEnds ==
  ASSUME NEW b, NEW m, NEW fs \in Seq(Fields), NEW cap, Shape(b, m, fs, cap), NEW g, Begins(g, b),
         m.size < 256, Len(m.index) # 0
  PROVE  \A n \in Nat : Position(g, Len(m.index) + n) = -1
<1> DEFINE l == Len(m.index)
<1>1. l \in Nat /\ l \in 1 .. l /\ l - 1 \in Nat /\ l - 1 + 1 = l /\ m.size \in Nat /\ m.size = EndOf(m, fs, l)
      /\ m.at[l] \in Nat
  <2>1. l \in Nat /\ m.size \in Nat /\ m.size = EndOf(m, fs, l)
    BY FieldsOf
  <2>2. l \in 1 .. l /\ l - 1 \in Nat /\ l - 1 + 1 = l
    BY <2>1
  <2>3. m.at[l] \in Nat
    BY <2>2, FieldsOf
  <2> QED
    BY <2>1, <2>2, <2>3
<1>2. EndOf(m, fs, l) >= m.at[l] + 3 /\ Move(g, m.at[l]) = -1
  BY <1>1, MoveIs
<1>3. Position(g, l - 1) = m.at[l]
  <2>1. m.at[l] + 3 < 256
    BY <1>1, <1>2
  <2> QED
    BY <1>1, <2>1, WalkFinds
<1> HIDE DEF l
<1>4. Position(g, l) = -1
  BY <1>1, <1>2, <1>3, PositionNext
<1> DEFINE Bad == {n \in Nat : Position(g, l + n) # -1}
<1>5. SUFFICES ASSUME Bad # {} PROVE FALSE
  BY DEF l
<1>6. PICK n \in Bad : \A h \in Bad : n <= h
  BY <1>5, LeastNatural
<1>7. n \in Nat /\ Position(g, l + n) # -1
  OBVIOUS
<1>8. n # 0
  BY <1>1, <1>4, <1>7
<1>9. n - 1 \in Nat /\ l + (n - 1) \in Nat /\ l + (n - 1) + 1 = l + n
  BY <1>1, <1>7, <1>8
<1>10. Position(g, l + (n - 1)) = -1
  <2>1. n - 1 \notin Bad
    BY <1>6, <1>9
  <2> QED
    BY <1>9, <2>1
<1>11. Position(g, l + n) = Move(g, -1)
  <2>1. Position(g, l + (n - 1) + 1) = Move(g, Position(g, l + (n - 1)))
    BY <1>9, PositionNext
  <2> QED
    BY <1>9, <1>10, <2>1
<1> QED
  BY <1>7, <1>11 DEF Move

\* A message claims no more than a buffer holds that begins with it.
LEMMA ClaimHolds ==
  ASSUME NEW b, NEW m, NEW fs, NEW cap, Shape(b, m, fs, cap), NEW g, Begins(g, b)
  PROVE  ~(Claimed(g) > Len(g))
<1>1. b \in Seq(Nat) /\ g \in Seq(Nat) /\ Len(b) >= 2 /\ Len(b) <= Len(g) /\ Claimed(b) = Len(b)
      /\ Len(g) \in Nat /\ Len(b) \in Nat /\ \A i \in 1 .. Len(b) : g[i] = b[i]
  BY DEF Shape, Begins
<1>2. 1 \in 1 .. Len(b) /\ 2 \in 1 .. Len(b)
  BY <1>1
<1>3. Claimed(g) = Claimed(b)
  BY <1>1, <1>2 DEF Claimed
<1> QED
  BY <1>1, <1>3

\* A field that begins within the reach of 8 bits is read as it was packed.
LEMMA UnpackFinds ==
  ASSUME NEW b, NEW m, NEW fs \in Seq(Fields), NEW cap, Shape(b, m, fs, cap), NEW g, Begins(g, b),
         NEW k \in 1 .. Len(m.index), m.at[k] + HeaderLen < 256
  PROVE  Unpack(g, k - 1, fs[m.index[k]].type) = [ok |-> TRUE, x |-> BytesOf(m, fs, k)]
<1> DEFINE x == BytesOf(m, fs, k)
           at == m.at[k]
           type == fs[m.index[k]].type
<1>1. /\ at \in Nat /\ at >= 2 /\ x \in Seq(Nat) /\ EndOf(m, fs, k) <= m.size /\ m.size \in Nat
      /\ Holds(g, at, type, x)
  BY FieldsOf
<1>2. ~Broken(g, at)
  BY MoveIs
<1>3. at + 3 < 256
  BY DEF HeaderLen
<1>4. Position(g, k - 1) = at
  BY <1>3, WalkFinds
<1>5. at + 3 + Len(x) <= m.size /\ Len(x) \in Nat
  BY <1>1 DEF EndOf, HeaderLen
<1>6. g \in Seq(Nat) /\ m.size <= Len(g) /\ Len(g) \in Nat
  BY DEF Begins, Shape
<1> HIDE DEF x, at, type
<1>7. Len(g) # 2 /\ at # -1 /\ at # -2
  <2>1. m.size >= 5
    BY <1>1, <1>5
  <2>2. Len(g) # 2
    <3>1. m.size \in Nat /\ Len(g) \in Nat /\ Len(g) >= m.size
      BY <1>1, <1>6
    <3>2. Len(g) >= 5
      BY <2>1, <3>1
    <3>3. \A n \in Nat : n >= 5 => n # 2
      OBVIOUS
    <3> QED
      BY <3>1, <3>2, <3>3, Zenon
  <2>3. at # -1 /\ at # -2
    BY <1>1
  <2> QED
    BY <2>2, <2>3
<1>8. (at + 3) % 256 = at + 3
  BY <1>1, <1>3
<1>9. SubSeq(g, at + 3 + 1, at + 3 + Len(x)) = x
  <2>1. at + 3 \in Nat /\ at + 3 + Len(x) <= Len(g)
    BY <1>1, <1>5, <1>6
  <2>2. \A j \in 1 .. Len(x) : g[at + 3 + j] = x[j]
    BY <1>1 DEF Holds, HeaderLen
  <2> QED
    BY <1>1, <1>6, <2>1, <2>2, PartIs
<1>10. g[at + 1] = type /\ FieldLen(g, at) = Len(x)
  BY <1>1 DEF Holds
<1>11. HeaderLen = 3 /\ HeaderLen - 1 = 2
  BY DEF HeaderLen
<1>12. Unpack(g, k - 1, type) = [ok |-> TRUE, x |-> x]
  BY <1>2, <1>4, <1>7, <1>8, <1>9, <1>10, <1>11, ClaimHolds DEF Unpack
<1> QED
  BY <1>12 DEF x, type
-----------------------------------------------------------------------------
(* The invariant. *)

\* Each buffer holds the message of the fields that fitted.
CoderInv == FieldsTyped /\ \A cap \in Caps : Shape(buffer[cap], Accepted(fields, cap), fields, cap)

LEMMA CapsWords == Caps \subseteq Words
BY BuffersAssumption, SMT DEF Words

LEMMA EmptyShape == <<>> \in Seq(Fields) /\ \A cap \in Caps : Shape(Reset, Accepted(<<>>, cap), <<>>, cap)
BY AcceptedNext, ResetShape, CapsWords

LEMMA PackInv ==
  ASSUME CoderInv, NEW f \in Fields, PackField(f)
  PROVE  CoderInv'
<1>1. fields \in Seq(Fields) /\ fields' = Append(fields, f) /\ Len(fields') = Len(fields) + 1
  BY DEF CoderInv, FieldsTyped, PackField
<1>2. FieldsTyped'
  BY <1>1 DEF FieldsTyped
<1>3. ASSUME NEW cap \in Caps
      PROVE  Shape(buffer[cap], Accepted(fields, cap), fields, cap)'
  <2>1. Shape(buffer[cap], Accepted(fields, cap), fields, cap) /\ cap \in Words
    BY CapsWords DEF CoderInv
  <2>2. buffer'[cap] = Pack(buffer[cap], Bytes(f, Len(fields) + 1), f.type, cap)
    BY <1>1 DEF PackField
  <2>3. Accepted(fields', cap) = With(Accepted(fields, cap), f, Len(fields) + 1, cap)
    BY <1>1, AcceptedNext
  <2>4. Shape(Pack(buffer[cap], Bytes(f, Len(fields) + 1), f.type, cap),
              With(Accepted(fields, cap), f, Len(fields) + 1, cap), Append(fields, f), cap)
    BY <1>1, <2>1, PackShape
  <2>5. Shape(buffer'[cap], Accepted(fields', cap), fields', cap)
    BY <1>1, <2>2, <2>3, <2>4
  <2> QED
    BY <2>5
<1> QED
  BY <1>2, <1>3 DEF CoderInv

LEMMA Invariance == CoderSpec => []CoderInv
<1>1. CoderInit => CoderInv
  BY EmptyShape DEF CoderInit, CoderInv, FieldsTyped
<1>2. CoderInv /\ [Coding]_coderVars => CoderInv'
  <2> SUFFICES ASSUME CoderInv, [Coding]_coderVars PROVE CoderInv'
    OBVIOUS
  <2>1. CASE ResetBuffer
    <3>1. fields' = <<>> /\ buffer' = [cap \in Caps |-> Reset]
      BY <2>1 DEF ResetBuffer
    <3> QED
      BY <3>1, EmptyShape DEF CoderInv, FieldsTyped
  <2>2. CASE PackInt
    BY <2>2, PackInv, Zenon DEF PackInt, Fields
  <2>3. CASE PackString
    BY <2>3, PackInv, Zenon DEF PackString, Fields
  <2>4. CASE UNCHANGED coderVars
    BY <2>4 DEF coderVars, CoderInv, FieldsTyped
  <2> QED
    BY <2>1, <2>2, <2>3, <2>4 DEF Coding
<1> QED
  BY <1>1, <1>2, PTL DEF CoderSpec

\* Every field that fitted and begins within 252 bytes reads back as it was packed
\* (binary_unpack_string_helper), from the sender's buffer as from the receiver's.
THEOREM FieldsSurvive == CoderSpec => []FieldsReadBack
<1>1. CoderInv => FieldsReadBack
  <2> SUFFICES ASSUME CoderInv, NEW cap \in Caps
               PROVE  LET acc == Accepted(fields, cap)
                          got == Received(Leftover, buffer[cap])
                      IN  /\ Len(buffer[cap]) = acc.size /\ Claimed(buffer[cap]) = acc.size /\ acc.size <= cap
                          /\ acc.size <= RecvCap => Fixup(got) = buffer[cap]
                          /\ \A k \in 1 .. Len(acc.index) :
                                LET n == acc.index[k]
                                    want == [ok |-> TRUE, x |-> Bytes(fields[n], n)]
                                IN  acc.at[k] + HeaderLen < 256 =>
                                      /\ Unpack(buffer[cap], k - 1, fields[n].type) = want
                                      /\ acc.size <= RecvCap => Unpack(got, k - 1, fields[n].type) = want
    BY DEF FieldsReadBack
  <2> DEFINE acc == Accepted(fields, cap)
             got == Received(Leftover, buffer[cap])
             b == buffer[cap]
  <2>1. Shape(b, acc, fields, cap) /\ fields \in Seq(Fields)
    BY DEF CoderInv, FieldsTyped
  <2> HIDE DEF acc
  <2>2. Len(b) = acc.size /\ Claimed(b) = acc.size /\ acc.size \in 2 .. cap /\ b \in Seq(Nat)
    BY <2>1 DEF Shape
  <2>3. acc.size <= cap
    <3>1. cap \in Nat
      BY CapIs, CapsWords
    <3> QED
      BY <2>2, <3>1
  <2>4. Begins(b, b)
    BY <2>2 DEF Begins
  <2>5. acc.size <= RecvCap => Begins(got, b)
    BY <2>2, ReceivedBegins
  <2> HIDE DEF got, b
  <2>6. acc.size <= RecvCap => Fixup(got) = b
    BY <2>1, <2>5, FixupIs
  <2>7. ASSUME NEW k \in 1 .. Len(acc.index), acc.at[k] + HeaderLen < 256
        PROVE  LET n == acc.index[k]
                   want == [ok |-> TRUE, x |-> Bytes(fields[n], n)]
               IN  /\ Unpack(b, k - 1, fields[n].type) = want
                   /\ acc.size <= RecvCap => Unpack(got, k - 1, fields[n].type) = want
    <3>1. Unpack(b, k - 1, fields[acc.index[k]].type) = [ok |-> TRUE, x |-> BytesOf(acc, fields, k)]
      BY <2>1, <2>4, <2>7, UnpackFinds
    <3>2. acc.size <= RecvCap =>
            Unpack(got, k - 1, fields[acc.index[k]].type) = [ok |-> TRUE, x |-> BytesOf(acc, fields, k)]
      BY <2>1, <2>5, <2>7, UnpackFinds
    <3> QED
      BY <3>1, <3>2 DEF BytesOf
  <2> QED
    BY <2>2, <2>3, <2>6, <2>7 DEF acc, got, b
<1> QED
  BY <1>1, Invariance, PTL

\* What a message of less than 256 bytes does not have is empty to the reader (on_bubbles,
\* binary_unpack_string_helper), though an older message is left behind it.
THEOREM MissingStaysEmpty == CoderSpec => []MissingIsEmpty
<1>1. CoderInv => MissingIsEmpty
  <2> SUFFICES ASSUME CoderInv, NEW cap \in Caps, NEW more \in 0 .. 2, NEW type \in {STRING_TYPE, INTEGER_TYPE},
                      Accepted(fields, cap).size < 256, Accepted(fields, cap).size <= RecvCap,
                      Accepted(fields, cap).size > 2
               PROVE  Unpack(Received(Leftover, buffer[cap]), Len(Accepted(fields, cap).index) + more, type) = Nothing
    BY DEF MissingIsEmpty
  <2> DEFINE acc == Accepted(fields, cap)
             got == Received(Leftover, buffer[cap])
             b == buffer[cap]
  <2>1. Shape(b, acc, fields, cap) /\ fields \in Seq(Fields) /\ acc.size < 256 /\ acc.size > 2
    BY DEF CoderInv, FieldsTyped
  <2>2. Len(b) = acc.size /\ b \in Seq(Nat) /\ acc.size <= RecvCap
    BY <2>1 DEF Shape
  <2>3. Begins(got, b)
    BY <2>2, ReceivedBegins
  <2> HIDE DEF acc, got, b
  <2>4. Len(acc.index) # 0
    BY <2>1 DEF Shape
  <2>5. Position(got, Len(acc.index) + more) = -1
    <3>1. more \in Nat
      OBVIOUS
    <3> QED
      BY <2>1, <2>3, <2>4, <3>1, WalkEnds
  <2>6. Unpack(got, Len(acc.index) + more, type) = Nothing
    BY <2>1, <2>3, <2>5, ClaimHolds DEF Unpack
  <2> QED
    BY <2>6 DEF acc, got, b
<1> QED
  BY <1>1, Invariance, PTL

\* The bytes of every int in every message make up the int if it is not negative, and its
\* lower 16 bits if it is (binary_pack_int, binary_unpack_int).
THEOREM IntsSurvive == CoderSpec => []IntsReadBack
  <1>1. FieldsTyped => IntsReadBack
    <2> SUFFICES ASSUME FieldsTyped, NEW i \in DOMAIN fields, fields[i].type = INTEGER_TYPE
                 PROVE IntOf(Bytes(fields[i], i)) = Heard(fields[i].val)
      BY DEF IntsReadBack
    <2>1. fields[i] \in Fields
      BY SMT DEF FieldsTyped
    <2>2. fields[i].val \in Ints
      BY <2>1, SMT DEF Fields, INTEGER_TYPE, STRING_TYPE
    <2> QED
      BY <2>2, IntOfBytes, Zenon DEF Bytes
  <1> QED
    BY <1>1, OnlyFields, PTL
====
