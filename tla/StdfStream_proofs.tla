-------------------------- MODULE StdfStream_proofs --------------------------
(***************************************************************************)
(* Proofs about the STDF file between StdfWriter and StdfReader, for any   *)
(* records, any number of writes and any modulus of REC_LEN.               *)
(*                                                                         *)
(* The file is a flat sequence of bytes and read_all finds the records in  *)
(* it again by position alone, so the proof has two parts.  The first is   *)
(* about sequences: where in the bytes of some records each byte of each   *)
(* record stands.  FlattenSeq is defined by recursion; what it does to a   *)
(* sequence one longer is shown by induction over the numbers, which here  *)
(* is the least counterexample of a well-founded order.  The second is the *)
(* invariant of the specification: whatever has failed, the file is how    *)
(* the bytes asked for begin, and the reader stands behind the records it  *)
(* has returned or at a known place in the next one.                       *)
(***************************************************************************)
EXTENDS StdfStream, SequenceTheorems, WellFoundedInduction, TLAPS

\* A set of naturals with zero and every successor is all of them.
LEMMA Induction ==
  ASSUME NEW S, 0 \in S, \A n \in Nat : n \in S => n + 1 \in S
  PROVE  Nat \subseteq S
<1> DEFINE Others == {n \in Nat : n \notin S}
<1>1. SUFFICES ASSUME Others # {} PROVE FALSE
  OBVIOUS
<1>2. Others \subseteq Nat
  OBVIOUS
<1> HIDE DEF Others
<1>3. PICK n \in Others : \A m \in Others : ~ (<<m, n>> \in OpToRel(<, Nat))
  BY <1>1, <1>2, NatLessThanWellFounded, WFMin, Zenon
<1>4. \A m \in Others : ~ (m < n)
  BY <1>2, <1>3, Zenon DEF OpToRel
<1> USE DEF Others
<1>5. n \in Nat /\ n \notin S
  OBVIOUS
<1>6. n # 0
  BY <1>5
<1>7. n - 1 \in Nat /\ n - 1 < n /\ (n - 1) + 1 = n
  BY <1>5, <1>6
<1>8. n - 1 \in S
  BY <1>4, <1>7
<1>9. QED BY <1>5, <1>7, <1>8

----------------------------------------------------------------------------
(* Sequences of bytes, put together                                        *)

\* g gives what the first sequences are together, for each number up to k.
Flattens(seqs, k, g) ==
  g = [i \in 1 .. k |-> IF i = 1 THEN seqs[i] ELSE g[i - 1] \o seqs[i]]

\* FlattenSeq is the last value of such a function.
LEMMA Flattening ==
  ASSUME NEW seqs, Len(seqs) # 0
  PROVE  FlattenSeq(seqs) = (CHOOSE g : Flattens(seqs, Len(seqs), g))[Len(seqs)]
BY DEF FlattenSeq, Flattens

\* Such functions agree as far as their sequences do.
LEMMA FlattensAgree ==
  ASSUME NEW seqs, NEW k \in Nat, NEW g, Flattens(seqs, k, g),
         NEW others, NEW l \in Nat, NEW h, Flattens(others, l, h),
         NEW m \in Nat, m <= k, m <= l, \A i \in 1 .. m : seqs[i] = others[i]
  PROVE  \A i \in 1 .. m : g[i] = h[i]
<1> DEFINE Same == {i \in Nat : i \in 1 .. m => g[i] = h[i]}
<1>1. 0 \in Same
  OBVIOUS
<1>2. ASSUME NEW i \in Nat, i \in Same, NEW j, j = i + 1, j \in 1 .. m
      PROVE  g[j] = h[j]
  <2>1. j \in 1 .. k /\ j \in 1 .. l /\ seqs[j] = others[j]
    BY <1>2
  <2>2. g[j] = IF j = 1 THEN seqs[j] ELSE g[j - 1] \o seqs[j]
    BY <2>1, Zenon DEF Flattens
  <2>3. h[j] = IF j = 1 THEN others[j] ELSE h[j - 1] \o others[j]
    BY <2>1, Zenon DEF Flattens
  <2>4. j # 1 => g[j - 1] = h[j - 1]
    BY <1>2
  <2>5. QED BY <2>1, <2>2, <2>3, <2>4
<1>3. \A i \in Nat : i \in Same => i + 1 \in Same
  BY <1>2
<1> HIDE DEF Same
<1>4. Nat \subseteq Same
  BY <1>1, <1>3, Induction
<1>5. QED BY <1>4 DEF Same

\* There is one for every sequence.
LEMMA FlattensExist ==
  ASSUME NEW seqs, NEW k \in Nat
  PROVE  \E g : Flattens(seqs, k, g)
<1> DEFINE With == {n \in Nat : \E g : Flattens(seqs, n, g)}
<1>1. 0 \in With
  <2>1. Flattens(seqs, 0, [i \in 1 .. 0 |-> seqs])
    BY DEF Flattens
  <2>2. QED BY <2>1
<1>2. ASSUME NEW n \in Nat, n \in With
      PROVE  n + 1 \in With
  <2>1. PICK g : Flattens(seqs, n, g)
    BY <1>2
  <2> DEFINE last == IF n = 0 THEN seqs[n + 1] ELSE g[n] \o seqs[n + 1]
             longer == [i \in 1 .. (n + 1) |-> IF i <= n THEN g[i] ELSE last]
  <2>2. ASSUME NEW i \in 1 .. (n + 1)
        PROVE  longer[i] = IF i = 1 THEN seqs[i] ELSE longer[i - 1] \o seqs[i]
    <3>1. CASE i <= n
      <4>1. i \in 1 .. n /\ longer[i] = g[i]
        BY <3>1
      <4>2. g[i] = IF i = 1 THEN seqs[i] ELSE g[i - 1] \o seqs[i]
        BY <2>1, <4>1 DEF Flattens
      <4>3. i # 1 => longer[i - 1] = g[i - 1]
        BY <3>1
      <4> HIDE DEF longer
      <4>4. QED BY <4>1, <4>2, <4>3
    <3>2. CASE i = n + 1
      <4>1. longer[i] = last
        BY <3>2
      <4>2. n # 0 => longer[i - 1] = g[n]
        BY <3>2
      <4> HIDE DEF longer
      <4>3. QED BY <3>2, <4>1, <4>2
    <3>3. QED BY <3>1, <3>2
  <2>3. Flattens(seqs, n + 1, longer)
    BY <2>2 DEF Flattens
  <2>4. QED BY <2>3
<1> HIDE DEF With
<1>3. Nat \subseteq With
  BY <1>1, <1>2, Induction
<1>4. QED BY <1>3 DEF With

\* One sequence more: where n sequences are followed by another.
LEMMA FlattenNext ==
  ASSUME NEW seqs, NEW more, NEW n \in Nat, Len(seqs) = n, Len(more) = n + 1,
         \A i \in 1 .. n : more[i] = seqs[i]
  PROVE  /\ n = 0 => FlattenSeq(more) = more[1]
         /\ n # 0 => FlattenSeq(more) = FlattenSeq(seqs) \o more[n + 1]
<1>1. PICK h : Flattens(more, n + 1, h) /\ FlattenSeq(more) = h[n + 1]
  <2>1. \E h : Flattens(more, n + 1, h)
    <3>1. n + 1 \in Nat
      OBVIOUS
    <3>2. QED BY <3>1, FlattensExist, Zenon
  <2>2. Flattens(more, n + 1, CHOOSE h : Flattens(more, n + 1, h))
    BY <2>1
  <2>3. FlattenSeq(more) = (CHOOSE h : Flattens(more, n + 1, h))[n + 1]
    BY Flattening
  <2>4. QED BY <2>2, <2>3
<1>2. h[n + 1] = IF n + 1 = 1 THEN more[n + 1] ELSE h[n] \o more[n + 1]
  <2>1. PICK j \in 1 .. (n + 1) : j = n + 1
    OBVIOUS
  <2>2. h[j] = IF j = 1 THEN more[j] ELSE h[j - 1] \o more[j]
    BY <1>1, Zenon DEF Flattens
  <2>3. j - 1 = n
    BY <2>1
  <2>4. QED BY <2>1, <2>2, <2>3
<1>3. CASE n = 0
  BY <1>1, <1>2, <1>3
<1>4. CASE n # 0
  <2>1. PICK g : Flattens(seqs, n, g) /\ FlattenSeq(seqs) = g[n]
    <3>1. \E g : Flattens(seqs, n, g)
      BY FlattensExist
    <3>2. Flattens(seqs, n, CHOOSE g : Flattens(seqs, n, g))
      BY <3>1
    <3>3. FlattenSeq(seqs) = (CHOOSE g : Flattens(seqs, n, g))[n]
      BY <1>4, Flattening
    <3>4. QED BY <3>2, <3>3
  <2>2. \A i \in 1 .. n : g[i] = h[i]
    BY <1>1, <2>1, FlattensAgree
  <2>3. h[n] = FlattenSeq(seqs)
    BY <1>4, <2>1, <2>2
  <2>4. QED BY <1>1, <1>2, <1>4, <2>3
<1>5. QED BY <1>3, <1>4

----------------------------------------------------------------------------
(* The bytes of records                                                    *)

\* A byte: the record it is of and its place in it.
Byte == [rec : Record, at : Nat]

\* A body has a length, and a FAR says one of the two byte orders.
LEMMA RecordFacts ==
  ASSUME NEW r \in Record
  PROVE  /\ BodyLength(r) \in Nat
         /\ IsFar(r) => r.of \in {"X86", "M68000"} /\ r = Far(r.of)
         /\ r # Garbled
<1>1. CASE \E cpu \in {"X86", "M68000"} : r = Far(cpu)
  <2>1. PICK cpu \in {"X86", "M68000"} : r = Far(cpu)
    BY <1>1
  <2>2. r.typ = "Far" /\ r.of = cpu
    BY <2>1 DEF Far
  <2>3. QED BY <2>1, <2>2 DEF BodyLength, IsFar, Garbled
<1>2. CASE \E name \in Names : r = Data(name)
  <2>1. PICK name \in Names : r = Data(name)
    BY <1>2
  <2>2. r.typ = "Data" /\ r.of = name
    BY <2>1 DEF Data
  <2>3. QED BY <2>1, <2>2, LengthAssumption DEF BodyLength, IsFar, Garbled
<1>3. QED BY <1>1, <1>2 DEF Record

\* A record's bytes: its header's four, then its body's.
LEMMA EncodeType ==
  ASSUME NEW r \in Record
  PROVE  /\ Encode(r) \in Seq(Byte)
         /\ Len(Encode(r)) = HeaderLength + BodyLength(r)
         /\ \A k \in 1 .. HeaderLength + BodyLength(r) : Encode(r)[k] = [rec |-> r, at |-> k]
<1> DEFINE n == HeaderLength + BodyLength(r)
<1>1. n \in Nat
  BY RecordFacts DEF HeaderLength
<1>2. Encode(r) = [at \in 1 .. n |-> [rec |-> r, at |-> at]]
  BY DEF Encode
<1>3. \A at \in 1 .. n : [rec |-> r, at |-> at] \in Byte
  BY <1>1 DEF Byte
<1> HIDE DEF n
<1>4. Encode(r) \in [1 .. n -> Byte]
  BY <1>2, <1>3
<1>5. Encode(r) \in Seq(Byte) /\ Len(Encode(r)) = n
  BY <1>1, <1>4
<1>6. QED BY <1>2, <1>5 DEF n

\* No records have no bytes.
LEMMA FlatOfNone == EncodeAll(<<>>) = <<>>
<1>1. [i \in DOMAIN <<>> |-> Encode(<<>>[i])] = <<>>
  OBVIOUS
<1>2. QED BY <1>1 DEF EncodeAll, FlattenSeq

\* The first records of a sequence.
First(records, n) == SubSeq(records, 1, n)

\* A longer sequence of records is a shorter one and one record more.
LEMMA FirstTypes ==
  ASSUME NEW S, NEW records \in Seq(S), NEW n \in 0 .. Len(records)
  PROVE  /\ First(records, n) \in Seq(S)
         /\ Len(First(records, n)) = n
         /\ \A i \in 1 .. n : First(records, n)[i] = records[i]
<1>1. \A i \in 1 .. n : records[i] \in S
  BY ElementOfSeq
<1>2. /\ First(records, n) \in Seq(S)
      /\ Len(First(records, n)) = IF 1 <= n THEN n - 1 + 1 ELSE 0
      /\ \A i \in 1 .. n - 1 + 1 : First(records, n)[i] = records[1 + i - 1]
  BY <1>1, SubSeqProperties DEF First
<1>3. Len(First(records, n)) = n
  BY <1>2
<1>4. \A i \in 1 .. n : i \in 1 .. n - 1 + 1 /\ 1 + i - 1 = i
  OBVIOUS
<1>5. \A i \in 1 .. n : First(records, n)[i] = records[i]
  BY <1>2, <1>4
<1>6. QED BY <1>2, <1>3, <1>5

\* The same where there is a sequence before it.
LEMMA FlattenMore ==
  ASSUME NEW seqs, NEW more, NEW n \in Nat, Len(seqs) = n, Len(more) = n + 1,
         \A i \in 1 .. n : more[i] = seqs[i], n # 0
  PROVE  FlattenSeq(more) = FlattenSeq(seqs) \o more[n + 1]
BY FlattenNext

\* What follows n records is encoded right behind them.
LEMMA FlatGrows ==
  ASSUME NEW short \in Seq(Record), NEW long \in Seq(Record),
         Len(long) = Len(short) + 1, \A i \in 1 .. Len(short) : long[i] = short[i],
         EncodeAll(short) \in Seq(Byte)
  PROVE  EncodeAll(long) = EncodeAll(short) \o Encode(long[Len(short) + 1])
<1>1. PICK n \in Nat : n = Len(short)
  BY LenProperties
<1> DEFINE seqs == [i \in DOMAIN short |-> Encode(short[i])]
           more == [i \in DOMAIN long |-> Encode(long[i])]
<1>2. DOMAIN short = 1 .. n /\ DOMAIN long = 1 .. (n + 1)
  BY <1>1, LenProperties
<1>3. Len(seqs) = n /\ Len(more) = n + 1
  BY <1>2
<1>4. \A i \in 1 .. n : more[i] = seqs[i]
  BY <1>1, <1>2
<1>5. more[n + 1] = Encode(long[n + 1])
  BY <1>2
<1>6. EncodeAll(short) = FlattenSeq(seqs) /\ EncodeAll(long) = FlattenSeq(more)
  BY DEF EncodeAll
<1> HIDE DEF seqs, more
<1>7. /\ n = 0 => EncodeAll(long) = Encode(long[1])
      /\ n # 0 => EncodeAll(long) = EncodeAll(short) \o Encode(long[n + 1])
  <2>1. /\ n = 0 => FlattenSeq(more) = more[1]
        /\ n # 0 => FlattenSeq(more) = FlattenSeq(seqs) \o more[n + 1]
    <3>1. CASE n = 0
      BY <1>1, <1>3, <1>4, <3>1, FlattenNext, Zenon
    <3>2. CASE n # 0
      <4>1. FlattenSeq(more) = FlattenSeq(seqs) \o more[n + 1]
        BY <1>1, <1>3, <1>4, <3>2, FlattenMore, Zenon
      <4>2. QED BY <3>2, <4>1
    <3>3. QED BY <3>1, <3>2
  <2>2. n = 0 => EncodeAll(long) = Encode(long[1])
    BY <1>5, <1>6, <2>1
  <2>3. n # 0 => EncodeAll(long) = EncodeAll(short) \o Encode(long[n + 1])
    BY <1>5, <1>6, <2>1
  <2>4. QED BY <2>2, <2>3
<1>8. CASE n = 0
  <2>1. short = <<>>
    BY <1>1, <1>8, EmptySeq
  <2>2. long[1] \in Record
    <3>1. 1 \in 1 .. Len(long)
      BY <1>1, <1>8
    <3>2. QED BY <3>1, ElementOfSeq
  <2>3. <<>> \o Encode(long[1]) = Encode(long[1])
    BY <2>2, EncodeType, ConcatEmptySeq
  <2>4. EncodeAll(short) \o Encode(long[1]) = Encode(long[1])
    BY <2>1, <2>3, FlatOfNone
  <2>5. QED BY <1>1, <1>7, <1>8, <2>4
<1>9. QED BY <1>1, <1>7, <1>8

\* The bytes of records are bytes.
LEMMA FlatType ==
  ASSUME NEW records \in Seq(Record)
  PROVE  EncodeAll(records) \in Seq(Byte)
<1> DEFINE Typed == {n \in Nat :
                       \A rs \in Seq(Record) : Len(rs) = n => EncodeAll(rs) \in Seq(Byte)}
<1>1. 0 \in Typed
  <2>1. \A rs \in Seq(Record) : Len(rs) = 0 => rs = <<>>
    OBVIOUS
  <2>2. <<>> \in Seq(Byte)
    OBVIOUS
  <2>3. QED BY <2>1, <2>2, FlatOfNone
<1>2. ASSUME NEW n \in Nat, n \in Typed, NEW rs \in Seq(Record), Len(rs) = n + 1
      PROVE  EncodeAll(rs) \in Seq(Byte)
  <2>1. PICK short : short = First(rs, n)
    OBVIOUS
  <2>2. short \in Seq(Record) /\ Len(short) = n /\ \A i \in 1 .. n : rs[i] = short[i]
    BY <1>2, <2>1, FirstTypes
  <2>3. EncodeAll(short) \in Seq(Byte)
    BY <1>2, <2>2
  <2>4. EncodeAll(rs) = EncodeAll(short) \o Encode(rs[n + 1])
    BY <1>2, <2>2, <2>3, FlatGrows
  <2>5. rs[n + 1] \in Record
    BY <1>2
  <2>6. Encode(rs[n + 1]) \in Seq(Byte)
    BY <2>5, EncodeType
  <2>7. QED BY <2>3, <2>4, <2>6, ConcatProperties
<1>3. \A n \in Nat : n \in Typed => n + 1 \in Typed
  BY <1>2
<1> HIDE DEF Typed
<1>4. Nat \subseteq Typed
  BY <1>1, <1>3, Induction
<1>5. Len(records) \in Nat
  BY LenProperties
<1>6. QED BY <1>4, <1>5 DEF Typed

\* How many bytes the first n records take.
Bytes(records, n) == Len(EncodeAll(First(records, n)))

\* s is how t begins.
Begins(s, t) == Len(s) <= Len(t) /\ \A k \in 1 .. Len(s) : s[k] = t[k]

\* The records before a record, and that record behind their bytes.
LEMMA FlatStep ==
  ASSUME NEW records \in Seq(Record), NEW n \in Nat, n < Len(records)
  PROVE  /\ EncodeAll(First(records, n + 1)) = EncodeAll(First(records, n)) \o Encode(records[n + 1])
         /\ records[n + 1] \in Record
         /\ Bytes(records, n) \in Nat
         /\ Bytes(records, n + 1)
              = Bytes(records, n) + HeaderLength + BodyLength(records[n + 1])
<1>1. PICK short : short = First(records, n)
  OBVIOUS
<1>2. PICK long : long = First(records, n + 1)
  OBVIOUS
<1>3. Len(records) \in Nat
  BY LenProperties
<1>4. n \in 0 .. Len(records) /\ n + 1 \in 0 .. Len(records)
  BY <1>3
<1>5. short \in Seq(Record) /\ Len(short) = n /\ \A i \in 1 .. n : short[i] = records[i]
  BY <1>1, <1>4, FirstTypes
<1>6. /\ long \in Seq(Record) /\ Len(long) = n + 1
      /\ \A i \in 1 .. (n + 1) : long[i] = records[i]
  BY <1>2, <1>4, FirstTypes
<1>7. records[n + 1] \in Record
  BY <1>4, <1>3, ElementOfSeq
<1>8. EncodeAll(short) \in Seq(Byte)
  BY <1>5, FlatType
<1>9. EncodeAll(long) = EncodeAll(short) \o Encode(long[n + 1])
  <2>1. Len(long) = Len(short) + 1 /\ \A i \in 1 .. Len(short) : long[i] = short[i]
    BY <1>5, <1>6
  <2>2. QED BY <1>5, <1>6, <1>8, <2>1, FlatGrows
<1>10. long[n + 1] = records[n + 1]
  BY <1>6
<1>11. Len(EncodeAll(short) \o Encode(records[n + 1]))
         = Len(EncodeAll(short)) + Len(Encode(records[n + 1]))
  BY <1>7, <1>8, EncodeType, ConcatProperties
<1>12. Len(EncodeAll(short)) \in Nat
  BY <1>8, LenProperties
<1>13. Len(Encode(records[n + 1])) = HeaderLength + BodyLength(records[n + 1])
  BY <1>7, EncodeType
<1>14. BodyLength(records[n + 1]) \in Nat
  BY <1>7, RecordFacts
<1>15. QED
  <2>1. EncodeAll(First(records, n + 1)) = EncodeAll(First(records, n)) \o Encode(records[n + 1])
    BY <1>1, <1>2, <1>9, <1>10
  <2>2. Bytes(records, n) = Len(EncodeAll(short)) /\ Bytes(records, n + 1) = Len(EncodeAll(long))
    BY <1>1, <1>2 DEF Bytes
  <2>3. Len(EncodeAll(long)) = Len(EncodeAll(short)) + (HeaderLength + BodyLength(records[n + 1]))
    BY <1>9, <1>10, <1>11, <1>13
  <2>4. HeaderLength \in Nat
    BY DEF HeaderLength
  <2>5. QED BY <1>7, <1>12, <1>14, <2>1, <2>2, <2>3, <2>4

\* A sequence's bytes begin with those of its first records, and n records
\* take at least a header's bytes more than fewer do.
LEMMA FlatBegins ==
  ASSUME NEW records \in Seq(Record), NEW i \in Nat, NEW j \in i .. Len(records)
  PROVE  /\ Begins(EncodeAll(First(records, i)), EncodeAll(First(records, j)))
         /\ Bytes(records, i) \in Nat /\ Bytes(records, j) \in Nat
         /\ i < j => Bytes(records, i) + HeaderLength <= Bytes(records, j)
<1> DEFINE Longer == {n \in Nat : i + n <= Len(records) =>
                        /\ Begins(EncodeAll(First(records, i)), EncodeAll(First(records, i + n)))
                        /\ Bytes(records, i) \in Nat /\ Bytes(records, i + n) \in Nat
                        /\ n # 0 => Bytes(records, i) + HeaderLength <= Bytes(records, i + n)}
<1>1. Len(records) \in Nat
  BY LenProperties
<1>2. 0 \in Longer
  <2>1. First(records, i) \in Seq(Record)
    BY <1>1, FirstTypes
  <2>2. EncodeAll(First(records, i)) \in Seq(Byte)
    BY <2>1, FlatType
  <2>3. Bytes(records, i) \in Nat
    BY <2>2, LenProperties DEF Bytes
  <2>4. QED BY <2>3 DEF Begins, Bytes
<1>3. ASSUME NEW n \in Nat, n \in Longer, i + n + 1 <= Len(records)
      PROVE  /\ Begins(EncodeAll(First(records, i)), EncodeAll(First(records, i + (n + 1))))
             /\ Bytes(records, i) \in Nat /\ Bytes(records, i + (n + 1)) \in Nat
             /\ Bytes(records, i) + HeaderLength <= Bytes(records, i + (n + 1))
  <2>1. PICK m \in Nat : m = i + n
    OBVIOUS
  <2>2. m < Len(records) /\ i + (n + 1) = m + 1
    BY <1>1, <1>3, <2>1
  <2>3. /\ Begins(EncodeAll(First(records, i)), EncodeAll(First(records, m)))
        /\ Bytes(records, i) \in Nat
        /\ Bytes(records, m) \in Nat
        /\ Bytes(records, i) <= Bytes(records, m)
    BY <1>1, <1>3, <2>1, <2>2 DEF Begins, Bytes
  <2>4. /\ EncodeAll(First(records, m + 1)) = EncodeAll(First(records, m)) \o Encode(records[m + 1])
        /\ records[m + 1] \in Record
        /\ Bytes(records, m + 1)
             = Bytes(records, m) + HeaderLength + BodyLength(records[m + 1])
    BY <2>2, FlatStep
  <2>5. BodyLength(records[m + 1]) \in Nat
    BY <2>4, RecordFacts
  <2>6. First(records, m) \in Seq(Record)
    BY <1>1, <2>2, FirstTypes
  <2>7. EncodeAll(First(records, m)) \in Seq(Byte) /\ Encode(records[m + 1]) \in Seq(Byte)
    BY <2>4, <2>6, FlatType, EncodeType
  <2>8. \A k \in 1 .. Bytes(records, m) :
          EncodeAll(First(records, m + 1))[k] = EncodeAll(First(records, m))[k]
    BY <2>4, <2>7, ConcatProperties DEF Bytes
  <2>9. Bytes(records, i) + HeaderLength <= Bytes(records, m + 1)
    BY <2>3, <2>4, <2>5 DEF HeaderLength
  <2>10. Begins(EncodeAll(First(records, i)), EncodeAll(First(records, m + 1)))
    BY <2>3, <2>8, <2>9 DEF Begins, Bytes, HeaderLength
  <2>11. Bytes(records, m + 1) \in Nat
    BY <2>3, <2>4, <2>5 DEF HeaderLength
  <2>12. QED BY <2>2, <2>3, <2>9, <2>10, <2>11
<1>4. \A n \in Nat : n \in Longer => n + 1 \in Longer
  BY <1>1, <1>3
<1> HIDE DEF Longer
<1>5. Nat \subseteq Longer
  BY <1>2, <1>4, Induction
<1>6. j - i \in Longer /\ i + (j - i) = j
  BY <1>1, <1>5
<1>7. QED BY <1>1, <1>6 DEF Longer

\* Where each byte of a record stands among those of all.
LEMMA AtPlace ==
  ASSUME NEW records \in Seq(Record), NEW n \in Nat, n < Len(records)
  PROVE  /\ Bytes(records, n) \in Nat
         /\ Len(EncodeAll(records)) \in Nat
         /\ Bytes(records, n) + HeaderLength + BodyLength(records[n + 1]) <= Len(EncodeAll(records))
         /\ \A k \in 1 .. HeaderLength + BodyLength(records[n + 1]) :
              EncodeAll(records)[Bytes(records, n) + k] = [rec |-> records[n + 1], at |-> k]
<1>1. PICK len \in Nat : len = Len(records)
  BY LenProperties
<1>2. First(records, len) = records
  BY <1>1, SubSeqFull DEF First
<1>3. /\ Begins(EncodeAll(First(records, n + 1)), EncodeAll(records))
      /\ Bytes(records, n + 1) \in Nat /\ Bytes(records, len) \in Nat
  BY <1>1, <1>2, FlatBegins
<1>4. PICK r : r = records[n + 1]
  OBVIOUS
<1>5. /\ EncodeAll(First(records, n + 1)) = EncodeAll(First(records, n)) \o Encode(r)
      /\ r \in Record
      /\ Bytes(records, n) \in Nat
      /\ Bytes(records, n + 1) = Bytes(records, n) + HeaderLength + BodyLength(r)
  BY <1>4, FlatStep
<1>6. First(records, n) \in Seq(Record)
  BY <1>1, FirstTypes
<1>7. EncodeAll(First(records, n)) \in Seq(Byte)
  BY <1>6, FlatType
<1>8. /\ Encode(r) \in Seq(Byte)
      /\ Len(Encode(r)) = HeaderLength + BodyLength(r)
      /\ \A k \in 1 .. HeaderLength + BodyLength(r) : Encode(r)[k] = [rec |-> r, at |-> k]
  BY <1>5, EncodeType
<1>9. BodyLength(r) \in Nat
  BY <1>5, RecordFacts
<1>10. ASSUME NEW k \in 1 .. HeaderLength + BodyLength(r)
       PROVE  EncodeAll(records)[Bytes(records, n) + k] = [rec |-> r, at |-> k]
  <2>1. EncodeAll(First(records, n + 1))[Bytes(records, n) + k] = Encode(r)[k]
    BY <1>5, <1>7, <1>8, <1>9, ConcatProperties DEF Bytes, HeaderLength
  <2>2. Bytes(records, n) + k \in 1 .. Bytes(records, n + 1)
    BY <1>5, <1>9 DEF HeaderLength
  <2>3. EncodeAll(records)[Bytes(records, n) + k] = EncodeAll(First(records, n + 1))[Bytes(records, n) + k]
    BY <1>3, <2>2 DEF Begins, Bytes
  <2>4. QED BY <1>8, <2>1, <2>3
<1>11. QED BY <1>1, <1>2, <1>3, <1>4, <1>5, <1>10 DEF Begins, Bytes

----------------------------------------------------------------------------
(* The records asked for, and their bytes                                  *)

\* A call of write, and whether it succeeded.
Call == [rec : Record, ok : BOOLEAN]
\* The records calls were given.
RecordsOf(c) == [i \in DOMAIN c |-> c[i].rec]

\* Asked, of any calls.
AskedOf(c) ==
  IF RecordsOf(c) = <<>> \/ IsFar(Head(RecordsOf(c))) THEN RecordsOf(c)
  ELSE <<Far("X86")>> \o RecordsOf(c)

\* Asked is that of the calls made.
LEMMA AskedIs == Asked = AskedOf(calls)
BY DEF Asked, AskedOf, RecordsOf

\* The FAR the writer adds.
LEMMA AFar == Far("X86") \in Record /\ IsFar(Far("X86")) /\ BodyLength(Far("X86")) = 2
BY DEF Far, Record, IsFar, BodyLength

\* The records of calls are records.
LEMMA RecordsOfType ==
  ASSUME NEW c \in Seq(Call)
  PROVE  /\ RecordsOf(c) \in Seq(Record)
         /\ Len(RecordsOf(c)) = Len(c)
         /\ \A i \in 1 .. Len(c) : c[i] \in Call /\ RecordsOf(c)[i] = c[i].rec
<1>1. PICK n \in Nat : n = Len(c)
  BY LenProperties
<1>2. DOMAIN c = 1 .. n
  BY <1>1, LenProperties
<1>3. \A i \in 1 .. n : c[i] \in Call
  BY <1>1, ElementOfSeq
<1>4. \A i \in 1 .. n : c[i].rec \in Record
  BY <1>3 DEF Call
<1>5. RecordsOf(c) = [i \in 1 .. n |-> c[i].rec]
  BY <1>2 DEF RecordsOf
<1>6. RecordsOf(c) \in [1 .. n -> Record]
  BY <1>4, <1>5
<1>7. RecordsOf(c) \in Seq(Record) /\ Len(RecordsOf(c)) = n
  BY <1>6
<1>8. QED BY <1>1, <1>3, <1>5, <1>7

\* What is asked for begins with a FAR, and is what the calls were given and
\* the FAR the writer adds.
LEMMA AskedFacts ==
  ASSUME NEW c \in Seq(Call)
  PROVE  /\ AskedOf(c) \in Seq(Record)
         /\ c = <<>> => AskedOf(c) = <<>>
         /\ c # <<>> => Len(AskedOf(c)) # 0 /\ IsFar(AskedOf(c)[1])
         /\ Len(c) <= Len(AskedOf(c))
         /\ \A j \in 1 .. Len(AskedOf(c)) :
              AskedOf(c)[j] = Far("X86") \/ \E i \in 1 .. Len(c) : AskedOf(c)[j] = c[i].rec
<1>1. PICK rs : rs = RecordsOf(c)
  OBVIOUS
<1>2. PICK n \in Nat : n = Len(c)
  BY LenProperties
<1>3. rs \in Seq(Record) /\ Len(rs) = n /\ \A i \in 1 .. n : rs[i] = c[i].rec
  BY <1>1, <1>2, RecordsOfType
<1>4. c = <<>> <=> n = 0
  BY <1>2, EmptySeq
<1>5. rs = <<>> <=> n = 0
  BY <1>3, EmptySeq
<1>6. PICK asked : asked = IF rs = <<>> \/ IsFar(Head(rs)) THEN rs ELSE <<Far("X86")>> \o rs
  OBVIOUS
<1>7. AskedOf(c) = asked
  BY <1>1, <1>6 DEF AskedOf
<1>8. CASE rs = <<>> \/ IsFar(Head(rs))
  <2>1. asked = rs
    BY <1>6, <1>8
  <2>2. n # 0 => Head(rs) = rs[1]
    BY <1>3
  <2>3. QED BY <1>2, <1>3, <1>4, <1>5, <1>7, <1>8, <2>1, <2>2
<1>9. CASE ~ (rs = <<>> \/ IsFar(Head(rs)))
  <2>1. asked = <<Far("X86")>> \o rs
    BY <1>6, <1>9
  <2>2. <<Far("X86")>> \in Seq(Record) /\ Len(<<Far("X86")>>) = 1
    BY AFar
  <2>3. /\ asked \in Seq(Record) /\ Len(asked) = n + 1
        /\ \A j \in 1 .. n + 1 : asked[j] = IF j <= 1 THEN <<Far("X86")>>[j] ELSE rs[j - 1]
    BY <1>3, <2>1, <2>2, ConcatProperties
  <2>4. asked[1] = Far("X86")
    BY <2>3
  <2>5. \A j \in 2 .. n + 1 : asked[j] = rs[j - 1] /\ j - 1 \in 1 .. n
    BY <2>3
  <2>6. n # 0
    BY <1>5, <1>9
  <2>7. \A j \in 1 .. n + 1 : asked[j] = Far("X86") \/ \E i \in 1 .. n : asked[j] = c[i].rec
    <3>1. ASSUME NEW j \in 2 .. n + 1
          PROVE  \E i \in 1 .. n : asked[j] = c[i].rec
      BY <1>3, <2>5
    <3>2. QED BY <2>4, <3>1
  <2>8. n <= n + 1 /\ n + 1 # 0
    OBVIOUS
  <2>9. QED BY <1>2, <1>4, <1>7, <2>3, <2>4, <2>6, <2>7, <2>8, AFar
<1>10. QED BY <1>8, <1>9

\* One thing after another.
LEMMA TwoOf ==
  ASSUME NEW S, NEW a \in S, NEW b \in S
  PROVE  Append(<<a>>, b) = <<a, b>>
<1>1. <<a>> \in Seq(S) /\ Len(<<a>>) = 1 /\ <<a>>[1] = a
  OBVIOUS
<1>2. /\ Append(<<a>>, b) \in Seq(S) /\ Len(Append(<<a>>, b)) = 2
      /\ Append(<<a>>, b)[1] = a /\ Append(<<a>>, b)[2] = b
  BY <1>1, AppendProperties
<1>3. <<a, b>> \in Seq(S) /\ Len(<<a, b>>) = 2 /\ <<a, b>>[1] = a /\ <<a, b>>[2] = b
  OBVIOUS
<1>4. \A i \in 1 .. 2 : Append(<<a>>, b)[i] = <<a, b>>[i]
  BY <1>2, <1>3
<1>5. QED BY <1>2, <1>3, <1>4, SeqEqual

\* What a call asks for comes behind what was asked for.
LEMMA AskedGrows ==
  ASSUME NEW c \in Seq(Call), NEW call \in Call
  PROVE  IF c # <<>> \/ IsFar(call.rec)
         THEN AskedOf(Append(c, call)) = Append(AskedOf(c), call.rec)
         ELSE AskedOf(Append(c, call)) = <<Far("X86"), call.rec>>
<1>1. PICK d \in Seq(Call) : d = Append(c, call)
  BY AppendProperties
<1>2. PICK n \in Nat : n = Len(c)
  BY LenProperties
<1>3. Len(d) = n + 1 /\ d[n + 1] = call /\ \A i \in 1 .. n : d[i] = c[i]
  BY <1>1, <1>2
<1>4. PICK r \in Record : r = call.rec
  BY DEF Call
<1>5. PICK rs \in Seq(Record) : rs = RecordsOf(c)
  BY RecordsOfType
<1>6. PICK ts \in Seq(Record) : ts = RecordsOf(d)
  BY RecordsOfType
<1>7. Len(rs) = n /\ \A i \in 1 .. n : rs[i] = c[i].rec
  BY <1>2, <1>5, RecordsOfType
<1>8. Len(ts) = n + 1 /\ \A i \in 1 .. n + 1 : ts[i] = d[i].rec
  BY <1>3, <1>6, RecordsOfType
<1>9. ts = Append(rs, r)
  <2>1. Append(rs, r) \in Seq(Record) /\ Len(Append(rs, r)) = n + 1
    BY <1>7
  <2>2. \A i \in 1 .. n + 1 : ts[i] = Append(rs, r)[i]
    BY <1>3, <1>4, <1>7, <1>8
  <2>3. QED BY <1>8, <2>1, <2>2, SeqEqual
<1>10. c = <<>> <=> n = 0
  BY <1>2, EmptySeq
<1>11. rs = <<>> <=> n = 0
  BY <1>7, EmptySeq
<1>12. ts # <<>>
  BY <1>8
<1>13. Head(ts) = IF n = 0 THEN r ELSE Head(rs)
  BY <1>7, <1>8, <1>9
<1>14. AskedOf(d) = IF ts = <<>> \/ IsFar(Head(ts)) THEN ts ELSE <<Far("X86")>> \o ts
  BY <1>6 DEF AskedOf
<1>15. AskedOf(c) = IF rs = <<>> \/ IsFar(Head(rs)) THEN rs ELSE <<Far("X86")>> \o rs
  BY <1>5 DEF AskedOf
<1>16. <<Far("X86")>> \in Seq(Record)
  BY AFar
<1>17. CASE n = 0
  <2>1. rs = <<>> /\ ts = <<r>>
    BY <1>9, <1>11, <1>17
  <2>2. CASE IsFar(r)
    BY <1>1, <1>4, <1>9, <1>11, <1>13, <1>14, <1>15, <1>17, <2>2
  <2>3. CASE ~ IsFar(r)
    <3>1. AskedOf(d) = <<Far("X86")>> \o <<r>>
      BY <1>12, <1>13, <1>14, <1>17, <2>1, <2>3
    <3>2. <<Far("X86")>> \o <<r>> = <<Far("X86"), r>>
      <4>1. Append(<<Far("X86")>>, r) = <<Far("X86")>> \o <<r>>
        BY <1>16, AppendIsConcat
      <4>2. Append(<<Far("X86")>>, r) = <<Far("X86"), r>>
        BY TwoOf, AFar
      <4>3. QED BY <4>1, <4>2
    <3>3. QED BY <1>1, <1>4, <1>10, <1>17, <2>3, <3>1, <3>2
  <2>4. QED BY <2>2, <2>3
<1>18. CASE n # 0
  <2>1. CASE IsFar(Head(rs))
    BY <1>1, <1>4, <1>9, <1>10, <1>11, <1>12, <1>13, <1>14, <1>15, <1>18, <2>1
  <2>2. CASE ~ IsFar(Head(rs))
    <3>1. AskedOf(d) = <<Far("X86")>> \o Append(rs, r)
      BY <1>9, <1>12, <1>13, <1>14, <1>18, <2>2
    <3>2. AskedOf(c) = <<Far("X86")>> \o rs
      BY <1>11, <1>15, <1>18, <2>2
    <3>3. Append(<<Far("X86")>> \o rs, r) = <<Far("X86")>> \o Append(rs, r)
      BY <1>16, AppendProperties, ConcatAssociative
    <3>4. QED BY <1>1, <1>4, <1>10, <1>18, <3>1, <3>2, <3>3
  <2>3. QED BY <2>1, <2>2
<1>19. QED BY <1>17, <1>18

\* ToWrite, after any calls.
Written(c, r) == IF c # <<>> \/ IsFar(r) THEN Encode(r) ELSE Encode(Far("X86")) \o Encode(r)

\* One record more is one record's bytes more.
LEMMA FlatAppend ==
  ASSUME NEW records \in Seq(Record), NEW r \in Record
  PROVE  EncodeAll(Append(records, r)) = EncodeAll(records) \o Encode(r)
<1>1. PICK n \in Nat : n = Len(records)
  BY LenProperties
<1>2. PICK long : long = Append(records, r)
  OBVIOUS
<1>3. /\ long \in Seq(Record) /\ Len(long) = n + 1 /\ long[n + 1] = r
      /\ \A i \in 1 .. n : long[i] = records[i]
  BY <1>1, <1>2
<1>4. EncodeAll(records) \in Seq(Byte)
  BY FlatType
<1>5. Len(long) = Len(records) + 1 /\ \A i \in 1 .. Len(records) : long[i] = records[i]
  BY <1>1, <1>3
<1>6. EncodeAll(long) = EncodeAll(records) \o Encode(long[Len(records) + 1])
  BY <1>3, <1>4, <1>5, FlatGrows
<1>7. QED BY <1>1, <1>2, <1>3, <1>6

\* A call writes the bytes of what it asks for.
LEMMA FlatAsked ==
  ASSUME NEW c \in Seq(Call), NEW call \in Call
  PROVE  /\ Written(c, call.rec) \in Seq(Byte)
         /\ EncodeAll(AskedOf(Append(c, call))) = EncodeAll(AskedOf(c)) \o Written(c, call.rec)
         /\ \A i \in 0 .. Len(c) : Bytes(AskedOf(Append(c, call)), i) = Bytes(AskedOf(c), i)
<1>1. PICK r \in Record : r = call.rec
  BY DEF Call
<1>2. Encode(r) \in Seq(Byte) /\ Encode(Far("X86")) \in Seq(Byte)
  BY AFar, EncodeType
<1>3. AskedOf(c) \in Seq(Record) /\ Len(c) <= Len(AskedOf(c))
  BY AskedFacts
<1>4. CASE c # <<>> \/ IsFar(r)
  <2>1. Written(c, r) = Encode(r)
    BY <1>4 DEF Written
  <2>2. AskedOf(Append(c, call)) = Append(AskedOf(c), r)
    BY <1>1, <1>4, AskedGrows
  <2>3. PICK asked \in Seq(Record) : asked = AskedOf(c)
    BY <1>3
  <2>4. ASSUME NEW i \in 0 .. Len(c)
        PROVE  First(Append(asked, r), i) = First(asked, i)
    <3>1. Len(c) \in Nat /\ Len(asked) \in Nat /\ i \in 0 .. Len(asked)
      BY <1>3, <2>3, LenProperties
    <3>2. First(asked, i) \in Seq(Record) /\ Len(First(asked, i)) = i
      BY <3>1, FirstTypes
    <3>3. Append(asked, r) \in Seq(Record) /\ i \in 0 .. Len(Append(asked, r))
      BY <3>1
    <3>4. /\ First(Append(asked, r), i) \in Seq(Record)
          /\ Len(First(Append(asked, r), i)) = i
          /\ \A k \in 1 .. i : First(Append(asked, r), i)[k] = Append(asked, r)[k]
      BY <3>3, FirstTypes
    <3>5. \A k \in 1 .. i : First(asked, i)[k] = asked[k]
      BY <3>1, FirstTypes
    <3>6. \A k \in 1 .. i : Append(asked, r)[k] = asked[k]
      BY <3>1
    <3>7. QED BY <3>2, <3>4, <3>5, <3>6, SeqEqual
  <2>5. QED BY <1>1, <1>2, <2>1, <2>2, <2>3, <2>4, FlatAppend DEF Bytes
<1>5. CASE ~ (c # <<>> \/ IsFar(r))
  <2>1. Written(c, r) = Encode(Far("X86")) \o Encode(r)
    BY <1>5 DEF Written
  <2>2. AskedOf(Append(c, call)) = <<Far("X86"), r>> /\ AskedOf(c) = <<>> /\ c = <<>>
    BY <1>1, <1>5, AskedGrows, AskedFacts
  <2>3. <<Far("X86")>> \in Seq(Record) /\ <<>> \in Seq(Record)
    BY AFar
  <2>4. /\ <<Far("X86"), r>> = Append(<<Far("X86")>>, r)
        /\ <<Far("X86")>> = Append(<<>>, Far("X86"))
    BY TwoOf, AFar
  <2>5. EncodeAll(<<Far("X86"), r>>) = EncodeAll(<<Far("X86")>>) \o Encode(r)
    BY <2>3, <2>4, FlatAppend
  <2>6. EncodeAll(<<Far("X86")>>) = EncodeAll(<<>>) \o Encode(Far("X86"))
    BY <2>3, <2>4, FlatAppend, AFar
  <2>7. EncodeAll(<<>>) \o Encode(Far("X86")) = Encode(Far("X86"))
    BY <1>2, FlatOfNone, ConcatEmptySeq
  <2>8. Written(c, r) \in Seq(Byte)
    BY <1>2, <2>1, ConcatProperties
  <2>9. EncodeAll(<<Far("X86"), r>>) = EncodeAll(<<>>) \o Written(c, r)
    BY <2>1, <2>5, <2>6, <2>7, <2>8, FlatOfNone, ConcatEmptySeq
  <2>10. First(<<Far("X86"), r>>, 0) = <<>> /\ First(<<>>, 0) = <<>>
    BY SubSeqEmpty DEF First
  <2>11. \A i \in 0 .. Len(c) : i = 0
    BY <2>2
  <2>12. QED BY <1>1, <2>2, <2>8, <2>9, <2>10, <2>11 DEF Bytes
<1>6. QED BY <1>4, <1>5

----------------------------------------------------------------------------
(* The invariant                                                           *)

\* Every write has succeeded.
AllOk == \A i \in DOMAIN calls : calls[i].ok
\* What the properties ask of the caller.
Good == StopsAtFailure /\ Representable

\* The file is what was asked for, or how it begins.
WriterInv ==
  /\ file \in Seq(Byte)
  /\ calls \in Seq(Call)
  /\ wroteFar \in BOOLEAN
  /\ wroteFar <=> calls # <<>>
  /\ AllOk => file = EncodeAll(Asked)
  /\ StopsAtFailure =>
       /\ Begins(file, EncodeAll(Asked))
       /\ \A i \in 1 .. Len(calls) : calls[i].ok => Bytes(Asked, i) <= Len(file)

\* The reader has read nothing.
Untouched ==
  /\ pos = 0 /\ faults = 0 /\ readBack = <<>> /\ body = <<>> /\ header = NoHeader
  /\ sawFar = FALSE /\ endian = "X86"

\* The reader's variables keep their types.
ReaderType ==
  /\ phase \in {"writing", "header", "body", "end", "error"}
  /\ pos \in 0 .. Len(file)
  /\ sawFar \in BOOLEAN
  /\ endian \in {"X86", "M68000"}
  /\ header \in [rec : Record \cup {Garbled}, far : BOOLEAN, len : 0 .. LenMod - 1]
  /\ header.rec # Garbled => header.far = IsFar(header.rec)
  /\ body \in Seq(Byte) /\ Len(body) <= header.len
  /\ readBack \in Seq(Record \cup {Garbled})
  /\ faults \in 0 .. MaxFaults

\* How many records have been read.
Done == Len(readBack)
\* The record being read.
Current == Asked[Done + 1]

\* What has been read is what the records asked for are read as.
Rereads == \A i \in 1 .. Done : readBack[i] = Reread(Asked[i])

\* The reader is in a header, or behind a record that is read as nothing.
Refused ==
  \/ pos - Bytes(Asked, Done) \in 1 .. HeaderLength - 1
  \/ /\ Done < Len(Asked) /\ ParsesAs(Current) = "nothing"
     /\ pos - Bytes(Asked, Done) = HeaderLength + BodyLength(Current)

\* The reader stands behind the records it has read, or in the next one.
InPlace ==
  /\ Done <= Len(Asked)
  /\ Rereads
  /\ endian = "X86"
  /\ Done # 0 => sawFar
  /\ phase = "header" => pos = Bytes(Asked, Done)
  /\ phase = "body" =>
       /\ Done < Len(Asked)
       /\ header = [rec |-> Current, far |-> IsFar(Current), len |-> BodyLength(Current)]
       /\ \A k \in 1 .. Len(body) : body[k] = [rec |-> Current, at |-> HeaderLength + k]
       /\ pos = Bytes(Asked, Done) + HeaderLength + Len(body)
  /\ (phase = "end" /\ faults = 0) => pos = Len(file) /\ pos = Bytes(Asked, Done)
  /\ (phase = "error" /\ faults = 0 /\ AllOk) => Refused

\* The invariant of the specification.
StreamInv ==
  /\ WriterInv
  /\ ReaderType
  /\ phase = "writing" => Untouched
  /\ Good => InPlace

\* Nothing has been asked of a writer that has not been called.
LEMMA InitOk == Init => StreamInv
<1>1. SUFFICES ASSUME Init PROVE StreamInv
  OBVIOUS
<1>2. <<>> \in Seq(Call) /\ <<>> \in Seq(Byte) /\ <<>> \in Seq(Record \cup {Garbled})
  OBVIOUS
<1>3. Asked = <<>>
  BY <1>1, <1>2, AskedIs, AskedFacts DEF Init
<1>5. WriterInv
  <2>1. file = <<>> /\ calls = <<>> /\ wroteFar = FALSE
    BY <1>1 DEF Init
  <2>2. file = EncodeAll(Asked)
    BY <1>3, <2>1, FlatOfNone
  <2>3. Begins(file, EncodeAll(Asked))
    BY <2>1, <2>2 DEF Begins
  <2>4. \A i \in 1 .. Len(calls) : FALSE
    BY <2>1
  <2>5. file \in Seq(Byte) /\ calls \in Seq(Call) /\ wroteFar \in BOOLEAN
    BY <1>2, <2>1
  <2>6. wroteFar <=> calls # <<>>
    BY <2>1
  <2>7. QED BY <2>2, <2>3, <2>4, <2>5, <2>6, Zenon DEF WriterInv
<1>6. ReaderType
  <2>1. header = [rec |-> Garbled, far |-> FALSE, len |-> 0]
    BY <1>1 DEF Init, NoHeader
  <2>2. file = <<>> /\ phase = "writing" /\ pos = 0 /\ sawFar = FALSE /\ endian = "X86"
        /\ body = <<>> /\ readBack = <<>> /\ faults = 0
    BY <1>1 DEF Init
  <2>3. 0 \in 0 .. LenMod - 1 /\ 0 \in 0 .. MaxFaults
    BY ModulusAssumption, BoundAssumption
  <2>4. header.len = 0 /\ header.rec = Garbled
        /\ header \in [rec : Record \cup {Garbled}, far : BOOLEAN, len : 0 .. LenMod - 1]
    BY <2>1, <2>3
  <2>5. pos \in 0 .. Len(file) /\ Len(body) <= header.len
    BY <2>2, <2>4
  <2>6. phase \in {"writing", "header", "body", "end", "error"} /\ endian \in {"X86", "M68000"}
    BY <2>2
  <2>7. sawFar \in BOOLEAN /\ faults \in 0 .. MaxFaults
    BY <2>2, <2>3
  <2>8. body \in Seq(Byte) /\ readBack \in Seq(Record \cup {Garbled})
    BY <1>2, <2>2
  <2>9. QED BY <2>4, <2>5, <2>6, <2>7, <2>8, Zenon DEF ReaderType
<1>7. Untouched
  BY <1>1 DEF Init, Untouched
<1>8. InPlace
  <2>1. Done = 0 /\ readBack = <<>> /\ phase = "writing" /\ endian = "X86"
    BY <1>1 DEF Init, Done
  <2>2. Len(Asked) = 0
    BY <1>3
  <2>3. Rereads
    BY <2>1 DEF Rereads
  <2>4. QED BY <2>1, <2>2, <2>3 DEF InPlace
<1>9. QED BY <1>5, <1>6, <1>7, <1>8 DEF StreamInv

\* A part of what is added is how it all begins.
LEMMA BeginsWithPart ==
  ASSUME NEW s \in Seq(Byte), NEW t \in Seq(Byte), NEW n \in 0 .. Len(t)
  PROVE  /\ SubSeq(t, 1, n) \in Seq(Byte)
         /\ s \o SubSeq(t, 1, n) \in Seq(Byte)
         /\ Len(s) \in Nat /\ Len(s \o SubSeq(t, 1, n)) = Len(s) + n
         /\ Begins(s \o SubSeq(t, 1, n), s \o t)
         /\ n = Len(t) => SubSeq(t, 1, n) = t
<1>1. PICK part : part = SubSeq(t, 1, n)
  OBVIOUS
<1>2. part = First(t, n)
  BY <1>1 DEF First
<1>3. part \in Seq(Byte) /\ Len(part) = n /\ \A i \in 1 .. n : part[i] = t[i]
  BY <1>2, FirstTypes
<1>4. Len(s) \in Nat /\ Len(t) \in Nat
  BY LenProperties
<1>5. /\ s \o part \in Seq(Byte) /\ Len(s \o part) = Len(s) + n
      /\ \A i \in 1 .. Len(s) + n :
           (s \o part)[i] = IF i <= Len(s) THEN s[i] ELSE part[i - Len(s)]
  BY <1>3, ConcatProperties
<1>6. /\ Len(s \o t) = Len(s) + Len(t)
      /\ \A i \in 1 .. Len(s) + Len(t) :
           (s \o t)[i] = IF i <= Len(s) THEN s[i] ELSE t[i - Len(s)]
  BY ConcatProperties
<1>7. \A i \in 1 .. Len(s) + n : (s \o part)[i] = (s \o t)[i]
  <2>1. ASSUME NEW i \in 1 .. Len(s) + n
        PROVE  (s \o part)[i] = (s \o t)[i]
    <3>1. i \in 1 .. Len(s) + Len(t)
      BY <1>4
    <3>2. CASE i <= Len(s)
      BY <1>5, <1>6, <3>1, <3>2
    <3>3. CASE ~ (i <= Len(s))
      <4>1. i - Len(s) \in 1 .. n
        BY <1>4, <3>3
      <4>2. part[i - Len(s)] = t[i - Len(s)]
        BY <1>3, <4>1
      <4>3. QED BY <1>5, <1>6, <3>1, <3>3, <4>2
    <3>4. QED BY <3>2, <3>3
  <2>2. QED BY <2>1
<1>8. Begins(s \o part, s \o t)
  BY <1>4, <1>5, <1>6, <1>7 DEF Begins
<1>9. n = Len(t) => part = t
  BY <1>1, SubSeqFull
<1>10. QED BY <1>1, <1>3, <1>4, <1>5, <1>8, <1>9

\* Whatever part of its bytes a call has written, the file is still how what
\* was asked for begins; that is all of it while every write succeeds.
LEMMA CallKeeps ==
  ASSUME WriterInv, NEW r \in Record, NEW ok \in BOOLEAN,
         wroteFar' = TRUE, calls' = Append(calls, [rec |-> r, ok |-> ok]),
         NEW n \in 0 .. Len(ToWrite(r)), ok => n = Len(ToWrite(r)),
         file' = file \o SubSeq(ToWrite(r), 1, n)
  PROVE  WriterInv' /\ (Len(file) <= Len(file'))
<1>1. PICK c \in Seq(Call) : c = calls
  BY DEF WriterInv
<1>2. PICK call \in Call : call = [rec |-> r, ok |-> ok]
  BY DEF Call
<1>3. call.rec = r /\ call.ok = ok
  BY <1>2
<1>4. PICK d : d = Append(c, call)
  OBVIOUS
<1>5. PICK len \in Nat : len = Len(c)
  BY LenProperties
<1>6. d \in Seq(Call) /\ Len(d) = len + 1 /\ d[len + 1] = call /\ \A i \in 1 .. len : d[i] = c[i]
  BY <1>4, <1>5, AppendProperties
<1>7. calls' = d /\ calls = c
  BY <1>1, <1>2, <1>4
<1>8. PICK w : w = ToWrite(r)
  OBVIOUS
<1>9. w = Written(c, r)
  BY <1>1, <1>8 DEF ToWrite, Written, WriterInv
<1>10. PICK A : A = AskedOf(c)
  OBVIOUS
<1>11. PICK B : B = AskedOf(d)
  OBVIOUS
<1>12. Asked = A
  BY <1>1, <1>10, AskedIs
<1>13. Asked' = B
  BY <1>7, <1>11 DEF Asked, AskedOf, RecordsOf
<1>14. /\ A \in Seq(Record) /\ B \in Seq(Record)
       /\ len <= Len(A) /\ len + 1 <= Len(B)
  BY <1>5, <1>6, <1>10, <1>11, AskedFacts
<1>15. /\ w \in Seq(Byte) /\ EncodeAll(B) = EncodeAll(A) \o w
       /\ \A i \in 0 .. len : Bytes(B, i) = Bytes(A, i)
  BY <1>3, <1>4, <1>5, <1>9, <1>10, <1>11, FlatAsked
<1>16. PICK f \in Seq(Byte) : f = file
  BY DEF WriterInv
<1>17. PICK g : g = f \o SubSeq(w, 1, n)
  OBVIOUS
<1>18. file' = g /\ file = f
  BY <1>8, <1>16, <1>17
<1>19. /\ g \in Seq(Byte) /\ Len(f) \in Nat /\ Len(g) = Len(f) + n
       /\ Begins(g, f \o w) /\ (ok => g = f \o w)
  BY <1>8, <1>15, <1>16, <1>17, BeginsWithPart
<1>20. n \in Nat
  BY <1>8, <1>15, LenProperties
<1>21. DOMAIN c = 1 .. len /\ DOMAIN d = 1 .. len + 1
  BY <1>5, <1>6, LenProperties
<1>22. (AllOk' => AllOk /\ ok) /\ (StopsAtFailure' => AllOk)
  <2>1. ASSUME \A i \in DOMAIN d : d[i].ok
        PROVE  (\A i \in DOMAIN c : c[i].ok) /\ ok
    <3>1. d[len + 1].ok
      BY <1>21, <2>1
    <3>2. \A i \in 1 .. len : i \in 1 .. len + 1
      OBVIOUS
    <3>3. \A i \in 1 .. len : d[i].ok
      BY <1>21, <2>1, <3>2, Zenon
    <3>4. QED BY <1>3, <1>6, <1>21, <3>1, <3>3, Zenon
  <2>2. ASSUME \A i \in DOMAIN d : ~ d[i].ok => i = Len(d)
        PROVE  \A i \in DOMAIN c : c[i].ok
    <3>1. \A i \in 1 .. len : i # Len(d)
      BY <1>6
    <3>2. \A i \in 1 .. len : i \in 1 .. len + 1
      OBVIOUS
    <3>3. \A i \in 1 .. len : d[i].ok
      BY <1>21, <2>2, <3>1, <3>2, Zenon
    <3>4. QED BY <1>6, <1>21, <3>3, Zenon
  <2>3. AllOk' <=> \A i \in DOMAIN d : d[i].ok
    BY <1>7 DEF AllOk
  <2>4. AllOk <=> \A i \in DOMAIN c : c[i].ok
    BY <1>7 DEF AllOk
  <2>5. StopsAtFailure' <=> \A i \in DOMAIN d : ~ d[i].ok => i = Len(d)
    BY <1>7 DEF StopsAtFailure
  <2>6. QED BY <2>1, <2>2, <2>3, <2>4, <2>5
<1>23. AllOk => f = EncodeAll(A)
  BY <1>12, <1>18 DEF WriterInv
<1>24. AllOk' => g = EncodeAll(B)
  BY <1>15, <1>19, <1>22, <1>23
<1>25. StopsAtFailure' =>
         /\ Begins(g, EncodeAll(B))
         /\ \A i \in 1 .. len + 1 : d[i].ok => Bytes(B, i) <= Len(g)
  <2>1. SUFFICES ASSUME StopsAtFailure'
        PROVE  /\ Begins(g, EncodeAll(B))
               /\ \A i \in 1 .. len + 1 : d[i].ok => Bytes(B, i) <= Len(g)
    OBVIOUS
  <2>2. f = EncodeAll(A)
    BY <1>22, <1>23, <2>1
  <2>3. Begins(g, EncodeAll(B))
    BY <1>15, <1>19, <2>2
  <2>4. ASSUME NEW i \in 1 .. len + 1, d[i].ok
        PROVE  Bytes(B, i) <= Len(g)
    <3>1. CASE i <= len
      <4>1. Bytes(B, i) = Bytes(A, i)
        BY <1>15, <3>1
      <4>2. Begins(EncodeAll(First(A, i)), EncodeAll(First(A, Len(A)))) /\ Bytes(A, i) \in Nat
        <5>1. Len(A) \in Nat /\ i \in Nat /\ Len(A) \in i .. Len(A)
          BY <1>14, <3>1, LenProperties
        <5>2. QED BY <1>14, <5>1, FlatBegins
      <4>3. First(A, Len(A)) = A
        BY <1>14, SubSeqFull DEF First
      <4>4. Bytes(A, i) <= Len(f)
        BY <2>2, <4>2, <4>3 DEF Begins, Bytes
      <4>5. QED BY <1>19, <1>20, <4>1, <4>2, <4>4
    <3>2. CASE i = len + 1
      <4>1. g = EncodeAll(B)
        BY <1>3, <1>6, <1>15, <1>19, <2>2, <2>4, <3>2
      <4>2. Begins(EncodeAll(First(B, i)), EncodeAll(First(B, Len(B))))
        <5>1. Len(B) \in Nat /\ i \in Nat /\ Len(B) \in i .. Len(B)
          BY <1>14, <3>2, LenProperties
        <5>2. QED BY <1>14, <5>1, FlatBegins
      <4>3. First(B, Len(B)) = B
        BY <1>14, SubSeqFull DEF First
      <4>4. QED BY <4>1, <4>2, <4>3 DEF Begins, Bytes
    <3>3. QED BY <3>1, <3>2
  <2>5. QED BY <2>3, <2>4
<1>26. calls' # <<>>
  BY <1>4, <1>7, AppendProperties
<1>27. Len(calls') = len + 1
  BY <1>6, <1>7
<1>28. WriterInv'
  BY <1>6, <1>7, <1>13, <1>18, <1>19, <1>24, <1>25, <1>26, <1>27 DEF WriterInv
<1>29. QED BY <1>18, <1>19, <1>20, <1>28

\* The reader leaves the writer's variables alone.
LEMMA WriterStays ==
  ASSUME WriterInv, UNCHANGED writerVars
  PROVE  WriterInv' /\ Asked' = Asked /\ (Good' <=> Good) /\ (AllOk' <=> AllOk)
<1>1. file' = file /\ wroteFar' = wroteFar /\ calls' = calls
  BY DEF writerVars
<1>2. Asked' = Asked
  BY <1>1 DEF Asked
<1>3. StopsAtFailure' <=> StopsAtFailure
  BY <1>1 DEF StopsAtFailure
<1>4. Representable' <=> Representable
  BY <1>1 DEF Representable
<1>5. AllOk' <=> AllOk
  BY <1>1 DEF AllOk
<1>6. WriterInv'
  BY <1>1, <1>2, <1>3, <1>5, Zenon DEF WriterInv
<1>7. QED BY <1>2, <1>3, <1>4, <1>5, <1>6 DEF Good

\* What a file that any reader can place holds of the record after the first n.
LEMMA NextRecord ==
  ASSUME WriterInv, Good, NEW n \in Nat, n < Len(Asked), NEW r, r = Asked[n + 1]
  PROVE  /\ r \in Record /\ r # Far("M68000")
         /\ BodyLength(r) \in Nat /\ BodyLength(r) < LenMod
         /\ n = 0 => IsFar(r)
         /\ Bytes(Asked, n) \in Nat /\ Len(file) \in Nat
         /\ AllOk => Bytes(Asked, n) + HeaderLength + BodyLength(r) <= Len(file)
         /\ \A k \in 1 .. HeaderLength + BodyLength(r) :
              Bytes(Asked, n) + k <= Len(file) =>
                file[Bytes(Asked, n) + k] = [rec |-> r, at |-> k]
<1>1. PICK c \in Seq(Call) : c = calls
  BY DEF WriterInv
<1>2. PICK A : A = AskedOf(c)
  OBVIOUS
<1>3. Asked = A
  BY <1>1, <1>2, AskedIs
<1>4. /\ A \in Seq(Record)
      /\ c = <<>> => A = <<>>
      /\ c # <<>> => IsFar(A[1])
      /\ \A j \in 1 .. Len(A) : A[j] = Far("X86") \/ \E i \in 1 .. Len(c) : A[j] = c[i].rec
  BY <1>2, AskedFacts
<1>5. Len(A) \in Nat /\ n < Len(A) /\ n + 1 \in 1 .. Len(A) /\ r = A[n + 1]
  BY <1>3, <1>4, LenProperties
<1>6. r \in Record
  BY <1>4, <1>5, ElementOfSeq
<1>7. BodyLength(r) \in Nat
  BY <1>6, RecordFacts
<1>8. DOMAIN c = 1 .. Len(c)
  BY LenProperties
<1>9. \A i \in 1 .. Len(c) : c[i].rec # Far("M68000") /\ BodyLength(c[i].rec) < LenMod
  BY <1>1, <1>8, Zenon DEF Good, Representable
<1>10. Far("X86") # Far("M68000") /\ BodyLength(Far("X86")) < LenMod
  <2>1. Far("X86").of # Far("M68000").of
    BY DEF Far
  <2>2. QED BY <2>1, AFar, ModulusAssumption
<1>11. r # Far("M68000") /\ BodyLength(r) < LenMod
  BY <1>4, <1>5, <1>9, <1>10, Zenon
<1>12. n = 0 => IsFar(r)
  <2>1. A = <<>> => Len(A) = 0
    OBVIOUS
  <2>2. QED BY <1>4, <1>5, <2>1
<1>13. /\ Bytes(A, n) \in Nat
       /\ Len(EncodeAll(A)) \in Nat
       /\ Bytes(A, n) + HeaderLength + BodyLength(r) <= Len(EncodeAll(A))
       /\ \A k \in 1 .. HeaderLength + BodyLength(r) :
            EncodeAll(A)[Bytes(A, n) + k] = [rec |-> r, at |-> k]
  BY <1>4, <1>5, AtPlace
<1>14. Len(file) \in Nat
  BY LenProperties DEF WriterInv
<1>15. Begins(file, EncodeAll(A)) /\ (AllOk => file = EncodeAll(A))
  BY <1>3 DEF WriterInv, Good
<1>16. ASSUME NEW k \in 1 .. HeaderLength + BodyLength(r), Bytes(A, n) + k <= Len(file)
       PROVE  file[Bytes(A, n) + k] = [rec |-> r, at |-> k]
  <2>1. Bytes(A, n) + k \in 1 .. Len(file)
    BY <1>7, <1>13, <1>14, <1>16 DEF HeaderLength
  <2>2. file[Bytes(A, n) + k] = EncodeAll(A)[Bytes(A, n) + k]
    BY <1>15, <2>1 DEF Begins
  <2>3. QED BY <1>13, <2>2
<1>17. AllOk => Bytes(A, n) + HeaderLength + BodyLength(r) <= Len(file)
  BY <1>13, <1>15
<1>18. QED BY <1>3, <1>6, <1>7, <1>11, <1>12, <1>13, <1>14, <1>16, <1>17

\* What was asked for has no more bytes than its records.
LEMMA AllRecords ==
  ASSUME WriterInv
  PROVE  /\ Asked \in Seq(Record) /\ Len(Asked) \in Nat
         /\ Bytes(Asked, Len(Asked)) = Len(EncodeAll(Asked))
         /\ \A n \in 0 .. Len(Asked) : Bytes(Asked, n) \in Nat
<1>1. PICK A \in Seq(Record) : A = Asked
  BY AskedIs, AskedFacts DEF WriterInv
<1>2. Len(A) \in Nat
  BY LenProperties
<1>3. First(A, Len(A)) = A
  BY SubSeqFull DEF First
<1>4. ASSUME NEW n \in 0 .. Len(A)
      PROVE  Bytes(A, n) \in Nat
  <2>1. First(A, n) \in Seq(Record)
    BY <1>2, FirstTypes
  <2>2. EncodeAll(First(A, n)) \in Seq(Byte)
    BY <2>1, FlatType
  <2>3. QED BY <2>2, LenProperties DEF Bytes
<1>5. QED BY <1>1, <1>2, <1>3, <1>4 DEF Bytes

\* A record's header and its body, byte by byte.
LEMMA PartsFacts ==
  ASSUME NEW r \in Record
  PROVE  /\ HeaderBytes(r) \in Seq(Byte) /\ Len(HeaderBytes(r)) = HeaderLength
         /\ \A k \in 1 .. HeaderLength : HeaderBytes(r)[k] = [rec |-> r, at |-> k]
         /\ BodyBytes(r) \in Seq(Byte) /\ Len(BodyBytes(r)) = BodyLength(r)
         /\ \A k \in 1 .. BodyLength(r) : BodyBytes(r)[k] = [rec |-> r, at |-> HeaderLength + k]
<1>1. PICK e : e = Encode(r)
  OBVIOUS
<1>2. PICK n \in Nat : n = BodyLength(r)
  BY RecordFacts
<1>3. e \in Seq(Byte) /\ \A k \in 1 .. 4 + n : e[k] = [rec |-> r, at |-> k]
  BY <1>1, <1>2, EncodeType DEF HeaderLength
<1>4. Len(e) = 4 + n
  BY <1>1, <1>2, EncodeType DEF HeaderLength
<1>5. \A k \in 1 .. 4 + n : e[k] \in Byte
  BY <1>3, <1>4, ElementOfSeq
<1>6. /\ SubSeq(e, 1, 4) \in Seq(Byte) /\ Len(SubSeq(e, 1, 4)) = 4
      /\ \A k \in 1 .. 4 : SubSeq(e, 1, 4)[k] = e[k]
  <2>1. \A k \in 1 .. 4 : e[k] \in Byte
    BY <1>5
  <2>2. /\ SubSeq(e, 1, 4) \in Seq(Byte)
        /\ Len(SubSeq(e, 1, 4)) = IF 1 <= 4 THEN 4 - 1 + 1 ELSE 0
        /\ \A k \in 1 .. 4 - 1 + 1 : SubSeq(e, 1, 4)[k] = e[1 + k - 1]
    BY <2>1, SubSeqProperties
  <2>3. QED BY <2>2
<1>7. /\ SubSeq(e, 5, 4 + n) \in Seq(Byte) /\ Len(SubSeq(e, 5, 4 + n)) = n
      /\ \A k \in 1 .. n : SubSeq(e, 5, 4 + n)[k] = e[4 + k]
  <2>1. \A k \in 5 .. 4 + n : e[k] \in Byte
    BY <1>5
  <2>2. /\ SubSeq(e, 5, 4 + n) \in Seq(Byte)
        /\ Len(SubSeq(e, 5, 4 + n)) = IF 5 <= 4 + n THEN 4 + n - 5 + 1 ELSE 0
        /\ \A k \in 1 .. 4 + n - 5 + 1 : SubSeq(e, 5, 4 + n)[k] = e[5 + k - 1]
    BY <2>1, SubSeqProperties
  <2>3. QED BY <2>2
<1>8. HeaderBytes(r) = SubSeq(e, 1, 4) /\ BodyBytes(r) = SubSeq(e, 5, 4 + n)
  BY <1>1, <1>2 DEF HeaderBytes, BodyBytes, HeaderLength
<1>9. \A k \in 1 .. 4 : SubSeq(e, 1, 4)[k] = [rec |-> r, at |-> k]
  <2>1. \A k \in 1 .. 4 : k \in 1 .. 4 + n
    OBVIOUS
  <2>2. QED BY <1>3, <1>6, <2>1, Zenon
<1>10. \A k \in 1 .. n : SubSeq(e, 5, 4 + n)[k] = [rec |-> r, at |-> 4 + k]
  BY <1>3, <1>7
<1>11. QED BY <1>2, <1>6, <1>7, <1>8, <1>9, <1>10 DEF HeaderLength

\* Four bytes say a header, and those of a record's header say that one's.
LEMMA HeadersFacts ==
  ASSUME NEW bytes, NEW h \in Headers(bytes)
  PROVE  /\ h \in [rec : Record \cup {Garbled}, far : BOOLEAN, len : 0 .. LenMod - 1]
         /\ h.rec # Garbled => h.far = IsFar(h.rec)
         /\ \A r \in Record : bytes = HeaderBytes(r) =>
              h = [rec |-> r, far |-> IsFar(r), len |-> RecLen(r)]
<1>1. CASE \E r \in Record : bytes = HeaderBytes(r)
  <2>1. ASSUME NEW r \in Record, bytes = HeaderBytes(r)
        PROVE  h = [rec |-> r, far |-> IsFar(r), len |-> RecLen(r)]
    <3>1. bytes[1] = [rec |-> r, at |-> 1]
      <4>1. 1 \in 1 .. HeaderLength
        BY DEF HeaderLength
      <4>2. HeaderBytes(r)[1] = [rec |-> r, at |-> 1]
        BY <4>1, PartsFacts, Zenon
      <4>3. QED BY <2>1, <4>2, Zenon
    <3>2. bytes[1].rec = r
      BY <3>1
    <3>3. QED BY <1>1, <3>2 DEF Headers
  <2>2. PICK r \in Record : bytes = HeaderBytes(r)
    BY <1>1
  <2>3. h = [rec |-> r, far |-> IsFar(r), len |-> RecLen(r)]
    BY <2>1, <2>2
  <2>4. RecLen(r) \in 0 .. LenMod - 1
    BY RecordFacts, ModulusAssumption DEF RecLen
  <2>5. IsFar(r) \in BOOLEAN
    BY DEF IsFar
  <2>6. h.rec = r /\ h.far = IsFar(r)
    BY <2>3
  <2>7. h \in [rec : Record \cup {Garbled}, far : BOOLEAN, len : 0 .. LenMod - 1]
    BY <2>3, <2>4, <2>5
  <2>8. QED BY <2>1, <2>6, <2>7
<1>2. CASE ~ \E r \in Record : bytes = HeaderBytes(r)
  <2>1. h \in [rec : {Garbled}, far : BOOLEAN, len : 0 .. LenMod - 1]
    BY <1>2 DEF Headers
  <2>2. h.rec = Garbled
    BY <2>1
  <2>3. QED BY <1>2, <2>1, <2>2
<1>3. QED BY <1>1, <1>2

----------------------------------------------------------------------------
(* The steps                                                               *)

\* A write, whole or in part, leaves a reader that has not begun.
LEMMA WritesOk ==
  ASSUME StreamInv, NEW r \in Record, NEW ok \in BOOLEAN, Calls(r, ok),
         NEW n \in 0 .. Len(ToWrite(r)), ok => n = Len(ToWrite(r)),
         file' = file \o SubSeq(ToWrite(r), 1, n), UNCHANGED <<phase, readerVars>>
  PROVE  StreamInv'
<1>1. WriterInv' /\ Len(file) <= Len(file')
  BY CallKeeps DEF StreamInv, Calls
<1>2. phase = "writing" /\ phase' = phase /\ Untouched
  BY DEF StreamInv, Calls
<1>3. /\ pos' = pos /\ sawFar' = sawFar /\ endian' = endian /\ header' = header
      /\ body' = body /\ readBack' = readBack /\ faults' = faults
  BY DEF readerVars
<1>4. Untouched'
  BY <1>2, <1>3 DEF Untouched, NoHeader
<1>5. ReaderType'
  <2>1. Len(file') \in Nat /\ Len(file) \in Nat
    BY <1>1, LenProperties DEF StreamInv, WriterInv
  <2>2. pos' \in 0 .. Len(file')
    BY <1>1, <1>3, <2>1 DEF StreamInv, ReaderType
  <2>3. QED BY <1>2, <1>3, <2>2, Zenon DEF StreamInv, ReaderType
<1>6. InPlace'
  <2>1. readBack' = <<>> /\ endian' = "X86" /\ phase' = "writing"
    BY <1>2, <1>3 DEF Untouched
  <2>2. Done' = 0
    BY <2>1 DEF Done
  <2>3. PICK A \in Seq(Record) : A = Asked'
    <3>1. \A c \in Seq(Call) : AskedOf(c) \in Seq(Record)
      BY AskedFacts
    <3>2. Asked' = AskedOf(calls')
      BY DEF Asked, AskedOf, RecordsOf
    <3>3. QED BY <1>1, <3>1, <3>2 DEF WriterInv
  <2>4. Len(A) \in Nat
    BY LenProperties
  <2>5. Rereads'
    BY <2>2 DEF Rereads
  <2>6. QED BY <2>1, <2>2, <2>3, <2>4, <2>5 DEF InPlace
<1>7. QED BY <1>1, <1>4, <1>5, <1>6, <1>2 DEF StreamInv

\* read_all returning leaves the reader where it is, or inside a header.
LEMMA Returns ==
  ASSUME StreamInv, NEW result \in {"end", "error"}, EndsWith(result),
         pos' \in pos .. Len(file), faults' \in 0 .. MaxFaults,
         (Good /\ faults' = 0) =>
            IF result = "end" THEN pos' = Len(file) /\ pos' = Bytes(Asked, Done)
            ELSE AllOk => pos' - Bytes(Asked, Done) \in 1 .. HeaderLength - 1
  PROVE  StreamInv'
<1>1. UNCHANGED writerVars
  BY DEF EndsWith
<1>2. /\ phase' = result /\ sawFar' = sawFar /\ endian' = endian /\ header' = header
      /\ body' = body /\ readBack' = readBack
  BY DEF EndsWith
<1>3. /\ WriterInv' /\ Asked' = Asked
      /\ (Good' <=> Good) /\ (AllOk' <=> AllOk)
  BY <1>1, WriterStays DEF StreamInv
<1>4. file' = file
  BY <1>1 DEF writerVars
<1>5. ReaderType'
  <2>1. pos' \in 0 .. Len(file)
    BY LenProperties DEF StreamInv, WriterInv, ReaderType
  <2>2. phase' \in {"writing", "header", "body", "end", "error"}
    BY <1>2
  <2>3. QED BY <1>2, <1>4, <2>1, <2>2, Zenon DEF StreamInv, ReaderType
<1>6. ASSUME Good
      PROVE  InPlace'
  <2>1. Done' = Done
    BY <1>2 DEF Done
  <2>2. phase' # "header" /\ phase' # "body"
    BY <1>2
  <2>3. InPlace
    BY <1>6 DEF StreamInv
  <2>4. Bytes(Asked', Done') = Bytes(Asked, Done)
    BY <1>3, <2>1
  <2>5. (phase' = "end" /\ faults' = 0) => pos' = Len(file') /\ pos' = Bytes(Asked', Done')
    BY <1>2, <1>4, <1>6, <2>4
  <2>6. (phase' = "error" /\ faults' = 0 /\ AllOk') => Refused'
    BY <1>2, <1>3, <1>6, <2>4 DEF Refused
  <2>7. /\ Done' <= Len(Asked')
        /\ endian' = "X86" /\ (Done' # 0 => sawFar')
    BY <1>2, <1>3, <2>1, <2>3 DEF InPlace
  <2>8. Rereads'
    BY <1>2, <1>3, <2>1, <2>3 DEF InPlace, Rereads
  <2>9. QED BY <2>2, <2>5, <2>6, <2>7, <2>8, Zenon DEF InPlace
<1>7. phase' # "writing"
  BY <1>2
<1>8. QED BY <1>3, <1>5, <1>6, <1>7 DEF StreamInv

\* What the invariant says of where the reader stands.
LEMMA ReaderFacts ==
  ASSUME StreamInv
  PROVE  /\ Len(file) \in Nat /\ pos \in Nat /\ pos <= Len(file)
         /\ faults \in Nat /\ faults \in 0 .. MaxFaults /\ MaxFaults \in Nat
         /\ Len(body) \in Nat /\ header.len \in Nat /\ Len(body) <= header.len
         /\ Done \in Nat
         /\ Good => /\ Bytes(Asked, Done) \in Nat
                    /\ Len(Asked) \in Nat /\ Done <= Len(Asked)
<1>1. Len(file) \in Nat /\ pos \in 0 .. Len(file)
  BY LenProperties DEF StreamInv, WriterInv, ReaderType
<1>2. Len(body) \in Nat /\ Done \in Nat
  BY LenProperties DEF StreamInv, ReaderType, Done
<1>3. header.len \in Nat /\ Len(body) <= header.len
  BY ModulusAssumption DEF StreamInv, ReaderType
<1>4. faults \in 0 .. MaxFaults /\ MaxFaults \in Nat
  BY BoundAssumption DEF StreamInv, ReaderType
<1>5. Good => Done <= Len(Asked)
  BY DEF StreamInv, InPlace
<1>6. Len(Asked) \in Nat /\ \A n \in 0 .. Len(Asked) : Bytes(Asked, n) \in Nat
  BY AllRecords DEF StreamInv
<1>7. QED BY <1>1, <1>2, <1>3, <1>4, <1>5, <1>6

\* The end of the file comes behind the records read.
LEMMA EndOk == ASSUME StreamInv, ReadsEnd PROVE StreamInv'
<1>1. phase = "header" /\ pos' = pos /\ faults' = faults /\ EndsWith("end")
  BY DEF ReadsEnd
<1>2. pos = Len(file)
  BY ReaderFacts DEF ReadsEnd, Available
<1>3. Good => pos = Bytes(Asked, Done)
  BY <1>1 DEF StreamInv, InPlace
<1>4. pos' \in pos .. Len(file) /\ faults' \in 0 .. MaxFaults
  BY <1>1, <1>2, ReaderFacts
<1>5. QED BY <1>1, <1>2, <1>3, <1>4, Returns

\* A short header leaves the reader inside it.
LEMMA ShortOk == ASSUME StreamInv, ShortHeader PROVE StreamInv'
<1>1. phase = "header" /\ faults' = faults /\ EndsWith("error")
  BY DEF ShortHeader
<1>2. PICK n \in ReadSizes(HeaderLength) : n < HeaderLength /\ pos' = pos + n
  BY DEF ShortHeader
<1>3. n \in 1 .. HeaderLength - 1 /\ pos' \in pos .. Len(file)
  BY <1>2, ReaderFacts DEF ReadSizes, Available, HeaderLength
<1>4. Good => pos = Bytes(Asked, Done)
  BY <1>1 DEF StreamInv, InPlace
<1>5. Good => pos' - Bytes(Asked, Done) \in 1 .. HeaderLength - 1
  BY <1>2, <1>3, <1>4, ReaderFacts DEF HeaderLength
<1>6. faults' \in 0 .. MaxFaults
  BY <1>1, ReaderFacts
<1>7. QED BY <1>1, <1>3, <1>5, <1>6, Returns

\* A read that fails ends the reading, and is counted.
LEMMA FaultsOk == ASSUME StreamInv, Interrupted \/ ReadFails PROVE StreamInv'
<1>1. faults < MaxFaults /\ faults' = faults + 1 /\ pos' = pos
  BY DEF Interrupted, ReadFails
<1>2. PICK result \in {"end", "error"} : EndsWith(result)
  BY DEF Interrupted, ReadFails
<1>3. faults' # 0 /\ faults' \in 0 .. MaxFaults /\ pos' \in pos .. Len(file)
  BY <1>1, ReaderFacts
<1>4. QED BY <1>2, <1>3, Returns

\* A file whose writes have all succeeded does not end inside a body.
LEMMA CutOk == ASSUME StreamInv, BodyCut PROVE StreamInv'
<1>1. phase = "body" /\ pos' = pos /\ faults' = faults /\ EndsWith("error")
  BY DEF BodyCut
<1>2. pos = Len(file) /\ Len(body) < header.len
  BY ReaderFacts DEF BodyCut, Available
<1>3. pos' \in pos .. Len(file) /\ faults' \in 0 .. MaxFaults
  BY <1>1, <1>2, ReaderFacts
<1>4. Good => ~ AllOk
  <2>1. SUFFICES ASSUME Good, AllOk PROVE FALSE
    OBVIOUS
  <2>2. PICK r : r = Asked[Done + 1]
    OBVIOUS
  <2>3. /\ Done < Len(Asked) /\ header.len = BodyLength(r)
        /\ pos = Bytes(Asked, Done) + HeaderLength + Len(body)
    BY <1>1, <2>1, <2>2 DEF StreamInv, InPlace, Current
  <2>4. /\ Bytes(Asked, Done) + HeaderLength + BodyLength(r) <= Len(file)
        /\ BodyLength(r) \in Nat
    BY <2>1, <2>2, <2>3, NextRecord, ReaderFacts DEF StreamInv
  <2>5. QED BY <1>2, <2>1, <2>3, <2>4, ReaderFacts DEF HeaderLength
<1>5. QED BY <1>1, <1>3, <1>4, Returns

\* A file that is opened is read from its start.
LEMMA ClosesOk == ASSUME StreamInv, Closes PROVE StreamInv'
<1>1. /\ phase = "writing" /\ phase' = "header" /\ UNCHANGED writerVars
      /\ pos' = pos /\ sawFar' = sawFar /\ endian' = endian /\ header' = header
      /\ body' = body /\ readBack' = readBack /\ faults' = faults
  BY DEF Closes, readerVars
<1>2. /\ WriterInv' /\ Asked' = Asked
      /\ (Good' <=> Good) /\ (AllOk' <=> AllOk)
  BY <1>1, WriterStays DEF StreamInv
<1>3. file' = file
  BY <1>1 DEF writerVars
<1>4. ReaderType'
  <2>1. phase' \in {"writing", "header", "body", "end", "error"}
    BY <1>1
  <2>2. QED BY <1>1, <1>3, <2>1, Zenon DEF StreamInv, ReaderType
<1>5. pos = 0 /\ readBack = <<>>
  BY <1>1 DEF StreamInv, Untouched
<1>6. First(Asked, 0) = <<>>
  BY SubSeqEmpty DEF First
<1>7. Done = 0 /\ Done' = 0
  BY <1>1, <1>5 DEF Done
<1>8. pos' = Bytes(Asked', Done')
  <2>1. Bytes(Asked, 0) = 0
    BY <1>6, FlatOfNone DEF Bytes
  <2>2. QED BY <1>1, <1>2, <1>5, <1>7, <2>1
<1>9. ASSUME Good
      PROVE  InPlace'
  <2>1. /\ Done' <= Len(Asked')
        /\ endian' = "X86" /\ (Done' # 0 => sawFar')
    BY <1>1, <1>2, <1>7, <1>9 DEF StreamInv, InPlace
  <2>2. phase' # "body" /\ phase' # "end" /\ phase' # "error"
    BY <1>1
  <2>3. Rereads'
    BY <1>7 DEF Rereads
  <2>4. QED BY <1>8, <2>1, <2>2, <2>3, Zenon DEF InPlace
<1>10. phase' # "writing"
  BY <1>1
<1>11. QED BY <1>2, <1>4, <1>9, <1>10 DEF StreamInv

\* The bytes from a place on.
LEMMA BytesFrom ==
  ASSUME NEW f \in Seq(Byte), NEW p \in Nat, NEW n \in Nat, p + n <= Len(f)
  PROVE  /\ SubSeq(f, p + 1, p + n) \in Seq(Byte)
         /\ Len(SubSeq(f, p + 1, p + n)) = n
         /\ \A k \in 1 .. n : SubSeq(f, p + 1, p + n)[k] = f[p + k]
<1>1. Len(f) \in Nat
  BY LenProperties
<1>2. \A k \in p + 1 .. p + n : f[k] \in Byte
  BY <1>1, ElementOfSeq
<1>3. /\ SubSeq(f, p + 1, p + n) \in Seq(Byte)
      /\ Len(SubSeq(f, p + 1, p + n)) = IF p + 1 <= p + n THEN p + n - (p + 1) + 1 ELSE 0
      /\ \A k \in 1 .. p + n - (p + 1) + 1 : SubSeq(f, p + 1, p + n)[k] = f[p + 1 + k - 1]
  BY <1>2, SubSeqProperties
<1>4. p + n - (p + 1) + 1 = n /\ \A k \in 1 .. n : p + 1 + k - 1 = p + k
  OBVIOUS
<1>5. QED BY <1>3, <1>4

\* A whole header behind the records read is the next record's.
LEMMA HeaderOk == ASSUME StreamInv, ReadsHeader PROVE StreamInv'
<1>1. PICK bytes : bytes = SubSeq(file, pos + 1, pos + HeaderLength)
  OBVIOUS
<1>2. PICK h \in Headers(bytes) : h = header'
  BY <1>1 DEF ReadsHeader
<1>3. /\ phase = "header" /\ Available >= HeaderLength /\ pos' = pos + HeaderLength
      /\ phase' = IF sawFar \/ h.far THEN "body" ELSE "error"
      /\ body' = <<>> /\ UNCHANGED writerVars
      /\ sawFar' = sawFar /\ endian' = endian /\ readBack' = readBack /\ faults' = faults
  BY <1>2 DEF ReadsHeader
<1>4. pos + HeaderLength <= Len(file) /\ pos' \in 0 .. Len(file)
  BY <1>3, ReaderFacts DEF Available, HeaderLength
<1>5. /\ WriterInv' /\ Asked' = Asked
      /\ (Good' <=> Good) /\ (AllOk' <=> AllOk)
  BY <1>3, WriterStays DEF StreamInv
<1>6. file' = file
  BY <1>3 DEF writerVars
<1>7. /\ h \in [rec : Record \cup {Garbled}, far : BOOLEAN, len : 0 .. LenMod - 1]
      /\ h.rec # Garbled => h.far = IsFar(h.rec)
      /\ \A r \in Record : bytes = HeaderBytes(r) =>
           h = [rec |-> r, far |-> IsFar(r), len |-> RecLen(r)]
  BY HeadersFacts
<1>8. ReaderType'
  <2>1. phase' \in {"writing", "header", "body", "end", "error"}
    BY <1>3
  <2>2. body' \in Seq(Byte) /\ Len(body') <= header'.len
    BY <1>2, <1>3, <1>7, ModulusAssumption
  <2>3. /\ header' \in [rec : Record \cup {Garbled}, far : BOOLEAN, len : 0 .. LenMod - 1]
        /\ header'.rec # Garbled => header'.far = IsFar(header'.rec)
    BY <1>2, <1>7
  <2>4. QED BY <1>3, <1>4, <1>6, <2>1, <2>2, <2>3, Zenon DEF StreamInv, ReaderType
<1>9. ASSUME Good
      PROVE  InPlace'
  <2>1. PICK n \in Nat : n = Done
    BY ReaderFacts
  <2>2. /\ n <= Len(Asked) /\ Rereads /\ endian = "X86"
        /\ (n # 0 => sawFar) /\ pos = Bytes(Asked, n)
    BY <1>3, <1>9, <2>1 DEF StreamInv, InPlace
  <2>3. n < Len(Asked)
    <3>1. Begins(file, EncodeAll(Asked))
      BY <1>9 DEF StreamInv, WriterInv, Good
    <3>2. n # Len(Asked)
      BY <1>4, <2>2, <3>1, ReaderFacts, AllRecords DEF StreamInv, Begins, HeaderLength
    <3>3. QED BY <2>2, <3>2, AllRecords DEF StreamInv
  <2>4. PICK r : r = Asked[n + 1]
    OBVIOUS
  <2>5. /\ r \in Record /\ BodyLength(r) \in Nat /\ BodyLength(r) < LenMod
        /\ n = 0 => IsFar(r)
        /\ \A k \in 1 .. HeaderLength + BodyLength(r) :
             Bytes(Asked, n) + k <= Len(file) =>
               file[Bytes(Asked, n) + k] = [rec |-> r, at |-> k]
    BY <1>9, <2>3, <2>4, NextRecord DEF StreamInv
  <2>6. bytes = HeaderBytes(r)
    <3>1. file \in Seq(Byte) /\ pos \in Nat /\ HeaderLength \in Nat
      BY ReaderFacts DEF StreamInv, WriterInv, HeaderLength
    <3>2. /\ bytes \in Seq(Byte) /\ Len(bytes) = HeaderLength
          /\ \A k \in 1 .. HeaderLength : bytes[k] = file[pos + k]
      BY <1>1, <1>4, <3>1, BytesFrom
    <3>3. ASSUME NEW k \in 1 .. HeaderLength
          PROVE  bytes[k] = HeaderBytes(r)[k]
      <4>1. k \in 1 .. HeaderLength + BodyLength(r) /\ pos + k <= Len(file)
        BY <1>4, <2>5, ReaderFacts DEF HeaderLength
      <4>2. file[pos + k] = [rec |-> r, at |-> k]
        BY <2>2, <2>5, <4>1
      <4>3. HeaderBytes(r)[k] = [rec |-> r, at |-> k]
        BY <2>5, PartsFacts
      <4>4. QED BY <3>2, <4>2, <4>3
    <3>4. HeaderBytes(r) \in Seq(Byte) /\ Len(HeaderBytes(r)) = HeaderLength
      BY <2>5, PartsFacts
    <3>5. QED BY <3>2, <3>3, <3>4, SeqEqual
  <2>7. h = [rec |-> r, far |-> IsFar(r), len |-> BodyLength(r)]
    <3>1. RecLen(r) = BodyLength(r)
      BY <2>5, ModulusAssumption DEF RecLen
    <3>2. QED BY <1>7, <2>5, <2>6, <3>1
  <2>8. phase' = "body"
    <3>1. sawFar \/ h.far
      BY <2>2, <2>5, <2>7
    <3>2. QED BY <1>3, <3>1
  <2>9. Done' = n
    BY <1>3, <2>1 DEF Done
  <2>10. Current' = r
    BY <1>5, <2>4, <2>9 DEF Current
  <2>11. header' = [rec |-> r, far |-> IsFar(r), len |-> BodyLength(r)]
    BY <1>2, <2>7
  <2>12. \A k \in 1 .. Len(body') : FALSE
    BY <1>3
  <2>13. pos' = Bytes(Asked', Done') + HeaderLength + Len(body')
    BY <1>3, <1>5, <2>2, <2>9, ReaderFacts DEF HeaderLength
  <2>14. /\ Done' <= Len(Asked')
         /\ endian' = "X86" /\ (Done' # 0 => sawFar') /\ Done' < Len(Asked')
    BY <1>3, <1>5, <2>2, <2>3, <2>9
  <2>15. phase' # "header" /\ phase' # "end" /\ phase' # "error"
    BY <2>8
  <2>16. Rereads'
    BY <1>3, <1>5, <2>1, <2>2, <2>9 DEF Rereads
  <2>17. QED BY <2>10, <2>11, <2>12, <2>13, <2>14, <2>15, <2>16, Zenon DEF InPlace
<1>10. phase' # "writing"
  BY <1>3
<1>11. QED BY <1>5, <1>8, <1>9, <1>10 DEF StreamInv

\* A piece of the body, wherever the read cuts it off.
LEMMA BodyOk == ASSUME StreamInv, ReadsBody PROVE StreamInv'
<1>1. PICK n \in ReadSizes(header.len - Len(body)) :
             /\ pos' = pos + n
             /\ body' = body \o SubSeq(file, pos + 1, pos + n)
  BY DEF ReadsBody
<1>2. /\ phase = "body" /\ phase' = phase /\ UNCHANGED writerVars
      /\ sawFar' = sawFar /\ endian' = endian /\ header' = header
      /\ readBack' = readBack /\ faults' = faults
  BY DEF ReadsBody
<1>3. /\ n \in Nat /\ n <= header.len - Len(body)
      /\ pos + n <= Len(file) /\ pos' \in 0 .. Len(file)
  <2>1. PICK wanted \in Nat : wanted = header.len - Len(body)
    BY ReaderFacts
  <2>2. PICK left \in Nat : left = Len(file) - pos
    BY ReaderFacts
  <2>3. n \in 1 .. (IF wanted < left THEN wanted ELSE left)
    BY <1>1, <2>1, <2>2 DEF ReadSizes, Available
  <2>4. n \in Nat /\ n <= wanted /\ n <= left
    BY <2>3
  <2>5. pos' = pos + n
    BY <1>1
  <2>6. pos + n <= Len(file) /\ pos' \in 0 .. Len(file)
    BY <2>2, <2>4, <2>5, ReaderFacts
  <2>7. QED BY <2>1, <2>4, <2>6
<1>4. /\ WriterInv' /\ Asked' = Asked
      /\ (Good' <=> Good) /\ (AllOk' <=> AllOk)
  BY <1>2, WriterStays DEF StreamInv
<1>5. file' = file
  BY <1>2 DEF writerVars
<1>6. PICK part : part = SubSeq(file, pos + 1, pos + n)
  OBVIOUS
<1>7. /\ part \in Seq(Byte) /\ Len(part) = n
      /\ \A k \in 1 .. n : part[k] = file[pos + k]
  BY <1>3, <1>6, BytesFrom, ReaderFacts DEF StreamInv, WriterInv
<1>8. PICK b \in Seq(Byte) : b = body
  BY DEF StreamInv, ReaderType
<1>9. PICK m \in Nat : m = Len(b)
  BY LenProperties
<1>10. PICK longer : longer = b \o part
  OBVIOUS
<1>11. /\ longer \in Seq(Byte) /\ Len(longer) = m + n
       /\ \A k \in 1 .. m + n : longer[k] = IF k <= m THEN b[k] ELSE part[k - m]
  <2>1. /\ b \o part \in Seq(Byte) /\ Len(b \o part) = Len(b) + Len(part)
        /\ \A k \in 1 .. Len(b) + Len(part) :
             (b \o part)[k] = IF k <= Len(b) THEN b[k] ELSE part[k - Len(b)]
    BY <1>7, ConcatProperties
  <2>2. QED BY <1>7, <1>9, <1>10, <2>1
<1>12. body' = longer
  BY <1>1, <1>6, <1>8, <1>10
<1>13. ReaderType'
  <2>1. body' \in Seq(Byte) /\ Len(body') <= header'.len
    BY <1>2, <1>3, <1>8, <1>9, <1>11, <1>12, ReaderFacts
  <2>2. QED BY <1>2, <1>3, <1>5, <2>1, Zenon DEF StreamInv, ReaderType
<1>14. ASSUME Good
       PROVE  InPlace'
  <2>1. PICK d \in Nat : d = Done
    BY ReaderFacts
  <2>2. PICK r : r = Asked[d + 1]
    OBVIOUS
  <2>3. /\ d <= Len(Asked) /\ Rereads /\ endian = "X86"
        /\ (d # 0 => sawFar) /\ d < Len(Asked)
        /\ header = [rec |-> r, far |-> IsFar(r), len |-> BodyLength(r)]
        /\ \A k \in 1 .. m : b[k] = [rec |-> r, at |-> HeaderLength + k]
        /\ pos = Bytes(Asked, d) + HeaderLength + m
    BY <1>2, <1>8, <1>9, <1>14, <2>1, <2>2 DEF StreamInv, InPlace, Current
  <2>4. /\ BodyLength(r) \in Nat /\ Bytes(Asked, d) \in Nat
        /\ \A k \in 1 .. HeaderLength + BodyLength(r) :
             Bytes(Asked, d) + k <= Len(file) =>
               file[Bytes(Asked, d) + k] = [rec |-> r, at |-> k]
    BY <1>14, <2>2, <2>3, NextRecord DEF StreamInv
  <2>5. header.len = BodyLength(r)
    BY <2>3
  <2>6. ASSUME NEW k \in 1 .. m + n
        PROVE  longer[k] = [rec |-> r, at |-> HeaderLength + k]
    <3>1. CASE k <= m
      <4>1. k \in 1 .. m
        BY <3>1
      <4>2. longer[k] = b[k]
        BY <1>11, <3>1
      <4>3. QED BY <2>3, <4>1, <4>2
    <3>2. CASE ~ (k <= m)
      <4>1. PICK j \in 1 .. n : j = k - m
        BY <3>2, <1>3
      <4>2. longer[k] = part[j]
        BY <1>11, <3>2, <4>1
      <4>3. part[j] = file[pos + j]
        BY <1>7, <4>1
      <4>4. PICK at \in Nat : at = HeaderLength + k
        BY DEF HeaderLength
      <4>5. pos + j = Bytes(Asked, d) + at
        BY <2>3, <2>4, <4>1, <4>4 DEF HeaderLength
      <4>6. at \in 1 .. HeaderLength + BodyLength(r)
        BY <1>3, <1>8, <1>9, <2>4, <2>5, <4>4 DEF HeaderLength
      <4>7. Bytes(Asked, d) + at <= Len(file)
        BY <1>3, <4>1, <4>5, ReaderFacts
      <4>8. file[Bytes(Asked, d) + at] = [rec |-> r, at |-> at]
        BY <2>4, <4>6, <4>7
      <4>9. QED BY <4>2, <4>3, <4>4, <4>5, <4>8
    <3>3. QED BY <3>1, <3>2
  <2>7. Done' = d
    BY <1>2, <2>1 DEF Done
  <2>8. Current' = r
    BY <1>4, <2>2, <2>7 DEF Current
  <2>9. \A k \in 1 .. Len(body') : body'[k] = [rec |-> r, at |-> HeaderLength + k]
    BY <1>11, <1>12, <2>6
  <2>10. pos' = Bytes(Asked', Done') + HeaderLength + Len(body')
    <3>1. Len(body') = m + n /\ Bytes(Asked', Done') = Bytes(Asked, d)
      BY <1>4, <1>11, <1>12, <2>7
    <3>2. PICK start \in Nat : start = Bytes(Asked, d)
      BY <2>4
    <3>3. pos = start + HeaderLength + m /\ pos' = pos + n
      BY <1>1, <2>3, <3>2
    <3>4. QED BY <1>3, <3>1, <3>2, <3>3 DEF HeaderLength
  <2>11. /\ Done' <= Len(Asked')
         /\ endian' = "X86" /\ (Done' # 0 => sawFar') /\ Done' < Len(Asked')
    BY <1>2, <1>4, <2>3, <2>7
  <2>12. header' = [rec |-> r, far |-> IsFar(r), len |-> BodyLength(r)]
    BY <1>2, <2>3
  <2>13. phase' # "header" /\ phase' # "end" /\ phase' # "error"
    BY <1>2
  <2>14. Rereads'
    BY <1>2, <1>4, <2>1, <2>3, <2>7 DEF Rereads
  <2>15. QED BY <2>8, <2>9, <2>10, <2>11, <2>12, <2>13, <2>14, Zenon DEF InPlace
<1>15. phase' # "writing"
  BY <1>2
<1>16. QED BY <1>4, <1>13, <1>14, <1>15 DEF StreamInv

\* A record's whole body is read as what it is always read as, or is refused
\* with the reader behind it.
LEMMA ParsesOk == ASSUME StreamInv, Parses PROVE StreamInv'
<1>1. /\ phase = "body" /\ Len(body) = header.len /\ sawFar' = (sawFar \/ header.far)
      /\ UNCHANGED writerVars /\ pos' = pos /\ header' = header /\ body' = body
      /\ faults' = faults
  BY DEF Parses, BodyRead
<1>2. IF header.far THEN endian' \in CpuTypes ELSE endian' = endian
  BY DEF Parses
<1>3. PICK outcome \in Outcomes(endian') :
        IF outcome = "nothing"
        THEN phase' = "error" /\ readBack' = readBack
        ELSE /\ phase' = "header"
             /\ readBack' = Append(readBack, IF outcome = "itself" THEN header.rec ELSE Garbled)
  BY DEF Parses
<1>4. /\ WriterInv' /\ Asked' = Asked
      /\ (Good' <=> Good) /\ (AllOk' <=> AllOk)
  BY <1>1, WriterStays DEF StreamInv
<1>5. file' = file
  BY <1>1 DEF writerVars
<1>6. phase' \in {"header", "error"}
  BY <1>3
<1>7. ReaderType'
  <2>1. header.far \in BOOLEAN /\ header.rec \in Record \cup {Garbled}
    BY DEF StreamInv, ReaderType
  <2>2. endian' \in {"X86", "M68000"}
    <3>1. endian \in {"X86", "M68000"}
      BY DEF StreamInv, ReaderType
    <3>2. ASSUME header.far PROVE CpuTypes \subseteq {"X86", "M68000"}
      <4>1. header.rec # Garbled => header.rec.of \in {"X86", "M68000"}
        <5>1. ASSUME header.rec # Garbled PROVE header.rec.of \in {"X86", "M68000"}
          <6>1. header.rec \in Record /\ IsFar(header.rec)
            BY <2>1, <3>2, <5>1 DEF StreamInv, ReaderType
          <6>2. QED BY <6>1, RecordFacts
        <5>2. QED BY <5>1
      <4>2. QED BY <3>1, <4>1 DEF CpuTypes
    <3>3. QED BY <1>2, <3>1, <3>2
  <2>3. readBack' \in Seq(Record \cup {Garbled})
    <3>1. readBack \in Seq(Record \cup {Garbled})
      BY DEF StreamInv, ReaderType
    <3>2. /\ Append(readBack, header.rec) \in Seq(Record \cup {Garbled})
          /\ Append(readBack, Garbled) \in Seq(Record \cup {Garbled})
      BY <2>1, <3>1
    <3>3. \/ readBack' = Append(readBack, header.rec) \/ readBack' = Append(readBack, Garbled)
          \/ readBack' = readBack
      BY <1>3, Zenon
    <3>4. QED BY <3>1, <3>2, <3>3
  <2>4. sawFar' \in BOOLEAN
    BY <1>1, <2>1 DEF StreamInv, ReaderType
  <2>5. phase' \in {"writing", "header", "body", "end", "error"}
    BY <1>6
  <2>6. QED BY <1>1, <1>5, <2>2, <2>3, <2>4, <2>5, Zenon DEF StreamInv, ReaderType
<1>8. ASSUME Good
      PROVE  InPlace'
  <2>1. PICK n \in Nat : n = Done
    BY ReaderFacts
  <2>2. PICK r : r = Asked[n + 1]
    OBVIOUS
  <2>3. /\ Rereads /\ endian = "X86" /\ (n # 0 => sawFar) /\ n < Len(Asked)
        /\ header = [rec |-> r, far |-> IsFar(r), len |-> BodyLength(r)]
        /\ \A k \in 1 .. Len(body) : body[k] = [rec |-> r, at |-> HeaderLength + k]
        /\ pos = Bytes(Asked, n) + HeaderLength + Len(body)
    BY <1>1, <1>8, <2>1, <2>2 DEF StreamInv, InPlace, Current
  <2>4. /\ r \in Record /\ r # Far("M68000")
        /\ n = 0 => IsFar(r)
    BY <1>8, <2>2, <2>3, NextRecord DEF StreamInv
  <2>5. header.rec = r /\ header.far = IsFar(r) /\ header.len = BodyLength(r) /\ r # Garbled
    BY <2>3, <2>4, RecordFacts
  <2>6. body = BodyBytes(r)
    <3>1. body \in Seq(Byte)
      BY DEF StreamInv, ReaderType
    <3>2. /\ BodyBytes(r) \in Seq(Byte) /\ Len(BodyBytes(r)) = BodyLength(r)
          /\ \A k \in 1 .. BodyLength(r) : BodyBytes(r)[k] = [rec |-> r, at |-> HeaderLength + k]
      BY <2>4, PartsFacts
    <3>3. Len(body) = BodyLength(r)
      BY <1>1, <2>5
    <3>4. \A k \in 1 .. Len(body) : body[k] = BodyBytes(r)[k]
      BY <2>3, <3>2, <3>3, Zenon
    <3>5. QED BY <3>1, <3>2, <3>3, <3>4, SeqEqual
  <2>7. endian' = "X86"
    <3>1. CASE IsFar(r)
      <4>1. r.of \in {"X86", "M68000"} /\ r = Far(r.of)
        BY <2>4, <3>1, RecordFacts
      <4>2. r.of = "X86"
        BY <2>4, <4>1
      <4>3. header.len # 0
        BY <2>5, <3>1 DEF BodyLength
      <4>4. CpuTypes = {r.of}
        BY <2>5, <2>6, <4>3, Zenon DEF CpuTypes
      <4>5. QED BY <1>2, <2>5, <3>1, <4>2, <4>4
    <3>2. CASE ~ IsFar(r)
      BY <1>2, <2>3, <2>5, <3>2
    <3>3. QED BY <3>1, <3>2
  <2>8. Intact(endian')
    BY <2>5, <2>6, <2>7, Zenon DEF Intact
  <2>9. outcome = ParsesAs(r)
    BY <1>3, <2>5, <2>8 DEF Outcomes
  <2>10. Asked \in Seq(Record) /\ Len(Asked) \in Nat
    BY AllRecords DEF StreamInv
  <2>11. PICK start \in Nat : start = Bytes(Asked, n)
    BY <2>3, <2>10, FlatStep
  <2>12. pos' = start + HeaderLength + BodyLength(r) /\ BodyLength(r) \in Nat
    BY <1>1, <2>3, <2>4, <2>5, <2>11, RecordFacts
  <2>13. CASE outcome = "nothing"
    <3>1. phase' = "error" /\ readBack' = readBack
      BY <1>3, <2>13
    <3>2. Done' = n
      BY <2>1, <3>1 DEF Done
    <3>3. Rereads'
      BY <1>4, <2>1, <2>3, <3>1, <3>2 DEF Rereads
    <3>4. Refused'
      <4>1. Current' = r /\ Bytes(Asked', Done') = start /\ Done' < Len(Asked')
        BY <1>4, <2>2, <2>3, <2>11, <3>2 DEF Current
      <4>2. pos' - start = HeaderLength + BodyLength(r)
        BY <2>12 DEF HeaderLength
      <4>3. ParsesAs(r) = "nothing"
        BY <2>9, <2>13
      <4>4. QED BY <4>1, <4>2, <4>3, Zenon DEF Refused
    <3>5. Done' <= Len(Asked') /\ (Done' # 0 => sawFar')
      <4>1. Done' <= Len(Asked')
        BY <1>4, <2>3, <2>10, <3>2
      <4>2. Done' # 0 => sawFar'
        BY <1>1, <2>3, <3>2, Zenon
      <4>3. QED BY <4>1, <4>2
    <3>6. phase' # "header" /\ phase' # "body" /\ phase' # "end"
      BY <3>1
    <3>7. QED BY <2>7, <3>3, <3>4, <3>5, <3>6, Zenon DEF InPlace
  <2>14. CASE outcome # "nothing"
    <3>1. PICK seen \in Record \cup {Garbled} :
                 seen = IF outcome = "itself" THEN header.rec ELSE Garbled
      BY <2>4, <2>5
    <3>2. readBack' = Append(readBack, seen) /\ phase' = "header"
      BY <1>3, <2>14, <3>1
    <3>3. seen = Reread(r)
      <4>1. outcome \in {"itself", "another", "nothing"}
        <5>1. CASE IsFar(r)
          BY <2>9, <5>1 DEF ParsesAs
        <5>2. CASE ~ IsFar(r)
          <6>1. PICK name \in Names : r = Data(name)
            BY <2>4, <5>2 DEF Record, IsFar, Far
          <6>2. r.of = name
            BY <6>1 DEF Data
          <6>3. QED BY <2>9, <5>2, <6>2, ReadsAssumption DEF ParsesAs
        <5>3. QED BY <5>1, <5>2
      <4>2. QED BY <2>5, <2>9, <2>14, <3>1, <4>1 DEF Reread
    <3>4. /\ Len(readBack') = n + 1 /\ readBack'[n + 1] = seen
          /\ \A i \in 1 .. n : readBack'[i] = readBack[i]
      <4>1. readBack \in Seq(Record \cup {Garbled}) /\ Len(readBack) = n
        BY <2>1 DEF StreamInv, ReaderType, Done
      <4>2. QED BY <3>1, <3>2, <4>1, AppendProperties
    <3>5. Done' = n + 1
      BY <3>4 DEF Done
    <3>6. Rereads'
      <4>1. ASSUME NEW i \in 1 .. n + 1
            PROVE  readBack'[i] = Reread(Asked[i])
        <5>1. CASE i = n + 1
          BY <2>2, <3>3, <3>4, <5>1
        <5>2. CASE i # n + 1
          <6>1. i \in 1 .. n
            BY <5>2
          <6>2. readBack[i] = Reread(Asked[i])
            BY <2>1, <2>3, <6>1 DEF Rereads
          <6>3. QED BY <3>4, <6>1, <6>2
        <5>3. QED BY <5>1, <5>2
      <4>2. QED BY <1>4, <3>5, <4>1 DEF Rereads
    <3>7. pos' = Bytes(Asked', Done')
      <4>1. Bytes(Asked, n + 1) = start + HeaderLength + BodyLength(r)
        BY <2>2, <2>3, <2>10, <2>11, FlatStep
      <4>2. QED BY <1>4, <2>12, <3>5, <4>1
    <3>8. Done' <= Len(Asked')
      BY <1>4, <2>3, <2>10, <3>5
    <3>9. sawFar'
      BY <1>1, <2>3, <2>4, <2>5
    <3>10. phase' # "body" /\ phase' # "end" /\ phase' # "error"
      BY <3>2
    <3>11. QED BY <2>7, <3>6, <3>7, <3>8, <3>9, <3>10, Zenon DEF InPlace
  <2>15. QED BY <2>13, <2>14
<1>9. phase' # "writing"
  BY <1>6
<1>10. QED BY <1>4, <1>7, <1>8, <1>9 DEF StreamInv

\* A step that changes nothing.
LEMMA StutterOk == ASSUME StreamInv, UNCHANGED vars PROVE StreamInv'
<1>1. /\ phase' = phase /\ pos' = pos /\ sawFar' = sawFar /\ endian' = endian
      /\ header' = header /\ body' = body /\ readBack' = readBack /\ faults' = faults
      /\ UNCHANGED writerVars
  BY DEF vars, readerVars
<1>2. /\ WriterInv' /\ Asked' = Asked
      /\ (Good' <=> Good) /\ (AllOk' <=> AllOk)
  BY <1>1, WriterStays DEF StreamInv
<1>3. file' = file
  BY <1>1 DEF writerVars
<1>4. ReaderType'
  BY <1>1, <1>3, Zenon DEF StreamInv, ReaderType
<1>5. phase' = "writing" => Untouched'
  BY <1>1 DEF StreamInv, Untouched, NoHeader
<1>6. Done' = Done
  BY <1>1 DEF Done
<1>7. Current' = Current
  BY <1>2, <1>6 DEF Current
<1>8. Good' => InPlace'
  BY <1>1, <1>2, <1>3, <1>6, <1>7, Zenon DEF StreamInv, InPlace, Rereads, Refused
<1>9. QED BY <1>2, <1>4, <1>5, <1>8 DEF StreamInv

\* Every step keeps the invariant.
LEMMA StepOk == ASSUME StreamInv, [Next]_vars PROVE StreamInv'
<1>1. ASSUME NEW r \in Record, WriteOk(r)
      PROVE  StreamInv'
  <2>1. ToWrite(r) \in Seq(Byte)
    BY EncodeType, AFar, ConcatProperties DEF ToWrite
  <2>2. PICK n : n = Len(ToWrite(r))
    OBVIOUS
  <2>3. n \in 0 .. Len(ToWrite(r)) /\ SubSeq(ToWrite(r), 1, n) = ToWrite(r)
    BY <2>1, <2>2, LenProperties, SubSeqFull
  <2>4. /\ Calls(r, TRUE) /\ UNCHANGED <<phase, readerVars>>
        /\ file' = file \o SubSeq(ToWrite(r), 1, n)
    BY <1>1, <2>3 DEF WriteOk
  <2>5. QED BY <2>2, <2>3, <2>4, WritesOk
<1>2. ASSUME NEW r \in Record, WriteFails(r)
      PROVE  StreamInv'
  <2>1. /\ Calls(r, FALSE) /\ UNCHANGED <<phase, readerVars>>
        /\ \E n \in 0 .. Len(ToWrite(r)) : file' = file \o SubSeq(ToWrite(r), 1, n)
    BY <1>2 DEF WriteFails
  <2>2. QED BY <2>1, WritesOk
<1>3. QED
  BY <1>1, <1>2, ClosesOk, EndOk, ShortOk, HeaderOk, FaultsOk, BodyOk, CutOk, ParsesOk,
     StutterOk DEF Next

\* The writer's file is always how the bytes asked for begin, and the reader
\* of such a file always stands where one of their records begins, or inside it.
THEOREM StreamKeepsInvariant == Spec => []StreamInv
<1>1. Init => StreamInv
  BY InitOk
<1>2. StreamInv /\ [Next]_vars => StreamInv'
  BY StepOk
<1>3. QED BY <1>1, <1>2, PTL DEF Spec

----------------------------------------------------------------------------
(* The theorems                                                            *)

\* StdfWriter and StdfReader keep their types: the reader never passes the
\* end of the file, and never holds more of a body than REC_LEN says.
THEOREM StreamTypes == Spec => []TypeOK
<1>1. StreamInv => TypeOK
  <2>1. SUFFICES ASSUME StreamInv PROVE TypeOK
    OBVIOUS
  <2>2. calls \in Seq([rec : Record, ok : BOOLEAN]) /\ wroteFar \in BOOLEAN
    BY <2>1 DEF StreamInv, WriterInv, Call
  <2>3. QED BY <2>1, <2>2, Zenon DEF StreamInv, ReaderType, TypeOK
<1>2. QED BY <1>1, StreamKeepsInvariant, PTL

\* However a write failed and however the bytes come in, read_all collects the
\* first records written, each as what its own body is read as.
THEOREM ReadsWhatWasWritten == Spec => []ReadIsPrefix
<1>1. StreamInv => ReadIsPrefix
  <2> DEFINE asReread == [i \in DOMAIN Asked |-> Reread(Asked[i])]
  <2>1. SUFFICES ASSUME StreamInv, Good PROVE IsPrefix(readBack, asReread)
    BY DEF ReadIsPrefix, Good
  <2>2. Rereads /\ Done <= Len(Asked) /\ Done \in Nat /\ Len(Asked) \in Nat
    BY <2>1, ReaderFacts DEF StreamInv, InPlace
  <2>3. Asked \in Seq(Record)
    BY <2>1, AllRecords DEF StreamInv
  <2>4. DOMAIN Asked = 1 .. Len(Asked)
    BY <2>3, LenProperties
  <2>5. asReread \in Seq(Record \cup {Garbled}) /\ Len(asReread) = Len(Asked)
    <3>1. \A i \in 1 .. Len(Asked) : Asked[i] \in Record
      BY <2>3, ElementOfSeq
    <3>2. \A i \in 1 .. Len(Asked) : Reread(Asked[i]) \in Record \cup {Garbled}
      BY <3>1 DEF Reread
    <3>3. asReread \in [1 .. Len(Asked) -> Record \cup {Garbled}]
      BY <2>4, <3>2
    <3>4. QED BY <2>2, <3>3
  <2>6. \A i \in 1 .. Done : asReread[i] = readBack[i]
    BY <2>2, <2>4 DEF Rereads
  <2> HIDE DEF asReread
  <2>7. /\ SubSeq(asReread, 1, Done) \in Seq(Record \cup {Garbled})
        /\ Len(SubSeq(asReread, 1, Done)) = Done
        /\ \A i \in 1 .. Done : SubSeq(asReread, 1, Done)[i] = asReread[i]
    BY <2>2, <2>5, FirstTypes DEF First
  <2>8. readBack \in Seq(Record \cup {Garbled}) /\ Len(readBack) = Done
    BY <2>1 DEF StreamInv, ReaderType, Done
  <2>9. SubSeq(asReread, 1, Done) = readBack
    BY <2>6, <2>7, <2>8, SeqEqual
  <2>10. QED BY <2>2, <2>5, <2>8, <2>9 DEF IsPrefix
<1>2. QED BY <1>1, StreamKeepsInvariant, PTL

\* If read_all succeeds without an interrupted read, every byte of the file is
\* a byte of a record it has read and no record whose write succeeded is missing.
THEOREM CutFilesAreNoticed == Spec => []CutIsNoticed
<1>1. StreamInv => CutIsNoticed
  <2>1. SUFFICES ASSUME StreamInv, Good, phase = "end", faults = 0
        PROVE  /\ file = EncodeAll(SubSeq(Asked, 1, Len(readBack)))
               /\ \A i \in DOMAIN calls : calls[i].ok => i <= Len(readBack)
    BY DEF CutIsNoticed, Good
  <2>2. PICK n \in Nat : n = Done
    BY <2>1, ReaderFacts
  <2>3. PICK A \in Seq(Record) : A = Asked
    BY <2>1, AllRecords DEF StreamInv
  <2>4. n <= Len(A) /\ Len(file) = Bytes(A, n)
    BY <2>1, <2>2, <2>3 DEF StreamInv, InPlace
  <2>5. /\ file \in Seq(Byte) /\ Begins(file, EncodeAll(A))
        /\ \A i \in 1 .. Len(calls) : calls[i].ok => Bytes(A, i) <= Len(file)
    BY <2>1, <2>3 DEF StreamInv, WriterInv, Good
  <2>6. Len(A) \in Nat /\ First(A, Len(A)) = A
    BY LenProperties, SubSeqFull DEF First
  <2>7. Begins(EncodeAll(First(A, n)), EncodeAll(A)) /\ Bytes(A, n) \in Nat
    BY <2>4, <2>6, FlatBegins
  <2>8. EncodeAll(First(A, n)) \in Seq(Byte)
    BY <2>4, <2>6, FirstTypes, FlatType
  <2>9. file = EncodeAll(First(A, n))
    <3>1. \A k \in 1 .. Len(file) : file[k] = EncodeAll(First(A, n))[k]
      BY <2>4, <2>5, <2>7 DEF Begins, Bytes
    <3>2. QED BY <2>4, <2>5, <2>8, <3>1, SeqEqual DEF Bytes
  <2>10. Len(calls) <= Len(A) /\ DOMAIN calls = 1 .. Len(calls) /\ Len(calls) \in Nat
    <3>1. PICK c \in Seq(Call) : c = calls
      BY <2>1 DEF StreamInv, WriterInv
    <3>2. QED BY <2>3, <3>1, AskedIs, AskedFacts, LenProperties
  <2>11. ASSUME NEW i \in DOMAIN calls, calls[i].ok
         PROVE  i <= n
    <3>1. i \in 1 .. Len(calls) /\ i <= Len(A)
      BY <2>10
    <3>2. Bytes(A, i) <= Bytes(A, n)
      BY <2>4, <2>5, <2>11, <3>1
    <3>3. SUFFICES ASSUME n < i PROVE FALSE
      BY <3>1
    <3>4. Bytes(A, n) + HeaderLength <= Bytes(A, i) /\ Bytes(A, i) \in Nat
      <4>1. i \in n .. Len(A)
        BY <3>1, <3>3
      <4>2. QED BY <3>3, <4>1, FlatBegins
    <3>5. QED BY <2>7, <3>2, <3>4 DEF HeaderLength
  <2>12. QED BY <2>2, <2>3, <2>9, <2>11 DEF First, Done
<1>2. QED BY <1>1, StreamKeepsInvariant, PTL

\* A file written and read without a failure is refused inside a header, which
\* next_record asks for with one call of read, or behind a record whose own
\* body Record::parse takes for one that ends too early, and nowhere else.
THEOREM RefusalsDoHaveReasons == Spec => []RefusalsHaveReasons
<1>1. StreamInv => RefusalsHaveReasons
  <2>1. SUFFICES ASSUME StreamInv, Representable, \A i \in DOMAIN calls : calls[i].ok,
                        phase = "error", faults = 0
        PROVE  LET ahead == pos - Bytes(Asked, Done)
               IN \/ ahead \in 1 .. HeaderLength - 1
                  \/ /\ Done < Len(Asked) /\ ParsesAs(Asked[Done + 1]) = "nothing"
                     /\ ahead = Len(Encode(Asked[Done + 1]))
    BY DEF RefusalsHaveReasons, Bytes, First, Done
  <2>2. AllOk /\ Good
    BY <2>1, Zenon DEF AllOk, Good, StopsAtFailure
  <2>3. Refused
    BY <2>1, <2>2 DEF StreamInv, InPlace
  <2>4. ASSUME Done < Len(Asked)
        PROVE  Len(Encode(Current)) = HeaderLength + BodyLength(Current)
    <3>1. Current \in Record
      BY <2>1, <2>4, ReaderFacts, AllRecords, FlatStep DEF StreamInv, Current
    <3>2. QED BY <3>1, EncodeType
  <2>5. QED BY <2>3, <2>4 DEF Refused, Current
<1>2. QED BY <1>1, StreamKeepsInvariant, PTL

=============================================================================
