------------------------ MODULE ConnectionIO_proofs ------------------------
(***************************************************************************)
(* The bytes of a connection, for every size of its buffers, every length  *)
(* of messages, files and reads, and every bound.                          *)
(***************************************************************************)
EXTENDS ConnectionIO, SequenceTheorems, TLAPS

-----------------------------------------------------------------------------
(* What the operations of Buffer do to the readable bytes and the indexes. *)

GoodBuffer(b) == b \in BufferType /\ IndexesOK(b)

\* A function on 1 .. n is a sequence of length n.
LEMMA FunIsSeq ==
  ASSUME NEW n \in Nat, NEW f \in [1 .. n -> Byte]
  PROVE  f \in Seq(Byte) /\ Len(f) = n
<1>1. f \in Seq(Byte)
  BY SeqDef
<1> QED
  BY <1>1, LenProperties

\* The facts about a good buffer that the other proofs use.
LEMMA Parts ==
  ASSUME NEW b, GoodBuffer(b)
  PROVE  /\ b.cells \in Seq(Byte) /\ Len(b.cells) \in Nat
         /\ DOMAIN b.cells = 1 .. Len(b.cells)
         /\ b.reader \in Nat /\ b.writer \in Nat
         /\ CheapPrepend <= b.reader /\ b.reader <= b.writer /\ b.writer <= Len(b.cells)
         /\ b = [cells |-> b.cells, reader |-> b.reader, writer |-> b.writer]
BY LenProperties DEF GoodBuffer, BufferType, IndexesOK

\* The readable bytes, one by one.
LEMMA PeekIs ==
  ASSUME NEW b, GoodBuffer(b)
  PROVE  /\ Peek(b) \in Seq(Byte)
         /\ Len(Peek(b)) = ReadableBytes(b)
         /\ ReadableBytes(b) \in Nat
         /\ \A i \in 1 .. ReadableBytes(b) : Peek(b)[i] = b.cells[b.reader + i]
<1>1. \A i \in b.reader + 1 .. b.writer : b.cells[i] \in Byte
  BY Parts, ElementOfSeq
<1>2. b.reader + 1 \in Int /\ b.writer \in Int /\ ReadableBytes(b) \in Nat
  BY Parts DEF ReadableBytes
<1>3. /\ Peek(b) \in Seq(Byte)
      /\ Len(Peek(b)) = IF b.reader + 1 <= b.writer THEN b.writer - (b.reader + 1) + 1 ELSE 0
      /\ \A i \in 1 .. b.writer - (b.reader + 1) + 1 : Peek(b)[i] = b.cells[b.reader + 1 + i - 1]
  BY <1>1, <1>2, SubSeqProperties DEF Peek
<1>4. b.writer - (b.reader + 1) + 1 = b.writer - b.reader
  BY Parts
<1>5. Len(Peek(b)) = ReadableBytes(b)
  BY <1>3, Parts DEF ReadableBytes
<1>6. ASSUME NEW i \in 1 .. ReadableBytes(b)
      PROVE  Peek(b)[i] = b.cells[b.reader + i]
  <2>1. i \in 1 .. b.writer - (b.reader + 1) + 1 /\ b.reader + 1 + i - 1 = b.reader + i
    BY <1>4, Parts DEF ReadableBytes
  <2> QED
    BY <1>3, <2>1
<1> QED
  BY <1>2, <1>3, <1>5, <1>6

\* The readable bytes are known by their number and each of them.
LEMMA PeekEqual ==
  ASSUME NEW b, GoodBuffer(b), NEW s \in Seq(Byte), Len(s) = ReadableBytes(b),
         \A i \in 1 .. Len(s) : s[i] = b.cells[b.reader + i]
  PROVE  Peek(b) = s
BY PeekIs, SeqEqual

\* The constructor's buffer is empty.
THEOREM NewBufferGood == GoodBuffer(NewBuffer) /\ Peek(NewBuffer) = <<>>
<1> DEFINE c == [i \in 1 .. CheapPrepend + InitialSize |-> Unset]
<1>1. c \in Seq(Byte) /\ Len(c) = CheapPrepend + InitialSize
  <2>1. CheapPrepend + InitialSize \in Nat /\ Unset \in Byte
    BY BufferAssumption DEF Unset, Byte
  <2>2. c \in [1 .. CheapPrepend + InitialSize -> Byte]
    BY <2>1
  <2> HIDE DEF c
  <2> QED
    BY <2>1, <2>2, FunIsSeq
<1>2. GoodBuffer(NewBuffer)
  <2>1. NewBuffer = [cells |-> c, reader |-> CheapPrepend, writer |-> CheapPrepend]
    BY DEF NewBuffer
  <2> HIDE DEF c
  <2> QED
    BY <1>1, <2>1, BufferAssumption DEF GoodBuffer, BufferType, IndexesOK
<1>3. ReadableBytes(NewBuffer) = 0
  BY BufferAssumption DEF ReadableBytes, NewBuffer
<1> QED
  BY <1>2, <1>3, PeekIs

\* retrieveAll leaves an empty buffer.
LEMMA RetrieveAllEmpties ==
  ASSUME NEW b, GoodBuffer(b)
  PROVE  GoodBuffer(RetrieveAll(b)) /\ Peek(RetrieveAll(b)) = <<>>
<1> DEFINE r == RetrieveAll(b)
<1>1. /\ r \in BufferType
      /\ r.cells = b.cells /\ r.reader = CheapPrepend /\ r.writer = CheapPrepend
  BY BufferAssumption DEF GoodBuffer, BufferType, RetrieveAll
<1> HIDE DEF r
<1>2. GoodBuffer(r)
  BY <1>1, Parts, BufferAssumption DEF GoodBuffer, IndexesOK
<1>3. ReadableBytes(r) = 0
  BY <1>1, BufferAssumption DEF ReadableBytes
<1>4. Peek(r) = <<>>
  BY <1>2, <1>3, PeekIs
<1> QED
  BY <1>2, <1>4 DEF r

\* retrieve takes the first len readable bytes away and leaves the others.
THEOREM RetrieveTakes ==
  ASSUME NEW b, GoodBuffer(b), NEW len \in Nat, len <= ReadableBytes(b)
  PROVE  /\ GoodBuffer(Retrieve(b, len))
         /\ Peek(b) = RetrieveAsString(b, len) \o Peek(Retrieve(b, len))
<1> DEFINE s == RetrieveAsString(b, len)
<1>1. /\ s \in Seq(Byte) /\ Len(s) = len
      /\ \A i \in 1 .. len : s[i] = Peek(b)[i]
  <2>1. \A i \in 1 .. len : Peek(b)[i] \in Byte
    BY PeekIs, ElementOfSeq
  <2>2. /\ s \in Seq(Byte)
        /\ Len(s) = IF 1 <= len THEN len - 1 + 1 ELSE 0
        /\ \A i \in 1 .. len - 1 + 1 : s[i] = Peek(b)[1 + i - 1]
    BY <2>1, SubSeqProperties DEF RetrieveAsString
  <2> HIDE DEF s
  <2> QED
    BY <2>2
<1>2. CASE len < ReadableBytes(b)
  <2> DEFINE r == Retrieve(b, len)
  <2>1. /\ r \in BufferType
        /\ r.cells = b.cells /\ r.reader = b.reader + len /\ r.writer = b.writer
    BY <1>2 DEF GoodBuffer, BufferType, Retrieve
  <2>2. GoodBuffer(r)
    <3> HIDE DEF r
    <3> QED
      BY <1>2, <2>1, Parts, BufferAssumption DEF ReadableBytes, GoodBuffer, IndexesOK
  <2>3. ReadableBytes(r) = ReadableBytes(b) - len
    BY <2>1, Parts DEF ReadableBytes
  <2>4. ASSUME NEW i \in 1 .. ReadableBytes(r)
        PROVE  Peek(r)[i] = Peek(b)[len + i]
    <3> HIDE DEF r
    <3>1. Peek(r)[i] = r.cells[r.reader + i]
      BY <2>2, PeekIs
    <3>2. len + i \in 1 .. ReadableBytes(b)
      BY <2>3, PeekIs
    <3>3. Peek(b)[len + i] = b.cells[b.reader + (len + i)]
      BY <3>2, PeekIs
    <3>4. r.reader + i = b.reader + (len + i)
      BY <2>1, <3>2, Parts, PeekIs, <2>3
    <3> QED
      BY <2>1, <3>1, <3>3, <3>4
  <2>5. /\ Len(s \o Peek(r)) = Len(Peek(b)) /\ s \o Peek(r) \in Seq(Byte)
        /\ \A i \in 1 .. Len(Peek(b)) : (s \o Peek(r))[i] = IF i <= len THEN s[i] ELSE Peek(r)[i - len]
    <3> HIDE DEF s, r
    <3> QED
      BY <1>1, <2>2, <2>3, PeekIs, ConcatProperties
  <2>6. ASSUME NEW i \in 1 .. Len(Peek(b))
        PROVE  Peek(b)[i] = (s \o Peek(r))[i]
    <3> HIDE DEF s, r
    <3>1. CASE i <= len
      BY <1>1, <2>5, <3>1
    <3>2. CASE ~(i <= len)
      <4>1. i - len \in 1 .. ReadableBytes(r) /\ len + (i - len) = i
        BY <2>3, <3>2, PeekIs
      <4>2. Peek(r)[i - len] = Peek(b)[len + (i - len)]
        BY <2>4, <4>1
      <4> QED
        BY <2>5, <3>2, <4>1, <4>2
    <3> QED
      BY <3>1, <3>2
  <2> QED
    <3> HIDE DEF s, r
    <3>1. Peek(b) = s \o Peek(r)
      BY <2>5, <2>6, PeekIs, SeqEqual
    <3> QED
      BY <2>2, <3>1 DEF s, r
<1>3. CASE len = ReadableBytes(b)
  <2>1. Retrieve(b, len) = RetrieveAll(b)
    BY <1>3, PeekIs DEF Retrieve
  <2>2. RetrieveAsString(b, len) = Peek(b)
    BY <1>1, <1>3, PeekIs, SeqEqual
  <2> QED
    BY <2>1, <2>2, PeekIs, RetrieveAllEmpties, ConcatEmptySeq
<1> QED
  BY <1>2, <1>3, PeekIs

-----------------------------------------------------------------------------

\* std::copy inside a vector.
LEMMA CopyToIs ==
  ASSUME NEW cells \in Seq(Byte), NEW at \in Nat, NEW data \in Seq(Byte),
         at + Len(data) <= Len(cells)
  PROVE  /\ CopyTo(cells, at, data) \in Seq(Byte)
         /\ Len(CopyTo(cells, at, data)) = Len(cells)
         /\ \A i \in 1 .. Len(cells) :
              CopyTo(cells, at, data)[i] =
                IF i \in at + 1 .. at + Len(data) THEN data[i - at] ELSE cells[i]
<1> DEFINE c == CopyTo(cells, at, data)
<1>1. /\ Len(cells) \in Nat /\ Len(data) \in Nat
      /\ DOMAIN cells = 1 .. Len(cells)
  BY LenProperties
<1>2. \A i \in 1 .. Len(cells) :
        c[i] = IF i \in at + 1 .. at + Len(data) THEN data[i - at] ELSE cells[i]
  BY <1>1 DEF CopyTo
<1>3. ASSUME NEW i \in 1 .. Len(cells)
      PROVE  c[i] \in Byte
  <2>1. CASE i \in at + 1 .. at + Len(data)
    <3>1. i - at \in 1 .. Len(data)
      BY <1>1, <2>1
    <3>2. data[i - at] \in Byte
      BY <3>1, ElementOfSeq
    <3> QED
      BY <1>2, <2>1, <3>2
  <2>2. CASE i \notin at + 1 .. at + Len(data)
    <3>1. cells[i] \in Byte
      BY ElementOfSeq
    <3> QED
      BY <1>2, <2>2, <3>1
  <2> QED
    BY <2>1, <2>2
<1>4. c = [i \in 1 .. Len(cells) |-> c[i]]
  BY <1>1 DEF CopyTo
<1> HIDE DEF c
<1>5. c \in [1 .. Len(cells) -> Byte]
  BY <1>3, <1>4
<1>6. c \in Seq(Byte) /\ Len(c) = Len(cells)
  BY <1>1, <1>5, FunIsSeq
<1> QED
  BY <1>2, <1>6 DEF c

\* The bytes of a buffer and of another that continues it.
LEMMA PeekConcat ==
  ASSUME NEW b, GoodBuffer(b), NEW r, GoodBuffer(r), NEW data \in Seq(Byte),
         ReadableBytes(r) = ReadableBytes(b) + Len(data),
         \A i \in 1 .. ReadableBytes(b) : r.cells[r.reader + i] = b.cells[b.reader + i],
         \A i \in 1 .. Len(data) : r.cells[r.reader + ReadableBytes(b) + i] = data[i]
  PROVE  Peek(r) = Peek(b) \o data
<1> DEFINE n == ReadableBytes(b)
           t == Peek(b) \o data
<1>1. n \in Nat /\ Len(data) \in Nat /\ r.reader \in Nat
  BY PeekIs, LenProperties, Parts
<1>2. /\ t \in Seq(Byte) /\ Len(t) = n + Len(data)
      /\ \A i \in 1 .. n + Len(data) : t[i] = IF i <= n THEN Peek(b)[i] ELSE data[i - n]
  BY PeekIs, ConcatProperties
<1> HIDE DEF t
<1>3. ASSUME NEW i \in 1 .. Len(t)
      PROVE  t[i] = r.cells[r.reader + i]
  <2>1. CASE i <= n
    <3>1. i \in 1 .. n
      BY <1>1, <1>2, <2>1
    <3>2. Peek(b)[i] = b.cells[b.reader + i]
      BY <3>1, PeekIs
    <3> QED
      BY <1>2, <2>1, <3>1, <3>2
  <2>2. CASE ~(i <= n)
    <3>1. i - n \in 1 .. Len(data) /\ r.reader + n + (i - n) = r.reader + i
      BY <1>1, <1>2, <2>2
    <3> QED
      BY <1>2, <2>2, <3>1
  <2> QED
    BY <2>1, <2>2
<1>4. Peek(r) = t
  BY <1>2, <1>3, PeekEqual
<1> QED
  BY <1>4 DEF t

\* Byte that fit behind the writer follow the readable ones.
LEMMA FillAppends ==
  ASSUME NEW b, GoodBuffer(b), NEW data \in Seq(Byte), Len(data) <= WritableBytes(b)
  PROVE  /\ GoodBuffer(Fill(b, data))
         /\ Peek(Fill(b, data)) = Peek(b) \o data
         /\ WritableBytes(Fill(b, data)) = WritableBytes(b) - Len(data)
<1> DEFINE r == Fill(b, data)
           c == CopyTo(b.cells, b.writer, data)
           n == ReadableBytes(b)
<1>1. /\ Len(data) \in Nat /\ n \in Nat
      /\ b.writer + Len(data) <= Len(b.cells)
      /\ b.reader + n = b.writer
  BY LenProperties, Parts, PeekIs DEF WritableBytes, ReadableBytes
<1>2. /\ c \in Seq(Byte) /\ Len(c) = Len(b.cells)
      /\ \A i \in 1 .. Len(b.cells) :
           c[i] = IF i \in b.writer + 1 .. b.writer + Len(data) THEN data[i - b.writer]
                  ELSE b.cells[i]
  BY <1>1, Parts, CopyToIs
<1>3. r = [b EXCEPT !.cells = c, !.writer = b.writer + Len(data)]
  BY DEF Fill
<1> HIDE DEF c, r
<1>4. /\ r \in BufferType
      /\ r.cells = c /\ r.reader = b.reader /\ r.writer = b.writer + Len(data)
  <2>1. c \in Seq(Byte) /\ b.writer + Len(data) \in Nat /\ b \in BufferType
    BY <1>1, <1>2, Parts DEF GoodBuffer
  <2> QED
    BY <1>3, <2>1 DEF BufferType
<1>5. GoodBuffer(r)
  BY <1>1, <1>2, <1>4, Parts, BufferAssumption DEF GoodBuffer, IndexesOK
<1>6. ReadableBytes(r) = n + Len(data)
  BY <1>1, <1>4, Parts DEF ReadableBytes
<1>7. ASSUME NEW i \in 1 .. n
      PROVE  r.cells[r.reader + i] = b.cells[b.reader + i]
  <2>1. b.reader + i \in 1 .. Len(b.cells) /\ b.reader + i <= b.writer
    BY <1>1, Parts
  <2>2. b.reader + i \notin b.writer + 1 .. b.writer + Len(data)
    BY <2>1, Parts, <1>1
  <2> QED
    BY <1>2, <1>4, <2>1, <2>2
<1>8. ASSUME NEW i \in 1 .. Len(data)
      PROVE  r.cells[r.reader + n + i] = data[i]
  <2>1. /\ b.writer + i \in 1 .. Len(b.cells)
        /\ b.writer + i \in b.writer + 1 .. b.writer + Len(data)
        /\ (b.writer + i) - b.writer = i
    BY <1>1, Parts
  <2>2. r.reader + n + i = b.writer + i
    BY <1>1, <1>4
  <2> QED
    BY <1>2, <1>4, <2>1, <2>2
<1>9. Peek(r) = Peek(b) \o data
  BY <1>5, <1>6, <1>7, <1>8, PeekConcat
<1>10. WritableBytes(r) = WritableBytes(b) - Len(data)
  BY <1>1, <1>2, <1>4, Parts DEF WritableBytes
<1> QED
  BY <1>5, <1>9, <1>10 DEF r

\* makeSpace keeps the readable bytes and makes room for len more, whether it
\* lets the vector grow or moves the bytes to the front.
THEOREM MakeSpaceMakesSpace ==
  ASSUME NEW b, GoodBuffer(b), NEW len \in Nat, WritableBytes(b) < len
  PROVE  /\ GoodBuffer(MakeSpace(b, len))
         /\ Peek(MakeSpace(b, len)) = Peek(b)
         /\ len <= WritableBytes(MakeSpace(b, len))
<1> DEFINE r == MakeSpace(b, len)
           n == ReadableBytes(b)
<1>0. n \in Nat /\ b.reader + n = b.writer /\ b \in BufferType /\ CheapPrepend \in Nat
  BY Parts, PeekIs, BufferAssumption DEF ReadableBytes, GoodBuffer
<1>1. CASE WritableBytes(b) + PrependableBytes(b) < len + CheapPrepend
  <2> DEFINE c == [i \in 1 .. b.writer + len |->
                     IF i \in DOMAIN b.cells THEN b.cells[i] ELSE Unset]
  <2>1. r = [b EXCEPT !.cells = c]
    BY <1>1 DEF MakeSpace
  <2>2. ASSUME NEW i \in 1 .. b.writer + len
        PROVE  c[i] \in Byte
    BY Parts, ElementOfSeq DEF Unset, Byte
  <2>3. c = [i \in 1 .. b.writer + len |-> c[i]]
    OBVIOUS
  <2>4. \A i \in 1 .. b.writer : c[i] = b.cells[i]
    BY Parts
  <2> HIDE DEF c
  <2>5. c \in Seq(Byte) /\ Len(c) = b.writer + len
    <3>1. b.writer + len \in Nat
      BY Parts
    <3>2. c \in [1 .. b.writer + len -> Byte]
      BY <2>2, <2>3
    <3> QED
      BY <3>1, <3>2, FunIsSeq
  <2> HIDE DEF r
  <2>6. r \in BufferType /\ r.cells = c /\ r.reader = b.reader /\ r.writer = b.writer
    BY <1>0, <2>1, <2>5 DEF BufferType
  <2>7. GoodBuffer(r)
    BY <2>5, <2>6, Parts, BufferAssumption DEF GoodBuffer, IndexesOK
  <2>8. Peek(r) = Peek(b)
    <3>1. Len(Peek(b)) = ReadableBytes(r) /\ Peek(b) \in Seq(Byte)
      BY <2>6, PeekIs DEF ReadableBytes
    <3>2. ASSUME NEW i \in 1 .. Len(Peek(b))
          PROVE  Peek(b)[i] = r.cells[r.reader + i]
      <4>1. i \in 1 .. n /\ b.reader + i \in 1 .. b.writer
        BY <1>0, PeekIs, Parts
      <4>2. Peek(b)[i] = b.cells[b.reader + i]
        BY <4>1, PeekIs
      <4> QED
        BY <2>4, <2>6, <4>1, <4>2
    <3> QED
      BY <2>7, <3>1, <3>2, PeekEqual
  <2>9. len <= WritableBytes(r)
    BY <2>5, <2>6, Parts DEF WritableBytes
  <2> QED
    BY <2>7, <2>8, <2>9 DEF r
<1>2. CASE ~(WritableBytes(b) + PrependableBytes(b) < len + CheapPrepend)
  <2> DEFINE c == CopyTo(b.cells, CheapPrepend, Peek(b))
  <2>1. r = [cells |-> c, reader |-> CheapPrepend, writer |-> CheapPrepend + n]
    BY <1>2 DEF MakeSpace
  <2>2. /\ Peek(b) \in Seq(Byte) /\ Len(Peek(b)) = n
        /\ CheapPrepend + n <= Len(b.cells)
    BY <1>0, PeekIs, Parts
  <2>3. /\ c \in Seq(Byte) /\ Len(c) = Len(b.cells)
        /\ \A i \in 1 .. Len(b.cells) :
             c[i] = IF i \in CheapPrepend + 1 .. CheapPrepend + n
                      THEN Peek(b)[i - CheapPrepend] ELSE b.cells[i]
    BY <1>0, <2>2, Parts, CopyToIs
  <2> HIDE DEF c, r
  <2>4. /\ r \in BufferType
        /\ r.cells = c /\ r.reader = CheapPrepend /\ r.writer = CheapPrepend + n
    <3>1. c \in Seq(Byte) /\ CheapPrepend + n \in Nat
      BY <1>0, <2>3
    <3> QED
      BY <1>0, <2>1, <3>1 DEF BufferType
  <2>5. GoodBuffer(r)
    BY <1>0, <2>2, <2>3, <2>4 DEF GoodBuffer, IndexesOK
  <2>6. Peek(r) = Peek(b)
    <3>1. Len(Peek(b)) = ReadableBytes(r)
      BY <1>0, <2>2, <2>4 DEF ReadableBytes
    <3>2. ASSUME NEW i \in 1 .. Len(Peek(b))
          PROVE  Peek(b)[i] = r.cells[r.reader + i]
      <4>1. /\ CheapPrepend + i \in 1 .. Len(b.cells)
            /\ CheapPrepend + i \in CheapPrepend + 1 .. CheapPrepend + n
            /\ (CheapPrepend + i) - CheapPrepend = i
        BY <1>0, <2>2, Parts
      <4> QED
        BY <2>3, <2>4, <4>1
    <3> QED
      BY <2>2, <2>5, <3>1, <3>2, PeekEqual
  <2>7. len <= WritableBytes(r)
    BY <1>0, <1>2, <2>3, <2>4, Parts DEF WritableBytes, PrependableBytes
  <2> QED
    BY <2>5, <2>6, <2>7 DEF r
<1> QED
  BY <1>1, <1>2

\* append puts the bytes behind the readable ones, whatever room there was.
THEOREM AppendAppends ==
  ASSUME NEW b, GoodBuffer(b), NEW data \in Seq(Byte)
  PROVE  /\ GoodBuffer(BufferAppend(b, data))
         /\ Peek(BufferAppend(b, data)) = Peek(b) \o data
<1> DEFINE e == EnsureWritableBytes(b, Len(data))
<1>1. Len(data) \in Nat /\ WritableBytes(b) \in Nat
  BY LenProperties, Parts DEF WritableBytes
<1>2. GoodBuffer(e) /\ Peek(e) = Peek(b) /\ Len(data) <= WritableBytes(e)
  BY <1>1, MakeSpaceMakesSpace DEF EnsureWritableBytes
<1>3. BufferAppend(b, data) = Fill(e, data)
  BY DEF BufferAppend
<1> HIDE DEF e
<1> QED
  BY <1>2, <1>3, FillAppends

\* Three runs of bytes in a row.
LEMMA Append3 ==
  ASSUME NEW s \in Seq(Byte), NEW t \in Seq(Byte), NEW u \in Seq(Byte)
  PROVE  (s \o t) \o u = s \o (t \o u)
BY ConcatAssociative

\* readFd puts what readv has read behind the readable bytes, the part that
\* went to the stack buffer included.
THEOREM ReadFdAppends ==
  ASSUME NEW b, GoodBuffer(b), NEW data \in Seq(Byte)
  PROVE  /\ GoodBuffer(ReadFd(b, data))
         /\ Peek(ReadFd(b, data)) = Peek(b) \o data
<1> DEFINE w == WritableBytes(b)
           first == SubSeq(data, 1, w)
           rest == SubSeq(data, w + 1, Len(data))
<1>1. Len(data) \in Nat /\ w \in Nat
  BY LenProperties, Parts DEF WritableBytes
<1>2. CASE Len(data) <= w
  <2>1. ReadFd(b, data) = Fill(b, data)
    BY <1>2 DEF ReadFd
  <2> QED
    BY <1>2, <2>1, FillAppends
<1>3. CASE ~(Len(data) <= w)
  <2>1. ReadFd(b, data) = BufferAppend(Fill(b, first), rest)
    BY <1>3 DEF ReadFd
  <2> HIDE DEF w
  <2>2. /\ first \in Seq(Byte) /\ Len(first) = w
        /\ rest \in Seq(Byte) /\ first \o rest = data
    <3>1. \A i \in 1 .. Len(data) : data[i] \in Byte
      BY ElementOfSeq
    <3>2. /\ \A i \in 1 .. w : data[i] \in Byte
          /\ \A i \in w + 1 .. Len(data) : data[i] \in Byte
      BY <1>1, <1>3, <3>1
    <3>3. /\ first \in Seq(Byte)
          /\ Len(first) = IF 1 <= w THEN w - 1 + 1 ELSE 0
      BY <1>1, <3>2, SubSeqProperties
    <3>4. rest \in Seq(Byte)
      BY <1>1, <3>2, SubSeqProperties
    <3>5. first \o rest = SubSeq(data, 1, Len(data))
      <4>1. /\ 1 \in 1 .. Len(data) + 1
            /\ w \in 1 - 1 .. Len(data)
            /\ Len(data) \in w .. Len(data)
        BY <1>1, <1>3
      <4> HIDE DEF w
      <4> QED
        BY <4>1, ConcatAdjacentSubSeq
    <3>6. SubSeq(data, 1, Len(data)) = data
      BY SubSeqFull
    <3>7. Len(first) = w
      <4> HIDE DEF first
      <4> QED
        BY <1>1, <3>3
    <3> HIDE DEF first, rest
    <3>8. first \o rest = data
      BY <3>5, <3>6, Zenon
    <3> QED
      BY <3>3, <3>4, <3>7, <3>8, Zenon
  <2> HIDE DEF first, rest
  <2>3. GoodBuffer(Fill(b, first)) /\ Peek(Fill(b, first)) = Peek(b) \o first
    BY <1>1, <2>2, FillAppends DEF w
  <2>4. /\ GoodBuffer(ReadFd(b, data))
        /\ Peek(ReadFd(b, data)) = (Peek(b) \o first) \o rest
    BY <2>1, <2>2, <2>3, AppendAppends
  <2>5. (Peek(b) \o first) \o rest = Peek(b) \o (first \o rest)
    <3>1. Peek(b) \in Seq(Byte)
      BY PeekIs
    <3> QED
      BY <2>2, <3>1, Append3
  <2> QED
    BY <2>2, <2>4, <2>5
<1> QED
  BY <1>2, <1>3

-----------------------------------------------------------------------------
(* The bytes that the peers and the application send.                      *)

\* The numbers up to n are a sequence of bytes.
LEMMA UpToIs ==
  ASSUME NEW n \in Nat
  PROVE  /\ UpTo(n) \in Seq(Byte) /\ Len(UpTo(n)) = n
         /\ \A i \in 1 .. n : UpTo(n)[i] = i
<1>1. UpTo(n) \in [1 .. n -> Byte]
  BY DEF UpTo, Byte
<1>2. UpTo(n) \in Seq(Byte) /\ Len(UpTo(n)) = n
  BY <1>1, FunIsSeq
<1> QED
  BY <1>2 DEF UpTo

\* The k numbers after n.
After(n, k) == [i \in 1 .. k |-> n + i]

LEMMA AfterIs ==
  ASSUME NEW n \in Nat, NEW k \in Nat
  PROVE  /\ After(n, k) \in Seq(Byte) /\ Len(After(n, k)) = k
         /\ \A i \in 1 .. k : After(n, k)[i] = n + i
<1>1. After(n, k) \in [1 .. k -> Byte]
  BY DEF After, Byte
<1>2. After(n, k) \in Seq(Byte) /\ Len(After(n, k)) = k
  BY <1>1, FunIsSeq
<1> QED
  BY <1>2 DEF After

\* Taking k more bytes goes on with the numbers.
LEMMA UpToGrows ==
  ASSUME NEW n \in Nat, NEW k \in Nat
  PROVE  UpTo(n) \o After(n, k) = UpTo(n + k)
<1> DEFINE s == UpTo(n) \o After(n, k)
<1>0. /\ UpTo(n) \in Seq(Byte) /\ Len(UpTo(n)) = n
      /\ After(n, k) \in Seq(Byte) /\ Len(After(n, k)) = k
  BY UpToIs, AfterIs
<1>1. /\ s \in Seq(Byte) /\ Len(s) = n + k
      /\ \A i \in 1 .. n + k : s[i] = IF i <= n THEN UpTo(n)[i] ELSE After(n, k)[i - n]
  <2>1. /\ s \in Seq(Byte) /\ Len(s) = Len(UpTo(n)) + Len(After(n, k))
        /\ \A i \in 1 .. Len(UpTo(n)) + Len(After(n, k)) :
             s[i] = IF i <= Len(UpTo(n)) THEN UpTo(n)[i] ELSE After(n, k)[i - Len(UpTo(n))]
    BY <1>0, ConcatProperties
  <2> HIDE DEF s
  <2> QED
    BY <1>0, <2>1
<1>2. UpTo(n + k) \in Seq(Byte) /\ Len(UpTo(n + k)) = n + k
  BY UpToIs
<1>3. ASSUME NEW i \in 1 .. n + k PROVE s[i] = UpTo(n + k)[i]
  <2>1. UpTo(n + k)[i] = i
    BY UpToIs
  <2>2. CASE i <= n
    <3>1. i \in 1 .. n
      BY <2>2
    <3> QED
      BY <1>1, <2>1, <2>2, <3>1, UpToIs
  <2>3. CASE ~(i <= n)
    <3>1. i - n \in 1 .. k /\ n + (i - n) = i
      BY <2>3
    <3>2. After(n, k)[i - n] = i
      BY <3>1, AfterIs
    <3> HIDE DEF s
    <3> QED
      BY <1>1, <2>1, <2>3, <3>2
  <2> QED
    BY <2>2, <2>3
<1>4. s = UpTo(n + k)
  <2> HIDE DEF s
  <2> QED
    BY <1>1, <1>2, <1>3, SeqEqual
<1> QED
  BY <1>4

\* The two parts of the bytes of one call: what the socket takes and the rest.
LEMMA AfterSplits ==
  ASSUME NEW n \in Nat, NEW len \in Nat, NEW k \in 0 .. len
  PROVE  /\ SubSeq(After(n, len), 1, k) = After(n, k)
         /\ SubSeq(After(n, len), k + 1, len) \in Seq(Byte)
         /\ Len(SubSeq(After(n, len), k + 1, len)) = len - k
         /\ After(n, k) \o SubSeq(After(n, len), k + 1, len) = After(n, len)
<1> DEFINE s == After(n, len)
<1>1. /\ s \in Seq(Byte) /\ Len(s) = len
      /\ \A i \in 1 .. len : s[i] = n + i
  BY AfterIs
<1> HIDE DEF s
<1>2. SubSeq(s, 1, k) = After(n, k)
  <2>1. \A i \in 1 .. k : s[i] \in Byte
    BY <1>1 DEF Byte
  <2>2. /\ SubSeq(s, 1, k) \in Seq(Byte)
        /\ Len(SubSeq(s, 1, k)) = IF 1 <= k THEN k - 1 + 1 ELSE 0
        /\ \A i \in 1 .. k - 1 + 1 : SubSeq(s, 1, k)[i] = s[1 + i - 1]
    BY <2>1, SubSeqProperties
  <2>3. Len(SubSeq(s, 1, k)) = k
    BY <2>2
  <2>4. ASSUME NEW i \in 1 .. k PROVE SubSeq(s, 1, k)[i] = After(n, k)[i]
    <3>1. i \in 1 .. k - 1 + 1 /\ 1 + i - 1 = i /\ i \in 1 .. len
      OBVIOUS
    <3>2. SubSeq(s, 1, k)[i] = s[i] /\ s[i] = n + i /\ After(n, k)[i] = n + i
      <4>1. SubSeq(s, 1, k)[i] = s[i]
        BY <2>2, <3>1
      <4>2. s[i] = n + i
        BY <1>1, <3>1
      <4> QED
        BY <4>1, <4>2, AfterIs
    <3> QED
      BY <3>2
  <2> QED
    BY <2>2, <2>3, <2>4, AfterIs, SeqEqual
<1>3. SubSeq(s, k + 1, len) \in Seq(Byte) /\ Len(SubSeq(s, k + 1, len)) = len - k
  <2>1. \A i \in k + 1 .. len : s[i] \in Byte
    BY <1>1 DEF Byte
  <2>2. /\ SubSeq(s, k + 1, len) \in Seq(Byte)
        /\ Len(SubSeq(s, k + 1, len)) = IF k + 1 <= len THEN len - (k + 1) + 1 ELSE 0
    BY <2>1, SubSeqProperties
  <2> QED
    BY <2>2
<1>4. SubSeq(s, 1, k) \o SubSeq(s, k + 1, len) = s
  <2>1. SubSeq(s, 1, k) \o SubSeq(s, k + 1, len) = SubSeq(s, 1, len)
    <3>1. 1 \in 1 .. Len(s) + 1 /\ k \in 1 - 1 .. Len(s) /\ len \in k .. Len(s)
      BY <1>1
    <3>2. s \in Seq(Byte)
      BY <1>1
    <3> QED
      BY <3>1, <3>2, ConcatAdjacentSubSeq
  <2> QED
    BY <1>1, <2>1, SubSeqFull
<1> QED
  BY <1>2, <1>3, <1>4 DEF s

-----------------------------------------------------------------------------
(* Sequences that a step moves bytes between.                              *)

\* Moving bytes from the front of one sequence to the end of the other.
LEMMA MoveBytes ==
  ASSUME NEW a \in Seq(Byte), NEW b \in Seq(Byte), NEW c \in Seq(Byte)
  PROVE  (a \o b) \o c = a \o (b \o c)
BY ConcatAssociative

\* What sendInLoop does to the written and the buffered bytes: k of the bytes
\* go to the first, directly behind it, and the others to the end.
LEMMA TakeBytes ==
  ASSUME NEW w \in Seq(Byte), NEW p \in Seq(Byte), NEW n \in Nat, w \o p = UpTo(n),
         NEW len \in Nat, NEW k \in 0 .. len, k = 0 \/ p = <<>>
  PROVE  /\ (w \o After(n, k)) \o p = UpTo(n + k)
         /\ (w \o After(n, k)) \o (p \o SubSeq(After(n, len), k + 1, len)) = UpTo(n + len)
<1> DEFINE a == After(n, k)
           r == SubSeq(After(n, len), k + 1, len)
<1>0. k \in Nat
  OBVIOUS
<1>1. /\ a \in Seq(Byte) /\ Len(a) = k
      /\ r \in Seq(Byte) /\ a \o r = After(n, len)
  <2>1. a \in Seq(Byte) /\ Len(a) = k
    BY <1>0, AfterIs
  <2>2. r \in Seq(Byte) /\ a \o r = After(n, len)
    BY AfterSplits
  <2> QED
    BY <2>1, <2>2
<1>2. UpTo(n) \o a = UpTo(n + k)
  BY <1>0, UpToGrows
<1>3. UpTo(n) \o (a \o r) = UpTo(n + len)
  BY <1>1, UpToGrows
<1>4. UpTo(n) \in Seq(Byte)
  BY UpToIs
<1> HIDE DEF a, r
<1>5. (w \o a) \o p = UpTo(n) \o a
  <2>1. CASE k = 0
    <3>1. a = <<>>
      BY <1>1, <2>1, EmptySeq
    <3> QED
      BY <3>1, <1>4, ConcatEmptySeq
  <2>2. CASE p = <<>>
    <3>1. w = UpTo(n)
      BY <2>2, ConcatEmptySeq
    <3>2. w \o a \in Seq(Byte)
      BY <1>1, ConcatProperties
    <3> QED
      BY <2>2, <3>1, <3>2, ConcatEmptySeq
  <2> QED
    BY <2>1, <2>2
<1>6. (w \o a) \o (p \o r) = UpTo(n) \o (a \o r)
  <2>1. w \o a \in Seq(Byte)
    BY <1>1, ConcatProperties
  <2>2. (w \o a) \o (p \o r) = ((w \o a) \o p) \o r
    BY <1>1, <2>1, MoveBytes
  <2>3. ((w \o a) \o p) \o r = (UpTo(n) \o a) \o r
    BY <1>5
  <2>4. (UpTo(n) \o a) \o r = UpTo(n) \o (a \o r)
    BY <1>1, <1>4, MoveBytes
  <2> QED
    BY <2>2, <2>3, <2>4
<1> QED
  BY <1>2, <1>3, <1>5, <1>6 DEF a, r

-----------------------------------------------------------------------------
(* The way out.                                                            *)

\* The written and the buffered bytes are what the connection has taken.
OutInv ==
  /\ taken \in Nat /\ wire \in Seq(Byte) /\ writing \in BOOLEAN
  /\ GoodBuffer(outputBuffer_)
  /\ SentInOrder

\* The FIN is behind them: nothing is buffered once it is sent.
FinInv == finSent /\ closing = "no" => ReadableBytes(outputBuffer_) = 0

LEMMA OutLength ==
  ASSUME OutInv
  PROVE  /\ Len(wire) \in Nat /\ ReadableBytes(outputBuffer_) \in Nat
         /\ Peek(outputBuffer_) \in Seq(Byte)
         /\ taken = Len(wire) + ReadableBytes(outputBuffer_)
         /\ ReadableBytes(outputBuffer_) = 0 => Peek(outputBuffer_) = <<>>
<1>1. /\ Peek(outputBuffer_) \in Seq(Byte)
      /\ Len(Peek(outputBuffer_)) = ReadableBytes(outputBuffer_)
      /\ ReadableBytes(outputBuffer_) \in Nat
  BY PeekIs DEF OutInv
<1>2. wire \in Seq(Byte) /\ taken \in Nat /\ wire \o Peek(outputBuffer_) = UpTo(taken)
  BY DEF OutInv, SentInOrder
<1>3. Len(UpTo(taken)) = taken
  BY <1>2, UpToIs
<1>4. Len(wire) \in Nat
  BY <1>2, LenProperties
<1>5. Len(wire \o Peek(outputBuffer_)) = Len(wire) + Len(Peek(outputBuffer_))
  BY <1>1, <1>2, ConcatProperties
<1>6. Len(Peek(outputBuffer_)) = 0 => Peek(outputBuffer_) = <<>>
  BY <1>1, EmptySeq
<1> QED
  BY <1>1, <1>2, <1>3, <1>4, <1>5, <1>6

\* What a step on the way out keeps.
SendInv == OutInv /\ InterestIffBuffered /\ FinInv

LEMMA FunctorType ==
  ASSUME NEW op \in {"send", "sendFile", "shutdown", "writeComplete", "highWater", "destroyed"},
         NEW len \in Nat, NEW queue \in Seq(Functors)
  PROVE  Functor(op, len) \in Functors /\ Append(queue, Functor(op, len)) \in Seq(Functors)
<1>1. Functor(op, len) \in Functors
  BY DEF Functor, Functors
<1> QED
  BY <1>1, AppendProperties

\* sendInLoop puts its bytes behind those that wait, or writes them if none do,
\* and never behind a FIN.
LEMMA SendKeeps ==
  ASSUME SendInv, NEW len \in Nat, NEW queue \in Seq(Functors),
         SendInLoop(len, queue), UNCHANGED connVars
  PROVE  SendInv' /\ functors' \in Seq(Functors)
<1> DEFINE n == ReadableBytes(outputBuffer_)
           p == Peek(outputBuffer_)
<1>1. PICK result \in IF Direct THEN WriteResults(len) ELSE {0} :
        /\ wire' = wire \o SubSeq(Bytes(len), 1, NWrote(result))
        /\ IF NWrote(result) < len /\ result # Broken
             THEN /\ BufferRest(SubSeq(Bytes(len), NWrote(result) + 1, len), queue)
                  /\ taken' = taken + len
             ELSE /\ functors' = IF NWrote(result) = len
                                   THEN Append(queue, Functor("writeComplete", 0))
                                   ELSE queue
                  /\ taken' = taken + NWrote(result)
                  /\ UNCHANGED <<writing, outputBuffer_>>
  BY DEF SendInLoop
<1> DEFINE k == NWrote(result)
           rest == SubSeq(After(taken, len), k + 1, len)
<1>2. /\ taken \in Nat /\ wire \in Seq(Byte) /\ GoodBuffer(outputBuffer_)
      /\ n \in Nat /\ p \in Seq(Byte) /\ wire \o p = UpTo(taken)
      /\ n = 0 => p = <<>>
  BY OutLength DEF SendInv, OutInv, SentInOrder
<1>3. k \in 0 .. len /\ k \in Nat /\ (k = 0 \/ n = 0)
  BY <1>1 DEF NWrote, Broken, WriteResults, Direct
<1>4. finSent /\ closing = "no" => result = Broken
  BY <1>1 DEF SendInv, FinInv, InterestIffBuffered, Direct, WriteResults
<1>5. Bytes(len) = After(taken, len)
  BY DEF Bytes, After
<1>6. /\ SubSeq(After(taken, len), 1, k) = After(taken, k)
      /\ rest \in Seq(Byte) /\ Len(rest) = len - k
  BY <1>2, <1>3, AfterSplits
<1>7. wire' = wire \o After(taken, k)
  BY <1>1, <1>5, <1>6
<1>8. wire' \in Seq(Byte)
  <2>1. After(taken, k) \in Seq(Byte)
    BY <1>2, <1>3, AfterIs
  <2> QED
    BY <1>2, <1>7, <2>1, ConcatProperties
<1>9. /\ wire' \o p = UpTo(taken + k)
      /\ wire' \o (p \o rest) = UpTo(taken + len)
  <2>1. k = 0 \/ p = <<>>
    BY <1>2, <1>3
  <2> HIDE DEF k, n, p
  <2>2. /\ (wire \o After(taken, k)) \o p = UpTo(taken + k)
        /\ (wire \o After(taken, k)) \o (p \o rest) = UpTo(taken + len)
    <3>1. /\ wire \in Seq(Byte) /\ p \in Seq(Byte) /\ taken \in Nat /\ wire \o p = UpTo(taken)
          /\ k \in 0 .. len
      BY <1>2, <1>3
    <3> QED
      BY <2>1, <3>1, TakeBytes, ZenonT(60)
  <2> QED
    BY <1>7, <2>2
<1>10. CASE k < len /\ result # Broken
  <2>1. /\ BufferRest(rest, queue)
        /\ taken' = taken + len
    BY <1>1, <1>5, <1>10
  <2> HIDE DEF k, rest, n, p
  <2>2. /\ outputBuffer_' = BufferAppend(outputBuffer_, rest)
        /\ writing' = TRUE
        /\ functors' = queue \/ functors' = Append(queue, Functor("highWater", 0))
    BY <2>1 DEF BufferRest
  <2>3. GoodBuffer(outputBuffer_') /\ Peek(outputBuffer_') = Peek(outputBuffer_) \o rest
    BY <1>2, <1>6, <2>2, AppendAppends
  <2>4. wire' \o Peek(outputBuffer_') = UpTo(taken')
    BY <1>9, <2>1, <2>3 DEF p
  <2>5. ReadableBytes(outputBuffer_') > 0
    <3>1. Len(Peek(outputBuffer_')) = Len(p) + Len(rest)
      <4>1. Peek(outputBuffer_') = p \o rest
        BY <2>3 DEF p
      <4>2. p \in Seq(Byte) /\ rest \in Seq(Byte)
        BY <1>2, <1>6
      <4>3. Len(p \o rest) = Len(p) + Len(rest)
        BY <4>2, ConcatProperties
      <4> QED
        BY <4>1, <4>3
    <3>2. Len(Peek(outputBuffer_')) = ReadableBytes(outputBuffer_')
      BY <2>3, PeekIs
    <3>3. Len(p) \in Nat
      BY <1>2, LenProperties
    <3> QED
      BY <1>3, <1>6, <1>10, <3>1, <3>2, <3>3
  <2>6. OutInv'
    BY <1>2, <1>8, <2>1, <2>2, <2>3, <2>4 DEF OutInv, SentInOrder
  <2>7. InterestIffBuffered' /\ FinInv'
    BY <1>4, <1>10, <2>2, <2>5 DEF InterestIffBuffered, FinInv, connVars
  <2>8. functors' \in Seq(Functors)
    BY <2>2, FunctorType
  <2> QED
    BY <2>6, <2>7, <2>8 DEF SendInv
<1>11. CASE ~(k < len /\ result # Broken)
  <2>1. /\ functors' = queue \/ functors' = Append(queue, Functor("writeComplete", 0))
        /\ taken' = taken + k
        /\ writing' = writing /\ outputBuffer_' = outputBuffer_
    BY <1>1, <1>11
  <2> HIDE DEF k, rest, n, p
  <2>2. OutInv'
    <3>1. taken' \in Nat /\ writing' \in BOOLEAN /\ GoodBuffer(outputBuffer_')
      BY <1>2, <1>3, <2>1 DEF SendInv, OutInv
    <3>2. wire' \o Peek(outputBuffer_') = UpTo(taken')
      BY <1>9, <2>1 DEF p
    <3> QED
      BY <1>8, <3>1, <3>2 DEF OutInv, SentInOrder
  <2>3. InterestIffBuffered' /\ FinInv'
    BY <2>1 DEF SendInv, InterestIffBuffered, FinInv, connVars
  <2>4. functors' \in Seq(Functors)
    BY <2>1, FunctorType
  <2> QED
    BY <2>2, <2>3, <2>4 DEF SendInv
<1> QED
  BY <1>10, <1>11

\* sendFileInLoop writes only when nothing waits, and buffers nothing.
LEMMA SendFileKeeps ==
  ASSUME SendInv, NEW count \in Nat, NEW queue \in Seq(Functors),
         SendFileInLoop(count, queue), UNCHANGED connVars
  PROVE  SendInv' /\ functors' \in Seq(Functors)
<1> DEFINE p == Peek(outputBuffer_)
<1>1. /\ taken \in Nat /\ wire \in Seq(Byte) /\ GoodBuffer(outputBuffer_)
      /\ p \in Seq(Byte) /\ wire \o p = UpTo(taken)
      /\ ReadableBytes(outputBuffer_) = 0 => p = <<>>
      /\ writing' = writing /\ outputBuffer_' = outputBuffer_
  BY OutLength DEF SendInv, OutInv, SentInOrder, SendFileInLoop
<1>2. InterestIffBuffered' /\ FinInv'
  BY <1>1 DEF SendInv, InterestIffBuffered, FinInv, connVars
<1>3. CASE state_ = "kDisconnecting"
  <2>1. functors' = queue /\ wire' = wire /\ taken' = taken
    BY <1>3 DEF SendFileInLoop
  <2> QED
    BY <1>1, <1>2, <2>1 DEF SendInv, OutInv, SentInOrder
<1>4. CASE state_ # "kDisconnecting"
  <2>1. PICK result \in IF Direct THEN WriteResults(count) ELSE {0} :
          /\ wire' = wire \o SubSeq(Bytes(count), 1, NWrote(result))
          /\ taken' = taken + NWrote(result)
          /\ functors' = CASE result = Broken -> queue
                           [] result = count  -> Append(queue, Functor("writeComplete", 0))
                           [] OTHER -> Append(queue, Functor("sendFile", count - NWrote(result)))
    BY <1>4 DEF SendFileInLoop
  <2> DEFINE k == NWrote(result)
  <2>2. k \in 0 .. count /\ k \in Nat /\ count - k \in Nat /\ (k = 0 \/ p = <<>>)
    BY <1>1, <2>1 DEF NWrote, Broken, WriteResults, Direct
  <2>3. Bytes(count) = After(taken, count)
    BY DEF Bytes, After
  <2>4. wire' = wire \o After(taken, k)
    <3>1. SubSeq(After(taken, count), 1, k) = After(taken, k)
      BY <1>1, <2>2, AfterSplits
    <3> QED
      BY <2>1, <2>3, <3>1
  <2> HIDE DEF k, p
  <2>5. wire' \in Seq(Byte)
    <3>1. After(taken, k) \in Seq(Byte)
      BY <1>1, <2>2, AfterIs
    <3> QED
      BY <1>1, <2>4, <3>1, ConcatProperties
  <2>6. wire' \o p = UpTo(taken + k)
    <3>1. (wire \o After(taken, k)) \o p = UpTo(taken + k)
      <4>1. /\ wire \in Seq(Byte) /\ p \in Seq(Byte) /\ taken \in Nat /\ wire \o p = UpTo(taken)
            /\ count \in Nat /\ k \in 0 .. count /\ (k = 0 \/ p = <<>>)
        BY <1>1, <2>2
      <4> QED
        BY <4>1, TakeBytes, ZenonT(60)
    <3> QED
      BY <2>4, <3>1
  <2>7. functors' \in Seq(Functors)
    <3>1. \/ functors' = queue
          \/ functors' = Append(queue, Functor("writeComplete", 0))
          \/ functors' = Append(queue, Functor("sendFile", count - k))
      BY <2>1 DEF k
    <3> QED
      BY <2>2, <3>1, FunctorType
  <2>8. OutInv'
    <3>1. taken' \in Nat /\ writing' \in BOOLEAN
      BY <1>1, <2>1, <2>2 DEF SendInv, OutInv, k
    <3>2. wire' \o Peek(outputBuffer_') = UpTo(taken')
      BY <1>1, <2>1, <2>6 DEF p, k
    <3> QED
      BY <1>1, <2>5, <3>1, <3>2 DEF OutInv, SentInOrder
  <2> QED
    BY <1>2, <2>7, <2>8 DEF SendInv
<1> QED
  BY <1>3, <1>4

\* shutdownInLoop sends the FIN only with nothing buffered.
LEMMA ShutdownKeeps ==
  ASSUME SendInv, ShutdownInLoop, UNCHANGED <<outVars, closing>>
  PROVE  SendInv'
<1>1. /\ writing' = writing /\ outputBuffer_' = outputBuffer_ /\ closing' = closing
      /\ taken' = taken /\ wire' = wire
  BY DEF outVars
<1>2. OutInv' /\ InterestIffBuffered'
  BY <1>1 DEF SendInv, OutInv, SentInOrder, InterestIffBuffered
<1>3. finSent' => finSent \/ ~writing
  BY DEF ShutdownInLoop, MayShutdownWrite
<1>4. ReadableBytes(outputBuffer_) \in Nat
  BY OutLength DEF SendInv
<1>5. FinInv'
  BY <1>1, <1>3, <1>4 DEF SendInv, InterestIffBuffered, FinInv
<1> QED
  BY <1>2, <1>5 DEF SendInv

\* handleWrite moves bytes from the buffer to the socket; with the last one it
\* gives up EPOLLOUT, and sends the FIN that has waited.
LEMMA WriteKeeps ==
  ASSUME SendInv, finSent \in BOOLEAN, NEW n \in Nat, HandleWrite(n), functors \in Seq(Functors)
  PROVE  SendInv' /\ functors' \in Seq(Functors) /\ finSent' \in BOOLEAN
<1> DEFINE left == Retrieve(outputBuffer_, n)
           w == WriteFd(outputBuffer_, n)
<1>1. /\ n <= ReadableBytes(outputBuffer_) /\ n \in WriteResults(n)
      /\ wire' = wire \o w
      /\ outputBuffer_' = left
      /\ writing' = (ReadableBytes(left) # 0)
      /\ functors' = IF ReadableBytes(left) = 0
                       THEN Append(functors, Functor("writeComplete", 0)) ELSE functors
      /\ finSent' = (finSent \/ (ReadableBytes(left) = 0 /\ state_ = "kDisconnecting"))
      /\ closing' = closing /\ taken' = taken
  BY DEF HandleWrite, StillWriting, ResumesShutdown
<1>2. ~finSent
  BY <1>1 DEF WriteResults, Broken
<1>3. /\ wire \in Seq(Byte) /\ GoodBuffer(outputBuffer_) /\ taken \in Nat
      /\ wire \o Peek(outputBuffer_) = UpTo(taken)
  BY DEF SendInv, OutInv, SentInOrder
<1>4. GoodBuffer(left) /\ Peek(outputBuffer_) = w \o Peek(left)
  BY <1>1, <1>3, RetrieveTakes DEF WriteFd, RetrieveAsString
<1>5. w \in Seq(Byte)
  <2>1. /\ Peek(outputBuffer_) \in Seq(Byte)
        /\ Len(Peek(outputBuffer_)) = ReadableBytes(outputBuffer_)
        /\ ReadableBytes(outputBuffer_) \in Nat
    BY <1>3, PeekIs
  <2>2. \A i \in 1 .. n : Peek(outputBuffer_)[i] \in Byte
    BY <1>1, <2>1, ElementOfSeq
  <2> QED
    BY <2>2, SubSeqProperties DEF WriteFd
<1>6. ReadableBytes(left) \in Nat /\ Peek(left) \in Seq(Byte)
  BY <1>4, PeekIs
<1> HIDE DEF left, w
<1>7. wire' \in Seq(Byte)
  BY <1>1, <1>3, <1>5, ConcatProperties
<1>8. (wire \o w) \o Peek(left) = UpTo(taken)
  <2>1. (wire \o w) \o Peek(left) = wire \o (w \o Peek(left))
    BY <1>3, <1>5, <1>6, MoveBytes
  <2> QED
    BY <1>3, <1>4, <2>1
<1>9. OutInv'
  BY <1>1, <1>3, <1>4, <1>7, <1>8 DEF OutInv, SentInOrder
<1>10. InterestIffBuffered' /\ FinInv'
  <2>1. writing' <=> ReadableBytes(left) > 0
    <3>1. writing' <=> ReadableBytes(left) # 0
      BY <1>1, Zenon
    <3>2. ReadableBytes(left) # 0 <=> ReadableBytes(left) > 0
      BY <1>6
    <3> QED
      BY <3>1, <3>2, Zenon
  <2>2. finSent' => ReadableBytes(left) = 0
    BY <1>1, <1>2
  <2>3. outputBuffer_' = left
    BY <1>1
  <2> QED
    BY <2>1, <2>2, <2>3 DEF InterestIffBuffered, FinInv
<1>11. functors' \in Seq(Functors)
  BY <1>1, FunctorType
<1> QED
  BY <1>1, <1>9, <1>10, <1>11 DEF SendInv

-----------------------------------------------------------------------------
(* The way in.                                                             *)

\* What the application has retrieved and what it has left in the buffer is
\* what the kernel has handed over.
InInv ==
  /\ received \in 0 .. MaxReceive /\ consumed \in Seq(Byte)
  /\ GoodBuffer(inputBuffer_)
  /\ ReceivedInOrder

\* handleRead and the application's retrieves keep the bytes in order.
LEMMA ReadKeeps ==
  ASSUME InInv, NEW n \in Lens, NEW len \in 0 .. MaxReceive, HandleRead(n, len)
  PROVE  InInv'
<1> DEFINE data == After(received, n)
           filled == ReadFd(inputBuffer_, data)
           s == RetrieveAsString(filled, len)
           left == Retrieve(filled, len)
<1>1. n \in Nat /\ received \in Nat /\ len \in Nat /\ received + n <= MaxReceive
  BY LensAssumption, BoundsAssumption DEF InInv, HandleRead
<1>2. /\ received' = received + n
      /\ len <= ReadableBytes(filled)
      /\ consumed' = consumed \o s
      /\ inputBuffer_' = left
  BY DEF HandleRead, After
<1>3. data \in Seq(Byte)
  BY <1>1, AfterIs
<1> HIDE DEF data
<1>4. GoodBuffer(filled) /\ Peek(filled) = Peek(inputBuffer_) \o data
  BY <1>3, ReadFdAppends DEF InInv
<1> HIDE DEF filled
<1>5. GoodBuffer(left) /\ Peek(filled) = s \o Peek(left)
  BY <1>1, <1>2, <1>4, RetrieveTakes
<1>6. s \in Seq(Byte)
  <2>1. /\ Peek(filled) \in Seq(Byte) /\ Len(Peek(filled)) = ReadableBytes(filled)
        /\ ReadableBytes(filled) \in Nat
    BY <1>4, PeekIs
  <2>2. \A i \in 1 .. len : Peek(filled)[i] \in Byte
    BY <1>1, <1>2, <2>1, ElementOfSeq
  <2> QED
    BY <2>2, SubSeqProperties DEF RetrieveAsString
<1>7. Peek(left) \in Seq(Byte) /\ Peek(inputBuffer_) \in Seq(Byte) /\ consumed \in Seq(Byte)
  BY <1>5, PeekIs DEF InInv
<1> HIDE DEF s, left
<1>8. consumed' \in Seq(Byte)
  BY <1>2, <1>6, <1>7, ConcatProperties
<1>9. (consumed \o s) \o Peek(left) = UpTo(received + n)
  <2>1. (consumed \o s) \o Peek(left) = consumed \o (s \o Peek(left))
    BY <1>6, <1>7, MoveBytes
  <2>2. consumed \o (Peek(inputBuffer_) \o data) = (consumed \o Peek(inputBuffer_)) \o data
    BY <1>3, <1>7, MoveBytes
  <2>3. consumed \o Peek(inputBuffer_) = UpTo(received)
    BY DEF InInv, ReceivedInOrder
  <2>4. UpTo(received) \o data = UpTo(received + n)
    BY <1>1, UpToGrows DEF data
  <2> QED
    BY <1>4, <1>5, <2>1, <2>2, <2>3, <2>4
<1>10. received' \in 0 .. MaxReceive
  BY <1>1, <1>2, BoundsAssumption
<1> QED
  BY <1>2, <1>5, <1>8, <1>9, <1>10 DEF InInv, ReceivedInOrder

-----------------------------------------------------------------------------
(* All of it.                                                              *)

\* The rest of the state.
ConnInv ==
  /\ state_ \in {"kConnected", "kDisconnecting", "kDisconnected"}
  /\ functors \in Seq(Functors)
  /\ peer \in {"open", "fin", "rst"}
  /\ finSent \in BOOLEAN
  /\ closing \in {"no", "removing", "queued", "destroyed"}
  /\ asked \in 0 .. MaxSend

\* The inductive invariant.  Each of the checked ones needs the others: the
\* order of the bytes rests on writing directly only when nothing is buffered,
\* the interest in EPOLLOUT on the length of the buffer, the FIN on both.
IOInv == SendInv /\ InInv /\ ConnInv

LEMMA InitIO == Init => IOInv
<1> SUFFICES ASSUME Init PROVE IOInv
  OBVIOUS
<1>1. UpTo(0) = <<>>
  BY UpToIs, EmptySeq
<1>2. GoodBuffer(NewBuffer) /\ Peek(NewBuffer) = <<>>
  BY NewBufferGood
<1>3. ReadableBytes(NewBuffer) = 0
  BY BufferAssumption DEF ReadableBytes, NewBuffer
<1>4. <<>> \in Seq(Byte) /\ <<>> \in Seq(Functors) /\ <<>> \o <<>> = <<>>
  OBVIOUS
<1>5. SendInv
  <2>1. /\ taken = 0 /\ wire = <<>> /\ writing = FALSE /\ outputBuffer_ = NewBuffer
        /\ finSent = FALSE
    BY DEF Init
  <2>2. OutInv
    BY <1>1, <1>2, <1>4, <2>1 DEF OutInv, SentInOrder
  <2>3. InterestIffBuffered /\ FinInv
    BY <1>3, <2>1 DEF InterestIffBuffered, FinInv
  <2> QED
    BY <2>2, <2>3 DEF SendInv
<1>6. InInv
  BY <1>1, <1>2, <1>4, BoundsAssumption DEF Init, InInv, ReceivedInOrder
<1>7. ConnInv
  <2>1. functors = <<>> /\ asked = 0 /\ MaxSend \in Nat
    BY BoundsAssumption DEF Init
  <2>2. functors \in Seq(Functors) /\ asked \in 0 .. MaxSend
    BY <1>4, <2>1
  <2> QED
    BY <2>2 DEF Init, ConnInv
<1> QED
  BY <1>5, <1>6, <1>7 DEF IOInv

\* Steps that leave one of the two ways alone.
LEMMA OutSame ==
  SendInv /\ UNCHANGED <<outVars, finSent, closing>> => SendInv'
BY DEF SendInv, OutInv, SentInOrder, InterestIffBuffered, FinInv, outVars

LEMMA InSame == InInv /\ UNCHANGED inVars => InInv'
BY DEF InInv, ReceivedInOrder, inVars

\* Every step keeps the invariant.
LEMMA StepIO == IOInv /\ [Next]_vars => IOInv'
<1> SUFFICES ASSUME IOInv, [Next]_vars PROVE IOInv'
  OBVIOUS
<1> USE DEF IOInv
<1>1. ASSUME NEW len \in Lens, Send(len) \/ SendFile(len)
      PROVE  IOInv'
  <2>1. len \in Nat /\ asked' \in 0 .. MaxSend
    BY <1>1, LensAssumption, BoundsAssumption DEF Send, SendFile, CanSend, ConnInv
  <2>2. SendInv' /\ functors' \in Seq(Functors)
    BY <1>1, <2>1, SendKeeps, SendFileKeeps DEF Send, SendFile, ConnInv
  <2>3. InInv'
    BY <1>1, InSame DEF Send, SendFile
  <2> QED
    BY <1>1, <2>1, <2>2, <2>3 DEF Send, SendFile, ConnInv, connVars
<1>2. ASSUME NEW len \in Lens, NEW op \in {"send", "sendFile"}, QueueSend(op, len)
      PROVE  IOInv'
  <2>1. len \in Nat /\ asked' \in 0 .. MaxSend
    BY <1>2, LensAssumption, BoundsAssumption DEF QueueSend, CanSend, ConnInv
  <2>2. SendInv' /\ InInv'
    BY <1>2, OutSame, InSame DEF QueueSend, connVars
  <2>3. functors' \in Seq(Functors)
    BY <1>2, <2>1, FunctorType DEF QueueSend, ConnInv
  <2> QED
    BY <1>2, <2>1, <2>2, <2>3 DEF QueueSend, ConnInv, connVars
<1>3. CASE Shutdown
  <2>1. SendInv' /\ InInv'
    BY <1>3, ShutdownKeeps, InSame DEF Shutdown
  <2>2. finSent' \in BOOLEAN
    BY <1>3 DEF Shutdown, ShutdownInLoop
  <2> QED
    BY <1>3, <2>1, <2>2 DEF Shutdown, ConnInv
<1>4. CASE QueueShutdown
  <2>1. SendInv' /\ InInv'
    BY <1>4, OutSame, InSame DEF QueueShutdown
  <2>2. functors' \in Seq(Functors)
    BY <1>4, FunctorType DEF QueueShutdown, ConnInv
  <2> QED
    BY <1>4, <2>1, <2>2 DEF QueueShutdown, ConnInv
<1>5. ASSUME NEW n \in Lens, NEW len \in 0 .. MaxReceive, HandleRead(n, len)
      PROVE  IOInv'
  <2>1. InInv'
    BY <1>5, ReadKeeps
  <2>2. SendInv'
    BY <1>5, OutSame DEF HandleRead, connVars
  <2> QED
    BY <1>5, <2>1, <2>2 DEF HandleRead, ConnInv, connVars
<1>6. CASE Writes
  <2>1. PICK n \in 1 .. ReadableBytes(outputBuffer_) : HandleWrite(n)
    BY <1>6 DEF Writes
  <2>2. n \in Nat
    BY OutLength DEF SendInv
  <2>3. SendInv' /\ functors' \in Seq(Functors) /\ finSent' \in BOOLEAN
    BY <2>1, <2>2, WriteKeeps DEF ConnInv
  <2>4. InInv'
    BY <2>1, InSame DEF HandleWrite
  <2> QED
    BY <2>1, <2>3, <2>4 DEF HandleWrite, ConnInv
<1>7. CASE HandleClose
  <2>1. SendInv'
    BY <1>7 DEF HandleClose, SendInv, OutInv, SentInOrder, InterestIffBuffered, FinInv
  <2>2. InInv'
    BY <1>7, InSame DEF HandleClose
  <2> QED
    BY <1>7, <2>1, <2>2 DEF HandleClose, ConnInv
<1>8. CASE RemoveConnection
  <2>1. SendInv'
    BY <1>8 DEF RemoveConnection, SendInv, OutInv, SentInOrder, InterestIffBuffered, FinInv, outVars
  <2>2. InInv' /\ functors' \in Seq(Functors)
    BY <1>8, InSame, FunctorType DEF RemoveConnection, ConnInv
  <2> QED
    BY <1>8, <2>1, <2>2 DEF RemoveConnection, ConnInv
<1>9. CASE RunFunctor
  <2>1. functors # <<>>
    BY <1>9 DEF RunFunctor, RunSend, RunSendFile, RunShutdown, RunCallback, RunDestroyed, Running
  <2>2. Head(functors) \in Functors /\ Tail(functors) \in Seq(Functors)
    BY <2>1, HeadTailProperties DEF ConnInv
  <2>3. Head(functors).len \in Nat
    BY <2>2 DEF Functors
  <2>4. CASE RunSend
    <3>1. SendInv' /\ functors' \in Seq(Functors)
      BY <2>2, <2>3, <2>4, SendKeeps DEF RunSend
    <3> QED
      BY <2>4, <3>1, InSame DEF RunSend, ConnInv, connVars
  <2>5. CASE RunSendFile
    <3>1. SendInv' /\ functors' \in Seq(Functors)
      BY <2>2, <2>3, <2>5, SendFileKeeps DEF RunSendFile
    <3> QED
      BY <2>5, <3>1, InSame DEF RunSendFile, ConnInv, connVars
  <2>6. CASE RunShutdown
    <3>1. SendInv' /\ InInv'
      BY <2>6, ShutdownKeeps, InSame DEF RunShutdown
    <3>2. finSent' \in BOOLEAN
      BY <2>6 DEF RunShutdown, ShutdownInLoop
    <3> QED
      BY <2>2, <2>6, <3>1, <3>2 DEF RunShutdown, ConnInv
  <2>7. CASE RunCallback
    <3>1. SendInv' /\ InInv'
      BY <2>7, OutSame, InSame DEF RunCallback, connVars
    <3> QED
      BY <2>2, <2>7, <3>1 DEF RunCallback, ConnInv, connVars
  <2>8. CASE RunDestroyed
    <3>1. SendInv'
      BY <2>8 DEF RunDestroyed, SendInv, OutInv, SentInOrder, InterestIffBuffered, FinInv, outVars
    <3>2. InInv'
      BY <2>8, InSame DEF RunDestroyed
    <3> QED
      BY <2>2, <2>8, <3>1, <3>2 DEF RunDestroyed, ConnInv
  <2> QED
    BY <1>9, <2>4, <2>5, <2>6, <2>7, <2>8 DEF RunFunctor
<1>10. ASSUME NEW how \in {"fin", "rst"}, PeerCloses(how)
       PROVE  IOInv'
  <2>1. SendInv' /\ InInv'
    BY <1>10, OutSame, InSame DEF PeerCloses
  <2> QED
    BY <1>10, <2>1 DEF PeerCloses, ConnInv
<1>11. CASE UNCHANGED vars
  <2>1. SendInv' /\ InInv'
    BY <1>11, OutSame, InSame DEF vars, connVars
  <2> QED
    BY <1>11, <2>1 DEF vars, connVars, ConnInv
<1> QED
  BY <1>1, <1>2, <1>3, <1>4, <1>5, <1>6, <1>7, <1>8, <1>9, <1>10, <1>11 DEF Next

LEMMA IOInvariant == Spec => []IOInv
BY InitIO, StepIO, PTL DEF Spec, SafetySpec

\* The state keeps its type through every call, event and functor
\* (TcpConnection.cc).
THEOREM TypeCorrect == Spec => []TypeOK
<1>1. IOInv => TypeOK
  BY DEF IOInv, SendInv, OutInv, InInv, ConnInv, TypeOK, GoodBuffer
<1> QED
  BY <1>1, IOInvariant, PTL

\* No index of either buffer ever leaves its vector, for every size of the
\* vectors and the extra buffer and every mix of calls (Buffer.h).
THEOREM IndexesStayInside == Spec => []IndexesInside
<1>1. IOInv => IndexesInside
  BY DEF IOInv, SendInv, OutInv, InInv, IndexesInside, GoodBuffer
<1> QED
  BY <1>1, IOInvariant, PTL

\* No byte is lost, repeated or overtaken on its way out, whatever send,
\* sendFile and handleWrite (TcpConnection.cc) do in between.
THEOREM AlwaysSentInOrder == Spec => []SentInOrder
<1>1. IOInv => SentInOrder
  BY DEF IOInv, SendInv, OutInv
<1> QED
  BY <1>1, IOInvariant, PTL

\* Nor on its way in, through handleRead and the application's retrieves.
THEOREM AlwaysReceivedInOrder == Spec => []ReceivedInOrder
<1>1. IOInv => ReceivedInOrder
  BY DEF IOInv, InInv
<1> QED
  BY <1>1, IOInvariant, PTL

\* An open connection asks for EPOLLOUT exactly while bytes are buffered.
THEOREM InterestFollowsBuffer == Spec => []InterestIffBuffered
<1>1. IOInv => InterestIffBuffered
  BY DEF IOInv, SendInv
<1> QED
  BY <1>1, IOInvariant, PTL

\* shutdownWrite() comes behind every byte the connection has taken.
THEOREM FinComesLast == Spec => []FinAfterData
<1>1. ASSUME IOInv PROVE FinAfterData
  <2>1. OutInv /\ FinInv
    BY <1>1 DEF IOInv, SendInv
  <2> QED
    BY <2>1, OutLength DEF FinInv, FinAfterData
<1> QED
  BY <1>1, IOInvariant, PTL
=============================================================================
