------------------------------- MODULE Buffer -------------------------------
(***************************************************************************)
(* Buffer (src/include/Buffer.h, src/src/Buffer.cc): bytes between two     *)
(* indexes of a vector that starts with CheapPrepend reserved cells.       *)
(* A buffer is a record of the vector's cells and the two indexes, which   *)
(* count from 0 as in the code: the byte at index i is cells[i + 1].       *)
(* Each operator is the buffer after the member function of that name.     *)
(***************************************************************************)
EXTENDS Integers, Sequences

CONSTANTS CheapPrepend, InitialSize,
          ExtraSize         \* sizeof(extrabuf) in readFd

ASSUME BufferAssumption ==
  CheapPrepend \in Nat /\ InitialSize \in Nat /\ ExtraSize \in Nat \ {0}

Byte == Nat     \* bytes are known by their numbers
Unset == 0      \* a cell that has not been written

BufferType == [cells : Seq(Byte), reader : Nat, writer : Nat]

NewBuffer ==
  [cells |-> [i \in 1 .. CheapPrepend + InitialSize |-> Unset],
   reader |-> CheapPrepend, writer |-> CheapPrepend]

ReadableBytes(b)    == b.writer - b.reader
WritableBytes(b)    == Len(b.cells) - b.writer
PrependableBytes(b) == b.reader

\* The readable bytes, the ones that start at peek().
Peek(b) == SubSeq(b.cells, b.reader + 1, b.writer)

\* The string retrieveAsString returns, and the bytes writeFd writes when write
\* takes n of them.
RetrieveAsString(b, len) == SubSeq(Peek(b), 1, len)
WriteFd(b, n) == SubSeq(Peek(b), 1, n)

\* std::copy of data to index at.
CopyTo(cells, at, data) ==
  [i \in DOMAIN cells |-> IF i \in at + 1 .. at + Len(data) THEN data[i - at] ELSE cells[i]]

RetrieveAll(b) == [b EXCEPT !.reader = CheapPrepend, !.writer = CheapPrepend]

Retrieve(b, len) ==
  IF len < ReadableBytes(b) THEN [b EXCEPT !.reader = @ + len] ELSE RetrieveAll(b)

\* Mutant: the test for room forgets the reserved cells.
MakeSpaceInReserve(b, len) ==
  IF WritableBytes(b) + PrependableBytes(b) < len
    THEN [b EXCEPT !.cells = [i \in 1 .. b.writer + len |->
                                IF i \in DOMAIN b.cells THEN b.cells[i] ELSE Unset]]
    ELSE [cells |-> CopyTo(b.cells, CheapPrepend, Peek(b)),
          reader |-> CheapPrepend, writer |-> CheapPrepend + ReadableBytes(b)]

\* makeSpace: the vector grows, or the bytes move to the front.
MakeSpace(b, len) ==
  IF WritableBytes(b) + PrependableBytes(b) < len + CheapPrepend
    THEN [b EXCEPT !.cells = [i \in 1 .. b.writer + len |->
                                IF i \in DOMAIN b.cells THEN b.cells[i] ELSE Unset]]
    ELSE [cells |-> CopyTo(b.cells, CheapPrepend, Peek(b)),
          reader |-> CheapPrepend, writer |-> CheapPrepend + ReadableBytes(b)]

EnsureWritableBytes(b, len) == IF WritableBytes(b) < len THEN MakeSpace(b, len) ELSE b

\* The bytes after a buffer's writer, where there is room for them.
Fill(b, data) ==
  [b EXCEPT !.cells = CopyTo(@, b.writer, data), !.writer = @ + Len(data)]

BufferAppend(b, data) == Fill(EnsureWritableBytes(b, Len(data)), data)

\* readv fills the writable cells, then extrabuf if they are fewer than it has.
ReadFdMax(b) ==
  WritableBytes(b) + (IF WritableBytes(b) < ExtraSize THEN ExtraSize ELSE 0)

\* Mutant: the bytes in extrabuf are forgotten.
ReadFdNoExtra(b, data) ==
  IF Len(data) <= WritableBytes(b)
    THEN Fill(b, data)
    ELSE Fill(b, SubSeq(data, 1, WritableBytes(b)))

ReadFd(b, data) ==
  IF Len(data) <= WritableBytes(b)
    THEN Fill(b, data)
    ELSE BufferAppend(Fill(b, SubSeq(data, 1, WritableBytes(b))),
                      SubSeq(data, WritableBytes(b) + 1, Len(data)))

\* The indexes are in order and inside the vector, behind the reserved cells.
IndexesOK(b) ==
  /\ CheapPrepend <= b.reader
  /\ b.reader <= b.writer
  /\ b.writer <= Len(b.cells)
=============================================================================
