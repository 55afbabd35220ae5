---------------------------- MODULE FixedBuffer ----------------------------
(***************************************************************************)
(* FixedBuffer<buffer_size> (src/include/FixedBuffer.h): what it holds, as *)
(* a sequence of items with a length each, and how many bytes that is.     *)
(* LogStream builds a line in a small one, AsyncLogging collects lines in  *)
(* large ones.                                                             *)
(***************************************************************************)
EXTENDS Integers, Sequences

\* A new buffer, and one after reset().
Empty == [lines |-> <<>>, size |-> 0]

Avail(capacity, b) == capacity - b.size

\* The memcpy and add() of append and of LogStream::formatInteger.
Add(b, item) == [lines |-> Append(b.lines, item), size |-> b.size + item.len]

\* append: what does not fit is dropped.
FixedAppend(capacity, b, item) ==
  IF Avail(capacity, b) > item.len THEN Add(b, item) ELSE b
=============================================================================
