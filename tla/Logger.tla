------------------------------- MODULE Logger -------------------------------
(***************************************************************************)
(* One log line (src/src/Logger.cc, src/log/LogStream.cc).  A Logger is a  *)
(* temporary object: its constructor, the << operators and its destructor  *)
(* put piece after piece into the LogStream's FixedBuffer on the caller's  *)
(* stack, and nothing of it is shared until the destructor outputs it.     *)
(* The pieces are known by their lengths; what does not fit is dropped     *)
(* piece by piece.                                                         *)
(***************************************************************************)
EXTENDS FixedBuffer

CONSTANTS BasenameLen,    \* SourceFile::size_
          LineDigits      \* digits of the line number

ASSUME BasenameLenAssumption == BasenameLen \in Nat
ASSUME LineDigitsAssumption == LineDigits \in 1 .. 10

kSmallBufferSize == 4096
kMaxNumberSize == 32

\* Strings, characters and GeneralTemplates, and integers with their sign.
Text(len) == [kind |-> "text", len |-> len]
Number(len) == [kind |-> "number", len |-> len]
Newline == [kind |-> "newline", len |-> 1]

\* The longest number is the least long long, 20 characters with its sign.
Piece ==
  [kind : {"text"}, len : Nat] \cup [kind : {"number"}, len : 1 .. 20] \cup {Newline}

\* Mutant: the room for the longest number is not asked for.
FormatIntegerUnchecked(b, piece) == Add(b, piece)

\* formatInteger leaves a number out unless the longest one would fit.
FormatInteger(b, piece) ==
  IF Avail(kSmallBufferSize, b) >= kMaxNumberSize THEN Add(b, piece) ELSE b

\* operator<<
Insert(b, piece) ==
  IF piece.kind = "number"
    THEN FormatInteger(b, piece)
    ELSE FixedAppend(kSmallBufferSize, b, piece)

\* Impl::Impl: formatTime puts in 17 bytes of date, hour and minute and 7 of
\* microseconds; the name of the level follows.  savedErrno is always 0.
Impl == <<Text(17), Text(7), Text(6)>>

\* Impl::finish: " - ", the file's name, ':', the line number and the newline.
Finish == <<Text(3), Text(BasenameLen), Text(1), Number(LineDigits), Newline>>

\* The stream after the first n pieces.
Stream(pieces) ==
  LET after[n \in 0 .. Len(pieces)] ==
        IF n = 0 THEN Empty ELSE Insert(after[n - 1], pieces[n])
  IN  after

\* What the destructor outputs for a message of these pieces.
LogLine(body) ==
  LET pieces == Impl \o body \o Finish
  IN  Stream(pieces)[Len(pieces)]
=============================================================================
