------------------------ MODULE AsyncLogging_proofs ------------------------
(***************************************************************************)
(* The rotation of AsyncLogging's buffers and of its files, for any buffer *)
(* and file size, any line lengths, any number of lines, any course of the *)
(* time and any writes that fail.                                          *)
(***************************************************************************)
EXTENDS Logging, SequenceTheorems, WellFoundedInduction, TLAPS

\* The back end's side of the rotation: outside write and recycle it holds two
\* empty spares and nothing to write; inside, newbuffer1 is always given away
\* and newbuffer2 only if there was a full buffer besides the current one.
BackInv ==
  /\ bpc \in {"check", "lock", "waiting"} => newbuffer1 = Empty /\ newbuffer2 = Empty
  /\ bpc \notin {"write", "recycle"} => buffersToWrite = <<>>
  /\ bpc \in {"write", "recycle"} => /\ newbuffer1 = NoBuffer
                                     /\ newbuffer2 \in {Empty, NoBuffer}
                                     /\ Len(buffersToWrite) >= 1
                                     /\ newbuffer2 = NoBuffer => Len(buffersToWrite) >= 2

\* The front end's side: nextBuffer_ is missing only since a buffer filled up.
FrontInv ==
  /\ nextBuffer_ \in {Empty, NoBuffer}
  /\ nextBuffer_ = NoBuffer => buffers_ # <<>>

\* The files' side: between rounds all is flushed, and a file is beyond its
\* size only in the second in which it was opened, which is not in the future.
SizeInv == RollsBySize /\ output.lastRoll <= clock

FileInv == RoundsAreOnDisk /\ SizeInv

PoolInv == TypeOK /\ BackInv /\ FrontInv /\ FileInv

LEMMA EmptyIsBuffer == Empty \in Buffer /\ NoBuffer \notin Buffer /\ Empty # NoBuffer
BY DEF Empty, NoBuffer, Buffer

\* A line that fits or is dropped leaves a buffer.
LEMMA FixedAppendType ==
  ASSUME NEW b \in Buffer, NEW line \in Line
  PROVE  FixedAppend(BufferSize, b, line) \in Buffer
<1>1. line.len \in Nat /\ b.size \in Nat /\ b.lines \in Seq(Line)
  BY LensAssumption DEF Buffer, Line
<1>2. Append(b.lines, line) \in Seq(Line) /\ b.size + line.len \in Nat
  BY <1>1
<1>3. [lines |-> Append(b.lines, line), size |-> b.size + line.len] \in Buffer
  BY <1>2 DEF Buffer
<1> QED
  BY <1>3 DEF FixedAppend, Add

-----------------------------------------------------------------------------
(* LogFile: the types, and what a roll and a flush leave behind.           *)

LEMMA PeriodType == ASSUME NEW now \in Nat PROVE Period(now) \in Int
BY RollAssumption DEF Period

LEMMA NewLogFileType == ASSUME NEW count \in Int PROVE NewLogFile(count) \in LogFileType
BY DEF NewLogFile, LogFileType

\* A LogFile stays one when one of its fields gets a value of its type.
LEMMA FieldType ==
  ASSUME NEW f \in LogFileType
  PROVE  /\ \A v \in Seq(Line) : [f EXCEPT !.lines = v] \in LogFileType
         /\ \A v \in Nat : [f EXCEPT !.onDisk = v] \in LogFileType
         /\ \A v \in Nat : [f EXCEPT !.writtenBytes = v] \in LogFileType
         /\ \A v \in Int : [f EXCEPT !.count = v] \in LogFileType
         /\ \A v \in Int : [f EXCEPT !.startOfPeriod = v] \in LogFileType
         /\ \A v \in Nat : [f EXCEPT !.lastRoll = v] \in LogFileType
         /\ \A v \in Nat : [f EXCEPT !.lastFlush = v] \in LogFileType
         /\ \A v \in Nat : [f EXCEPT !.at = v] \in LogFileType
         /\ \A v \in Nat : [f EXCEPT !.since = v] \in LogFileType
         /\ \A v \in Nat : [f EXCEPT !.stale = v] \in LogFileType
         /\ \A v \in BOOLEAN : [f EXCEPT !.checked = v] \in LogFileType
BY DEF LogFileType

\* A flush leaves nothing in stdio's buffer and no other member changed.
LEMMA FlushType ==
  ASSUME NEW f \in LogFileType
  PROVE  /\ Flush(f) \in LogFileType
         /\ Flush(f).onDisk = Len(Flush(f).lines)
         /\ Flush(f).writtenBytes = f.writtenBytes
         /\ Flush(f).lastRoll = f.lastRoll
<1>1. Len(f.lines) \in Nat
  BY LenProperties DEF LogFileType
<1> DEFINE g1 == [f EXCEPT !.onDisk = Len(f.lines)]
<1> DEFINE g2 == [g1 EXCEPT !.at = 0]
<1>2. Flush(f) = [g2 EXCEPT !.since = 0]
  BY Zenon DEF Flush
<1>3. g1 \in LogFileType
  BY <1>1, FieldType
<1> HIDE DEF g1
<1>4. g2 \in LogFileType
  BY <1>3, FieldType
<1> HIDE DEF g2
<1>5. Flush(f) \in LogFileType
  BY <1>2, <1>4, FieldType
<1> QED
  BY <1>5 DEF Flush, LogFileType

\* A roll either starts an empty file at this moment or changes nothing.
LEMMA RollFileType ==
  ASSUME NEW f \in LogFileType, NEW now \in Nat
  PROVE  /\ RollFile(f, now) \in LogFileType
         /\ now > f.lastRoll => RollFile(f, now).lastRoll = now
                                  /\ RollFile(f, now).writtenBytes = 0
                                  /\ RollFile(f, now).onDisk = Len(RollFile(f, now).lines)
         /\ ~(now > f.lastRoll) => RollFile(f, now) = f
<1>1. CASE now > f.lastRoll
  <2> DEFINE g == Flush(f)
  <2> DEFINE g1 == [g EXCEPT !.lastFlush = now]
  <2> DEFINE g2 == [g1 EXCEPT !.lastRoll = now]
  <2> DEFINE g3 == [g2 EXCEPT !.startOfPeriod = Period(now)]
  <2> DEFINE g4 == [g3 EXCEPT !.writtenBytes = 0]
  <2>1. RollFile(f, now) = [g4 EXCEPT !.stale = 0]
    BY <1>1, Zenon DEF RollFile
  <2>2. g \in LogFileType /\ g.onDisk = Len(g.lines)
    BY FlushType
  <2> HIDE DEF g
  <2>3. g1 \in LogFileType
    BY <2>2, FieldType
  <2>4. /\ [g4 EXCEPT !.stale = 0].lastRoll = now
        /\ [g4 EXCEPT !.stale = 0].writtenBytes = 0
        /\ [g4 EXCEPT !.stale = 0].onDisk = Len([g4 EXCEPT !.stale = 0].lines)
    BY <2>2 DEF LogFileType
  <2> HIDE DEF g1
  <2>5. g2 \in LogFileType
    BY <2>3, FieldType
  <2> HIDE DEF g2
  <2>6. g3 \in LogFileType
    BY <2>5, FieldType, PeriodType
  <2> HIDE DEF g3
  <2>7. g4 \in LogFileType
    BY <2>6, FieldType
  <2> HIDE DEF g4
  <2>8. RollFile(f, now) \in LogFileType
    BY <2>1, <2>7, FieldType
  <2> QED
    BY <1>1, <2>1, <2>4, <2>8
<1>2. CASE ~(now > f.lastRoll)
  BY <1>2 DEF RollFile
<1> QED
  BY <1>1, <1>2

LEMMA WriteType ==
  ASSUME NEW f \in LogFileType, NEW lines \in Seq(Line), NEW len \in Nat,
         NEW failed \in BOOLEAN, NEW now \in Nat
  PROVE  /\ Write(f, lines, len, failed, now) \in LogFileType
         /\ Write(f, lines, len, failed, now).lastRoll = f.lastRoll
<1> DEFINE bytes == IF failed THEN f.writtenBytes ELSE f.writtenBytes + len
<1> DEFINE count == IF f.count < CheckEveryN THEN f.count + 1 ELSE f.count
<1> DEFINE since == IF f.onDisk = Len(f.lines) THEN now ELSE f.since
<1> DEFINE stale == IF Period(now) # f.startOfPeriod THEN f.stale + 1 ELSE f.stale
<1> DEFINE g1 == [f EXCEPT !.lines = f.lines \o lines]
<1> DEFINE g2 == [g1 EXCEPT !.writtenBytes = bytes]
<1> DEFINE g3 == [g2 EXCEPT !.count = count]
<1> DEFINE g4 == [g3 EXCEPT !.at = now]
<1> DEFINE g5 == [g4 EXCEPT !.since = since]
<1>1. Write(f, lines, len, failed, now) = [g5 EXCEPT !.stale = stale]
  BY Zenon DEF Write
<1>2. f.lines \o lines \in Seq(Line)
  <2>1. f.lines \in Seq(Line)
    BY DEF LogFileType
  <2> QED
    BY <2>1, ConcatProperties
<1>3. bytes \in Nat /\ count \in Int /\ since \in Nat /\ stale \in Nat
  <2>1. /\ f.writtenBytes \in Nat /\ f.count \in Int /\ f.since \in Nat /\ f.stale \in Nat
        /\ CheckEveryN \in Int
    BY RollAssumption DEF LogFileType
  <2> QED
    BY <2>1
<1> HIDE DEF bytes, count, since, stale
<1>4. [g5 EXCEPT !.stale = stale].lastRoll = f.lastRoll
  BY DEF LogFileType
<1>5. g1 \in LogFileType
  BY <1>2, FieldType
<1> HIDE DEF g1
<1>6. g2 \in LogFileType
  BY <1>3, <1>5, FieldType
<1> HIDE DEF g2
<1>7. g3 \in LogFileType
  BY <1>3, <1>6, FieldType
<1> HIDE DEF g3
<1>8. g4 \in LogFileType
  BY <1>7, FieldType
<1> HIDE DEF g4
<1>9. g5 \in LogFileType
  BY <1>3, <1>8, FieldType
<1> HIDE DEF g5
<1>10. [g5 EXCEPT !.stale = stale] \in LogFileType
  BY <1>3, <1>9, FieldType
<1> QED
  BY <1>1, <1>4, <1>10

LEMMA CountAgainType ==
  ASSUME NEW f \in LogFileType
  PROVE  /\ CountAgain(f) \in LogFileType
         /\ CountAgain(f).writtenBytes = f.writtenBytes
         /\ CountAgain(f).lastRoll = f.lastRoll
<1> DEFINE g1 == [f EXCEPT !.count = 0]
<1> DEFINE g2 == [g1 EXCEPT !.checked = TRUE]
<1>1. CountAgain(f) \in {f, g2}
  BY Zenon DEF CountAgain
<1>2. g1 \in LogFileType
  <2>1. 0 \in Int
    OBVIOUS
  <2> QED
    BY <2>1, FieldType
<1>3. g2.writtenBytes = f.writtenBytes /\ g2.lastRoll = f.lastRoll
  BY DEF LogFileType
<1> HIDE DEF g1
<1>4. g2 \in LogFileType
  BY <1>2, FieldType
<1> HIDE DEF g2
<1> QED
  BY <1>1, <1>3, <1>4

LEMMA FlushIfDueType ==
  ASSUME NEW f \in LogFileType, NEW now \in Nat
  PROVE  /\ FlushIfDue(f, now) \in LogFileType
         /\ FlushIfDue(f, now).writtenBytes = f.writtenBytes
         /\ FlushIfDue(f, now).lastRoll = f.lastRoll
<1> DEFINE g == [f EXCEPT !.lastFlush = now]
<1>1. /\ g \in LogFileType
      /\ g.writtenBytes = f.writtenBytes
      /\ g.lastRoll = f.lastRoll
  BY FieldType DEF LogFileType
<1>2. FlushIfDue(f, now) = IF now - f.lastFlush > FlushInterval THEN Flush(g) ELSE f
  BY DEF FlushIfDue
<1> HIDE DEF g
<1> QED
  BY <1>1, <1>2, FlushType

\* After an append the file is at most RollSize long, or it was opened at this
\* very moment.
LEMMA RollAndFlushType ==
  ASSUME NEW f \in LogFileType, NEW now \in Nat, NEW later \in Nat,
         now <= later, f.lastRoll <= now, ~RollDue(f, now) => later = now
  PROVE  /\ RollAndFlush(f, now, later) \in LogFileType
         /\ RollAndFlush(f, now, later).lastRoll <= later
         /\ RollAndFlush(f, now, later).writtenBytes > RollSize
              => later = RollAndFlush(f, now, later).lastRoll
<1> DEFINE counted == CountAgain(f)
<1> DEFINE rolled == IF RollDue(f, now) THEN RollFile(counted, later) ELSE counted
<1>1. /\ counted \in LogFileType
      /\ counted.writtenBytes = f.writtenBytes
      /\ counted.lastRoll = f.lastRoll
  BY CountAgainType
<1>2. f.lastRoll \in Nat /\ f.writtenBytes \in Nat /\ RollSize \in Nat
  BY RollAssumption DEF LogFileType
<1>3. RollAndFlush(f, now, later) = FlushIfDue(rolled, now)
  BY DEF RollAndFlush
<1>4. f.writtenBytes > RollSize => RollDue(f, now)
  BY DEF RollDue
<1> HIDE DEF counted
<1>5. /\ rolled \in LogFileType
      /\ rolled.lastRoll <= later
      /\ rolled.writtenBytes > RollSize => later = rolled.lastRoll
  <2>1. CASE RollDue(f, now)
    <3>1. CASE later > counted.lastRoll
      <4>1. /\ rolled \in LogFileType
            /\ rolled.lastRoll = later
        BY <1>1, <2>1, <3>1, RollFileType
      <4> QED
        BY <4>1
    <3>2. CASE ~(later > counted.lastRoll)
      <4>1. rolled = counted
        BY <1>1, <2>1, <3>2, RollFileType
      <4> QED
        BY <1>1, <1>2, <3>2, <4>1
    <3> QED
      BY <3>1, <3>2
  <2>2. CASE ~RollDue(f, now)
    BY <1>1, <1>2, <1>4, <2>2
  <2> QED
    BY <2>1, <2>2
<1> HIDE DEF rolled
<1> QED
  BY <1>3, <1>5, FlushIfDueType

-----------------------------------------------------------------------------
(* The back end's write of a buffer.                                       *)

\* A write of a buffer is an append at some time, with a roll no earlier.
LEMMA WriteBufferIs ==
  ASSUME TypeOK, Writing,
         NEW kept \in 0 .. Len(buffersToWrite[wpos + 1].lines),
         NEW failed \in BOOLEAN,
         WriteBuffer(kept, failed)
  PROVE  LET buffer == buffersToWrite[wpos + 1]
             lines == SubSeq(buffer.lines, 1, kept)
         IN  /\ buffer.lines \in Seq(Line) /\ lines \in Seq(Line) /\ buffer.size \in Nat
             /\ \E now, later \in Nat :
                  /\ clock <= now /\ now <= later /\ clock' = later
                  /\ LET file == Write(output, lines, buffer.size, failed, now)
                     IN  /\ ~RollDue(file, now) => later = now
                         /\ output' = RollAndFlush(file, now, later)
<1> DEFINE buffer == buffersToWrite[wpos + 1]
<1> DEFINE lines == SubSeq(buffer.lines, 1, kept)
<1>1. buffer \in Buffer
  BY DEF TypeOK, Writing
<1>2. buffer.lines \in Seq(Line) /\ buffer.size \in Nat
  BY <1>1 DEF Buffer
<1>3. lines \in Seq(Line)
  <2>1. \A i \in 1 .. kept : buffer.lines[i] \in Line
    BY <1>2
  <2> QED
    BY <2>1, SubSeqProperties
<1>4. PICK now \in clock .. MaxTime :
        LET file == Write(output, lines, buffer.size, failed, now)
        IN  \E later \in IF RollDue(file, now) THEN now .. MaxTime ELSE {now} :
              /\ output' = RollAndFlush(file, now, later)
              /\ clock' = later
  BY DEF WriteBuffer
<1> DEFINE file == Write(output, lines, buffer.size, failed, now)
<1>5. PICK later \in IF RollDue(file, now) THEN now .. MaxTime ELSE {now} :
        output' = RollAndFlush(file, now, later) /\ clock' = later
  BY <1>4
<1>6. now \in Nat /\ clock <= now
  BY <1>4, MaxLinesAssumption DEF TypeOK
<1> HIDE DEF file
<1>7. later \in Nat /\ now <= later /\ (~RollDue(file, now) => later = now)
  BY <1>5, <1>6, MaxLinesAssumption
<1> QED
  BY <1>2, <1>3, <1>5, <1>6, <1>7 DEF file

\* What every write of a buffer establishes, whether it fails or not.
LEMMA WriteBufferType ==
  ASSUME TypeOK, Writing, FileInv,
         NEW kept \in 0 .. Len(buffersToWrite[wpos + 1].lines),
         NEW failed \in BOOLEAN,
         WriteBuffer(kept, failed)
  PROVE  /\ wpos' \in Nat
         /\ output' \in LogFileType
         /\ clock' \in Nat
         /\ SizeInv'
<1> DEFINE buffer == buffersToWrite[wpos + 1]
<1> DEFINE lines == SubSeq(buffer.lines, 1, kept)
<1> DEFINE size == buffer.size
<1>1. wpos' = wpos + 1 /\ wpos \in Nat
  BY DEF TypeOK, WriteBuffer
<1>2. lines \in Seq(Line) /\ size \in Nat
  BY WriteBufferIs
<1>3. PICK now, later \in Nat :
        /\ clock <= now /\ now <= later /\ clock' = later
        /\ LET file == Write(output, lines, size, failed, now)
           IN  /\ ~RollDue(file, now) => later = now
               /\ output' = RollAndFlush(file, now, later)
  BY WriteBufferIs
<1> DEFINE file == Write(output, lines, size, failed, now)
<1>4. output \in LogFileType /\ clock \in Nat
  BY DEF TypeOK
<1> HIDE DEF lines, size
<1>5. file \in LogFileType /\ file.lastRoll = output.lastRoll
  BY <1>2, <1>3, <1>4, WriteType
<1>6. (~RollDue(file, now) => later = now) /\ output' = RollAndFlush(file, now, later)
  BY <1>3
<1> HIDE DEF file
<1>7. file.lastRoll <= now
  <2>1. output.lastRoll \in Nat
    BY <1>4 DEF LogFileType
  <2> QED
    BY <1>3, <1>4, <1>5, <2>1 DEF FileInv, SizeInv
<1>8. /\ output' \in LogFileType
      /\ output'.lastRoll <= later
      /\ output'.writtenBytes > RollSize => later = output'.lastRoll
  BY <1>3, <1>5, <1>6, <1>7, RollAndFlushType
<1> QED
  BY <1>1, <1>3, <1>8 DEF SizeInv, RollsBySize

-----------------------------------------------------------------------------
(* PoolInv is inductive: one lemma per group of actions.                   *)

\* The parts of PoolInv that are about the back end's file.
fileInvVars == <<bpc, output, clock>>

LEMMA FrontKeepsFileInv == FileInv /\ UNCHANGED fileInvVars => FileInv'
BY DEF FileInv, SizeInv, RoundsAreOnDisk, RollsBySize, fileInvVars

LEMMA AppendKeeps ==
  ASSUME PoolInv, NEW len \in Lens, AppendLine(len)
  PROVE  PoolInv'
<1> USE EmptyIsBuffer
    DEF PoolInv, TypeOK, BackInv, FrontInv, BackPCs, frontVars, backVars, rotVars, fileVars,
        ctlVars
<1> DEFINE line == [n |-> Len(appended) + 1, len |-> len]
<1> DEFINE fresh == IF nextBuffer_ = NoBuffer THEN Empty ELSE nextBuffer_
<1>0. FileInv'
  BY FrontKeepsFileInv DEF AppendLine, fileInvVars
<1>1. line \in Line
  BY LensAssumption DEF Line
<1>2. fresh \in Buffer
  OBVIOUS
<1>3. appended' = Append(appended, line) /\ appended' \in Seq(Line)
  BY <1>1 DEF AppendLine
<1>4. CASE Avail(BufferSize, currentBuffer_) > len
  <2>1. currentBuffer_' \in Buffer
    BY <1>1, <1>4, FixedAppendType DEF AppendLine
  <2> QED
    BY <1>0, <1>3, <1>4, <2>1 DEF AppendLine
<1>5. CASE ~(Avail(BufferSize, currentBuffer_) > len)
  <2>1. currentBuffer_' = FixedAppend(BufferSize, fresh, line)
    BY <1>5 DEF AppendLine
  <2>2. currentBuffer_' \in Buffer
    BY <1>1, <1>2, <2>1, FixedAppendType
  <2>3. buffers_' = Append(buffers_, currentBuffer_)
    BY <1>5 DEF AppendLine
  <2>4. buffers_' \in Seq(Buffer) /\ buffers_' # <<>>
    BY <2>3
  <2> QED
    BY <1>0, <1>3, <1>5, <2>2, <2>4 DEF AppendLine
<1> QED
  BY <1>4, <1>5

LEMMA MainKeeps == PoolInv /\ Main => PoolInv'
<1> SUFFICES ASSUME PoolInv, Main PROVE PoolInv'
  OBVIOUS
<1> USE EmptyIsBuffer
    DEF PoolInv, TypeOK, BackInv, FrontInv, BackPCs, frontVars, backVars, rotVars, fileVars,
        ctlVars
<1>1. CASE Start
  <2>1. FileInv'
    BY <1>1 DEF Start, FileInv, SizeInv, RoundsAreOnDisk, RollsBySize
  <2> QED
    BY <1>1, <2>1 DEF Start
<1>2. CASE Stop
  <2>1. FileInv'
    BY <1>2, FrontKeepsFileInv DEF Stop, fileInvVars
  <2> QED
    BY <1>2, <2>1 DEF Stop
<1>3. CASE Destroy
  <2>1. FileInv'
    BY <1>3, FrontKeepsFileInv DEF Destroy, fileInvVars
  <2> QED
    BY <1>3, <2>1 DEF Destroy
<1> QED
  BY <1>1, <1>2, <1>3 DEF Main

LEMMA OpenKeeps == PoolInv /\ Open => PoolInv'
<1> SUFFICES ASSUME PoolInv, Open PROVE PoolInv'
  OBVIOUS
<1>1. PICK count \in Counts, now \in clock .. MaxTime :
        output' = RollFile(NewLogFile(count), now) /\ clock' = now
  BY DEF Open
<1> DEFINE new == NewLogFile(count)
<1>2. /\ new \in LogFileType
      /\ new.lastRoll = 0 /\ new.writtenBytes = 0 /\ new.onDisk = Len(new.lines)
  BY CountsAssumption, NewLogFileType DEF NewLogFile
<1> HIDE DEF new
<1>3. now \in Nat
  BY MaxLinesAssumption DEF PoolInv, TypeOK
<1>4. /\ output' \in LogFileType
      /\ output'.lastRoll <= now
      /\ output'.writtenBytes = 0
      /\ output'.onDisk = Len(output'.lines)
  <2>1. output' = RollFile(new, now)
    BY <1>1 DEF new
  <2>2. CASE now > new.lastRoll
    BY <1>2, <1>3, <2>1, <2>2, RollFileType
  <2>3. CASE ~(now > new.lastRoll)
    BY <1>2, <1>3, <2>1, <2>3, RollFileType
  <2> QED
    BY <2>2, <2>3
<1>5. FileInv'
  BY <1>1, <1>4, RollAssumption DEF FileInv, SizeInv, RoundsAreOnDisk, RollsBySize
<1> QED
  BY <1>1, <1>3, <1>4, <1>5, EmptyIsBuffer
  DEF Open, PoolInv, TypeOK, BackInv, FrontInv, BackPCs, frontVars, ctlVars

LEMMA RoundKeeps == PoolInv /\ (Check \/ WaitFor \/ WritesEnd \/ Recycle) => PoolInv'
<1> SUFFICES ASSUME PoolInv, Check \/ WaitFor \/ WritesEnd \/ Recycle PROVE PoolInv'
  OBVIOUS
<1> USE EmptyIsBuffer
    DEF PoolInv, TypeOK, BackInv, FrontInv, BackPCs, frontVars, backVars, rotVars, fileVars,
        ctlVars
<1>0. /\ Flush(output) \in LogFileType
      /\ Flush(output).onDisk = Len(Flush(output).lines)
      /\ Flush(output).writtenBytes = output.writtenBytes
      /\ Flush(output).lastRoll = output.lastRoll
  BY FlushType
<1>1. CASE Check
  <2>1. output' \in LogFileType /\ FileInv'
    BY <1>0, <1>1 DEF Check, FileInv, SizeInv, RoundsAreOnDisk, RollsBySize
  <2> QED
    BY <1>1, <2>1 DEF Check
<1>2. CASE WaitFor
  <2>1. FileInv'
    BY <1>2 DEF WaitFor, FileInv, SizeInv, RoundsAreOnDisk, RollsBySize
  <2> QED
    BY <1>2, <2>1 DEF WaitFor
<1>3. CASE WritesEnd
  <2>1. FileInv'
    BY <1>3 DEF WritesEnd, FileInv, SizeInv, RoundsAreOnDisk, RollsBySize
  <2> QED
    BY <1>3, <2>1 DEF WritesEnd
<1>4. CASE Recycle
  <2>1. output' \in LogFileType /\ FileInv'
    BY <1>0, <1>4 DEF Recycle, FileInv, SizeInv, RoundsAreOnDisk, RollsBySize
  <2> QED
    BY <1>4, <2>1 DEF Recycle
<1> QED
  BY <1>1, <1>2, <1>3, <1>4

LEMMA CollectKeeps == PoolInv /\ Collect => PoolInv'
<1> SUFFICES ASSUME PoolInv, Collect PROVE PoolInv'
  OBVIOUS
<1> USE EmptyIsBuffer
    DEF PoolInv, TypeOK, BackInv, FrontInv, BackPCs, fileVars, ctlVars
<1>1. buffersToWrite = <<>> /\ newbuffer1 = Empty /\ newbuffer2 = Empty
  BY DEF Collect
<1>2. buffersToWrite' = Append(buffers_, currentBuffer_) /\ buffers_' = <<>>
  BY <1>1 DEF Collect
<1>3. /\ buffersToWrite' \in Seq(Buffer)
      /\ Len(buffersToWrite') >= 1
      /\ buffers_ # <<>> => Len(buffersToWrite') >= 2
  BY <1>2
<1>4. FileInv'
  BY DEF Collect, FileInv, SizeInv, RoundsAreOnDisk, RollsBySize
<1> QED
  BY <1>1, <1>2, <1>3, <1>4 DEF Collect

LEMMA WriteKeeps == PoolInv /\ (WriteSucceeds \/ WriteFails) => PoolInv'
<1> SUFFICES ASSUME PoolInv, WriteSucceeds \/ WriteFails PROVE PoolInv'
  OBVIOUS
<1> DEFINE lines == buffersToWrite[wpos + 1].lines
<1>1. Writing
  BY DEF WriteSucceeds, WriteFails
<1>2. lines \in Seq(Line)
  <2>1. buffersToWrite[wpos + 1] \in Buffer
    BY <1>1 DEF PoolInv, TypeOK, Writing
  <2> QED
    BY <2>1 DEF Buffer
<1> HIDE DEF lines
<1>3. /\ wpos' \in Nat /\ output' \in LogFileType /\ clock' \in Nat /\ SizeInv'
      /\ UNCHANGED <<bpc, rotVars, frontVars, ctlVars>>
  <2>1. CASE WriteSucceeds
    <3>1. WriteBuffer(Len(lines), FALSE)
      BY <2>1 DEF WriteSucceeds, lines
    <3>2. Len(lines) \in 0 .. Len(lines)
      BY <1>2
    <3> QED
      BY <1>1, <3>1, <3>2, WriteBufferType DEF PoolInv, WriteBuffer, lines
  <2>2. CASE WriteFails
    <3>1. PICK kept \in 0 .. Len(lines) - 1 : WriteBuffer(kept, TRUE)
      BY <2>2 DEF WriteFails, lines
    <3>2. kept \in 0 .. Len(lines)
      BY <1>2
    <3> QED
      BY <1>1, <3>1, <3>2, WriteBufferType DEF PoolInv, WriteBuffer, lines
  <2> QED
    BY <2>1, <2>2
<1>4. failures' \in Nat /\ lost' \subseteq Nat
  <2>1. CASE WriteSucceeds
    BY <2>1 DEF WriteSucceeds, PoolInv, TypeOK
  <2>2. CASE WriteFails
    <3>1. PICK kept \in 0 .. Len(lines) - 1 :
            lost' = lost \cup {lines[i].n : i \in kept + 1 .. Len(lines)}
      BY <2>2 DEF WriteFails, lines
    <3>2. \A i \in kept + 1 .. Len(lines) : lines[i].n \in Nat
      <4>1. \A i \in kept + 1 .. Len(lines) : lines[i] \in Line
        BY <1>2
      <4> QED
        BY <4>1 DEF Line
    <3>3. failures' \in Nat
      BY <2>2 DEF WriteFails, PoolInv, TypeOK
    <3> QED
      BY <3>1, <3>2, <3>3 DEF PoolInv, TypeOK
  <2> QED
    BY <2>1, <2>2
<1>5. FileInv'
  BY <1>1, <1>3 DEF FileInv, RoundsAreOnDisk, Writing
<1> QED
  BY <1>3, <1>4, <1>5
  DEF PoolInv, TypeOK, BackInv, FrontInv, rotVars, frontVars, ctlVars

LEMMA PoolInductive == PoolInv /\ [Next]_vars => PoolInv'
<1> SUFFICES ASSUME PoolInv, [Next]_vars PROVE PoolInv'
  OBVIOUS
<1>1. ASSUME NEW len \in Lens, AppendLine(len)
      PROVE  PoolInv'
  BY <1>1, AppendKeeps
<1>2. CASE UNCHANGED vars
  <2>1. FileInv'
    BY <1>2, FrontKeepsFileInv DEF PoolInv, vars, fileInvVars, backVars, fileVars
  <2> QED
    BY <1>2, <2>1
    DEF vars, PoolInv, TypeOK, BackInv, FrontInv, frontVars, backVars, rotVars, fileVars, ctlVars
<1> QED
  BY <1>1, <1>2, MainKeeps, OpenKeeps, RoundKeeps, CollectKeeps, WriteKeeps DEF Next, BackEnd

LEMMA PoolInvariant == SafetySpec => []PoolInv
<1>1. ASSUME Init PROVE PoolInv
  <2>1. <<>> \in Seq(Buffer) /\ <<>> \in Seq(Line)
    OBVIOUS
  <2>2. NewLogFile(0) \in LogFileType
    BY NewLogFileType
  <2>3. TypeOK
    BY <1>1, <2>1, <2>2, EmptyIsBuffer DEF Init, TypeOK, BackPCs
  <2>4. FileInv
    BY <1>1, RollAssumption
    DEF Init, FileInv, SizeInv, RoundsAreOnDisk, RollsBySize, NewLogFile
  <2> QED
    BY <1>1, <2>3, <2>4, EmptyIsBuffer DEF Init, PoolInv, BackInv, FrontInv
<1> QED
  BY <1>1, PoolInductive, PTL DEF SafetySpec

\* Every buffer the two ends exchange is a buffer or null as its place allows;
\* in particular currentBuffer_ is never null when append dereferences it.
THEOREM TypeCorrect == SafetySpec => []TypeOK
BY PoolInvariant, PTL DEF PoolInv

\* threadFunc never calls back() on an empty buffersToWrite.
THEOREM NeverStarves == SafetySpec => []RecycleNeverStarves
<1>1. PoolInv => RecycleNeverStarves
  <2> SUFFICES ASSUME PoolInv, bpc = "recycle" PROVE RecycleNeverStarves
    BY DEF RecycleNeverStarves
  <2>1. Len(Kept) = IF Len(buffersToWrite) > 2 THEN 2 ELSE Len(buffersToWrite)
    BY DEF PoolInv, TypeOK, Kept
  <2> QED
    BY <2>1, EmptyIsBuffer DEF PoolInv, TypeOK, BackInv, RecycleNeverStarves
<1> QED
  BY <1>1, PoolInvariant, PTL

\* The front end only ever receives empty buffers from the back end.
THEOREM SparesStayEmpty == SafetySpec => []SparesAreEmpty
<1>1. PoolInv => SparesAreEmpty
  BY EmptyIsBuffer DEF PoolInv, TypeOK, BackInv, FrontInv, SparesAreEmpty
<1> QED
  BY <1>1, PoolInvariant, PTL

\* A crash or an abort() between two rounds loses nothing the back end has taken.
THEOREM RoundsStayOnDisk == SafetySpec => []RoundsAreOnDisk
BY PoolInvariant, PTL DEF PoolInv, FileInv

\* rollFile's refusal to roll twice in a second is the only reason for a file
\* to be beyond its size.
THEOREM FilesRollBySize == SafetySpec => []RollsBySize
BY PoolInvariant, PTL DEF PoolInv, FileInv, SizeInv

-----------------------------------------------------------------------------
(* When the files are flushed and when they roll by the period.            *)

\* What is not on disk was written after the last flush that was due, and the
\* last append still found that flush recent.
FlushInv(f, t) ==
  /\ f.lastFlush <= t
  /\ f.onDisk # Len(f.lines) => f.lastFlush <= f.since /\ f.at - f.since <= FlushInterval

\* An open file belongs to the period it was opened in; it has been appended to
\* in another one only if that is over; and count_ has counted these appends
\* since it was first reset.
PeriodInv(f, t) ==
  /\ f.startOfPeriod = Period(f.lastRoll)
  /\ f.stale > 0 => f.startOfPeriod < Period(t)
  /\ f.checked => f.stale <= f.count /\ f.stale < CheckEveryN

HistoryInv == FlushInv(output, clock) /\ PeriodInv(output, clock)

\* A later time is in the same period or in a later one.
LEMMA PeriodMonotone ==
  ASSUME NEW a \in Nat, NEW b \in Nat, a <= b
  PROVE  Period(a) <= Period(b)
<1> DEFINE r == RollPerSeconds
<1> DEFINE p == a \div r
<1> DEFINE q == b \div r
<1>1. r \in Nat /\ r > 0
  BY RollAssumption
<1> HIDE DEF r
<1>2. p \in Int /\ q \in Int /\ r * p <= a /\ a < r * p + r /\ r * q <= b /\ b < r * q + r
  BY <1>1
<1> HIDE DEF p, q
<1>3. p <= q
  <2> SUFFICES ASSUME q + 1 <= p PROVE FALSE
    BY <1>2
  <2>1. r * (q + 1) <= r * p
    BY <1>1, <1>2
  <2>2. r * (q + 1) = r * q + r
    BY <1>1, <1>2
  <2> QED
    BY <1>1, <1>2, <2>1, <2>2
<1>4. p * r <= q * r
  BY <1>1, <1>2, <1>3
<1> QED
  BY <1>4 DEF Period, p, q, r

\* The fields that the history is about, after each of LogFile's steps.
LEMMA FlushFields ==
  ASSUME NEW f \in LogFileType
  PROVE  /\ Flush(f).lines = f.lines
         /\ Flush(f).lastFlush = f.lastFlush
         /\ Flush(f).startOfPeriod = f.startOfPeriod
         /\ Flush(f).count = f.count
         /\ Flush(f).stale = f.stale
         /\ Flush(f).checked = f.checked
BY DEF Flush, LogFileType

LEMMA RollFields ==
  ASSUME NEW f \in LogFileType, NEW now \in Nat, now > f.lastRoll
  PROVE  /\ RollFile(f, now).lines = f.lines
         /\ RollFile(f, now).lastFlush = now
         /\ RollFile(f, now).startOfPeriod = Period(now)
         /\ RollFile(f, now).count = f.count
         /\ RollFile(f, now).stale = 0
         /\ RollFile(f, now).checked = f.checked
<1> DEFINE g == Flush(f)
<1>1. g \in LogFileType /\ g.lines = f.lines /\ g.count = f.count /\ g.checked = f.checked
  BY FlushType, FlushFields
<1>2. RollFile(f, now)
        = [g EXCEPT !.lastFlush = now, !.lastRoll = now, !.startOfPeriod = Period(now),
                    !.writtenBytes = 0, !.stale = 0]
  BY DEF RollFile
<1> HIDE DEF g
<1> QED
  BY <1>1, <1>2 DEF LogFileType

LEMMA WriteFields ==
  ASSUME NEW f \in LogFileType, NEW lines \in Seq(Line), NEW len \in Nat,
         NEW failed \in BOOLEAN, NEW now \in Nat
  PROVE  LET g == Write(f, lines, len, failed, now)
         IN  /\ g.lines = f.lines \o lines
             /\ g.onDisk = f.onDisk
             /\ g.count = IF f.count < CheckEveryN THEN f.count + 1 ELSE f.count
             /\ g.lastFlush = f.lastFlush
             /\ g.startOfPeriod = f.startOfPeriod
             /\ g.at = now
             /\ g.since = IF f.onDisk = Len(f.lines) THEN now ELSE f.since
             /\ g.stale = IF Period(now) # f.startOfPeriod THEN f.stale + 1 ELSE f.stale
             /\ g.checked = f.checked
BY DEF Write, LogFileType

LEMMA CountAgainFields ==
  ASSUME NEW f \in LogFileType
  PROVE  LET g == CountAgain(f)
         IN  /\ g.lines = f.lines
             /\ g.onDisk = f.onDisk
             /\ g.lastFlush = f.lastFlush
             /\ g.startOfPeriod = f.startOfPeriod
             /\ g.at = f.at
             /\ g.since = f.since
             /\ g.stale = f.stale
             /\ IF f.writtenBytes <= RollSize /\ f.count >= CheckEveryN
                  THEN g.count = 0
                  ELSE g.count = f.count /\ g.checked = f.checked
BY DEF CountAgain, LogFileType

LEMMA FlushIfDueFields ==
  ASSUME NEW f \in LogFileType, NEW now \in Nat
  PROVE  LET g == FlushIfDue(f, now)
         IN  /\ g.lines = f.lines
             /\ g.startOfPeriod = f.startOfPeriod
             /\ g.count = f.count
             /\ g.stale = f.stale
             /\ g.checked = f.checked
             /\ IF now - f.lastFlush > FlushInterval
                  THEN g.lastFlush = now /\ g.onDisk = Len(g.lines)
                  ELSE g = f
<1> DEFINE e == [f EXCEPT !.lastFlush = now]
<1>1. /\ e \in LogFileType
      /\ e.lines = f.lines /\ e.startOfPeriod = f.startOfPeriod /\ e.count = f.count
      /\ e.stale = f.stale /\ e.checked = f.checked /\ e.lastFlush = now
  BY FieldType DEF LogFileType
<1>2. FlushIfDue(f, now) = IF now - f.lastFlush > FlushInterval THEN Flush(e) ELSE f
  BY DEF FlushIfDue
<1> HIDE DEF e
<1> QED
  BY <1>1, <1>2, FlushType, FlushFields

\* An append of lines to f at now, with a roll at later, after time t.
Appending(f, lines, len, failed, t, now, later) ==
  /\ f \in LogFileType /\ lines \in Seq(Line) /\ len \in Nat /\ failed \in BOOLEAN
  /\ t \in Nat /\ now \in Nat /\ later \in Nat
  /\ t <= now /\ now <= later /\ f.lastRoll <= t
  /\ ~RollDue(Write(f, lines, len, failed, now), now) => later = now

\* An append and what follows it in appendInlock keep the history.
LEMMA AppendKeepsHistory ==
  ASSUME NEW f, NEW lines, NEW len, NEW failed, NEW t, NEW now, NEW later,
         Appending(f, lines, len, failed, t, now, later), FlushInv(f, t), PeriodInv(f, t)
  PROVE  /\ FlushInv(RollAndFlush(Write(f, lines, len, failed, now), now, later), later)
         /\ PeriodInv(RollAndFlush(Write(f, lines, len, failed, now), now, later), later)
         /\ RollAndFlush(Write(f, lines, len, failed, now), now, later).lines
              = f.lines \o lines
<1>0. /\ f \in LogFileType /\ lines \in Seq(Line) /\ len \in Nat /\ failed \in BOOLEAN
      /\ t \in Nat /\ now \in Nat /\ later \in Nat
      /\ t <= now /\ now <= later /\ f.lastRoll <= t
  BY DEF Appending
<1> USE <1>0
<1> DEFINE w == Write(f, lines, len, failed, now)
<1> DEFINE c == CountAgain(w)
<1> DEFINE rolled == IF RollDue(w, now) THEN RollFile(c, later) ELSE c
<1> DEFINE g == FlushIfDue(rolled, now)
<1>1. RollAndFlush(w, now, later) = g
  BY DEF RollAndFlush
<1>2. /\ RollSize \in Nat /\ FlushInterval \in Nat /\ CheckEveryN \in Nat /\ CheckEveryN > 0
      /\ f.lastRoll \in Nat /\ f.lastFlush \in Nat /\ f.stale \in Nat /\ f.count \in Int
      /\ f.startOfPeriod \in Int /\ f.since \in Nat /\ f.checked \in BOOLEAN
  BY RollAssumption DEF LogFileType
<1>3. w \in LogFileType /\ w.lastRoll = f.lastRoll
  BY WriteType
<1>4. /\ w.lines = f.lines \o lines
      /\ w.onDisk = f.onDisk
      /\ w.count = IF f.count < CheckEveryN THEN f.count + 1 ELSE f.count
      /\ w.lastFlush = f.lastFlush
      /\ w.startOfPeriod = f.startOfPeriod
      /\ w.at = now
      /\ w.since = IF f.onDisk = Len(f.lines) THEN now ELSE f.since
      /\ w.stale = IF Period(now) # f.startOfPeriod THEN f.stale + 1 ELSE f.stale
      /\ w.checked = f.checked
  BY WriteFields
<1>5. /\ Period(f.lastRoll) <= Period(t) /\ Period(t) <= Period(now)
      /\ Period(t) \in Int /\ Period(now) \in Int
  BY <1>2, PeriodMonotone, PeriodType
\* The appended lines are as old as the last flush that was due, at most.
<1>6. w.lastFlush <= now /\ w.lastFlush <= w.since
  BY <1>2, <1>4 DEF FlushInv
\* An append in the file's own period is the first of its kind or follows such.
<1>7. /\ w.stale > 0 => w.startOfPeriod < Period(now)
      /\ w.checked => w.stale <= w.count
      /\ Period(now) = w.startOfPeriod => w.stale = 0
  <2>1. /\ f.stale > 0 => f.startOfPeriod < Period(t)
        /\ f.checked => f.stale <= f.count /\ f.stale < CheckEveryN
        /\ f.startOfPeriod <= Period(t)
    BY <1>2, <1>5 DEF PeriodInv
  <2> HIDE DEF w
  <2>2. CASE Period(now) = f.startOfPeriod
    <3>1. f.stale = 0
      BY <1>2, <1>5, <2>1, <2>2
    <3>2. w.stale = 0 /\ w.startOfPeriod = f.startOfPeriod
      BY <1>4, <2>2, <3>1
    <3>3. w.checked => w.count \in Int /\ 0 <= w.count
      BY <1>2, <1>4, <2>1, <3>1
    <3> QED
      BY <3>2, <3>3
  <2>3. CASE Period(now) # f.startOfPeriod
    <3>1. f.startOfPeriod < Period(now)
      BY <1>2, <1>5, <2>1, <2>3
    <3>2. w.stale = f.stale + 1 /\ w.startOfPeriod = f.startOfPeriod
      BY <1>4, <2>3
    <3>3. w.checked => w.stale <= w.count
      BY <1>2, <1>4, <2>1, <3>2
    <3> QED
      BY <2>3, <3>1, <3>2, <3>3
  <2> QED
    BY <2>2, <2>3
<1>8. now = f.lastRoll => Period(now) = w.startOfPeriod
  BY <1>4 DEF PeriodInv
<1>9. RollDue(w, now) <=> \/ w.writtenBytes > RollSize
                          \/ w.count >= CheckEveryN /\ Period(now) # w.startOfPeriod
  BY DEF RollDue
<1>10. /\ w.writtenBytes \in Nat /\ w.count \in Int /\ w.stale \in Nat /\ w.lastFlush \in Nat
       /\ w.checked \in BOOLEAN /\ w.startOfPeriod \in Int /\ w.since \in Nat
  BY <1>3 DEF LogFileType
<1>11. ~RollDue(w, now) => later = now
  BY DEF Appending
<1>12. w.startOfPeriod = Period(w.lastRoll)
  BY <1>3, <1>4 DEF PeriodInv
<1> HIDE DEF w
<1>13. c \in LogFileType /\ c.lastRoll = f.lastRoll
  BY <1>3, CountAgainType
<1>14. /\ c.lines = w.lines
       /\ c.onDisk = w.onDisk
       /\ c.lastFlush = w.lastFlush
       /\ c.startOfPeriod = w.startOfPeriod
       /\ c.at = w.at
       /\ c.since = w.since
       /\ c.stale = w.stale
       /\ IF w.writtenBytes <= RollSize /\ w.count >= CheckEveryN
            THEN c.count = 0
            ELSE c.count = w.count /\ c.checked = w.checked
  BY <1>3, CountAgainFields
<1>15. /\ c.count \in Int /\ c.checked \in BOOLEAN /\ c.stale = w.stale
       /\ \/ w.writtenBytes <= RollSize /\ w.count >= CheckEveryN /\ c.count = 0
          \/ /\ ~(w.writtenBytes <= RollSize /\ w.count >= CheckEveryN)
             /\ c.count = w.count
             /\ c.checked => w.checked
  <2>1. c.count \in Int /\ c.checked \in BOOLEAN /\ c.stale = w.stale
    BY <1>13, <1>14 DEF LogFileType
  <2>2. CASE w.writtenBytes <= RollSize /\ w.count >= CheckEveryN
    BY <1>14, <2>1, <2>2, Zenon
  <2>3. CASE ~(w.writtenBytes <= RollSize /\ w.count >= CheckEveryN)
    BY <1>14, <2>1, <2>3, Zenon
  <2> QED
    BY <2>2, <2>3
<1> HIDE DEF c
<1>16. /\ rolled \in LogFileType
       /\ rolled.lines = f.lines \o lines
       /\ rolled.lastFlush <= later
       /\ \/ rolled.onDisk = Len(rolled.lines)
          \/ rolled.lastFlush <= rolled.since /\ rolled.at = now
       /\ PeriodInv(rolled, later)
  <2>1. CASE RollDue(w, now) /\ later > c.lastRoll
    <3>1. rolled = RollFile(c, later)
      BY <2>1
    <3>2. /\ rolled \in LogFileType /\ rolled.lastRoll = later
          /\ rolled.onDisk = Len(rolled.lines)
      BY <1>13, <2>1, <3>1, RollFileType
    <3>3. /\ rolled.lines = c.lines /\ rolled.lastFlush = later
          /\ rolled.startOfPeriod = Period(later) /\ rolled.count = c.count
          /\ rolled.stale = 0 /\ rolled.checked = c.checked
      BY <1>13, <2>1, <3>1, RollFields
    <3>4. c.checked => 0 <= c.count
      <4>1. w.checked => 0 <= w.count
        BY <1>7, <1>10
      <4> QED
        BY <4>1, <1>15
    <3>5. rolled.checked => 0 <= rolled.count
      BY <3>3, <3>4, Zenon
    <3>6. PeriodInv(rolled, later)
      BY <1>2, <3>2, <3>3, <3>5 DEF PeriodInv
    <3> QED
      BY <1>4, <1>14, <3>2, <3>3, <3>6
  <2>2. CASE ~(RollDue(w, now) /\ later > c.lastRoll)
    <3>1. rolled = c
      BY <1>13, <2>2, RollFileType
    \* Either no roll was due, or the file was opened in this very second.
    <3>2. later = now
      BY <1>2, <1>11, <1>13, <2>2
    <3>3. ~RollDue(w, now) \/ Period(now) = w.startOfPeriod
      BY <1>2, <1>8, <1>13, <2>2
    <3>4. c.checked => c.stale <= c.count /\ c.stale < CheckEveryN
      <4>1. CASE w.writtenBytes <= RollSize /\ w.count >= CheckEveryN
        <5>1. w.stale = 0
          BY <1>7, <1>9, <3>3, <4>1
        <5> QED
          BY <1>2, <1>15, <4>1, <5>1
      <4>2. CASE ~(w.writtenBytes <= RollSize /\ w.count >= CheckEveryN)
        <5>1. w.count < CheckEveryN \/ RollDue(w, now)
          <6>1. w.writtenBytes > RollSize => RollDue(w, now)
            BY <1>9
          <6>2. w.writtenBytes > RollSize \/ w.count < CheckEveryN
            BY <1>2, <1>10, <4>2
          <6> QED
            BY <6>1, <6>2
        <5>2. w.count < CheckEveryN \/ w.stale = 0
          BY <1>7, <3>3, <5>1
        <5>3. c.checked => w.stale <= w.count
          BY <1>7, <1>15, <4>2
        <5>4. c.stale = w.stale /\ c.count = w.count
          BY <1>15, <4>2
        <5>5. w.stale <= w.count => w.stale < CheckEveryN
          BY <1>2, <1>10, <5>2
        <5> QED
          BY <5>3, <5>4, <5>5
      <4> QED
        BY <4>1, <4>2
    <3>5. PeriodInv(c, now)
      BY <1>3, <1>7, <1>12, <1>13, <1>14, <3>4 DEF PeriodInv
    <3> QED
      BY <1>4, <1>6, <1>13, <1>14, <3>1, <3>2, <3>5
  <2> QED
    BY <2>1, <2>2
<1>17. /\ rolled.lastFlush \in Nat /\ rolled.since \in Nat
       /\ rolled.lastRoll \in Nat
  BY <1>16 DEF LogFileType
<1> HIDE DEF rolled
<1>18. /\ g.lines = rolled.lines
       /\ g.startOfPeriod = rolled.startOfPeriod
       /\ g.count = rolled.count
       /\ g.stale = rolled.stale
       /\ g.checked = rolled.checked
       /\ IF now - rolled.lastFlush > FlushInterval
            THEN g.lastFlush = now /\ g.onDisk = Len(g.lines)
            ELSE g = rolled
  BY <1>16, FlushIfDueFields
<1>19. g.lastRoll = rolled.lastRoll
  BY <1>16, FlushIfDueType
<1> HIDE DEF g
<1>20. PeriodInv(g, later)
  BY <1>16, <1>18, <1>19 DEF PeriodInv
<1>21. FlushInv(g, later)
  <2>1. CASE now - rolled.lastFlush > FlushInterval
    BY <1>18, <2>1 DEF FlushInv
  <2>2. CASE ~(now - rolled.lastFlush > FlushInterval)
    <3>1. now - rolled.lastFlush <= FlushInterval
      BY <1>2, <1>17, <2>2
    <3>2. g = rolled
      BY <1>18, <2>2
    <3>3. rolled.lastFlush <= rolled.since => now - rolled.since <= FlushInterval
      BY <1>2, <1>17, <3>1
    <3> QED
      BY <1>16, <3>2, <3>3 DEF FlushInv
  <2> QED
    BY <2>1, <2>2
<1> QED
  BY <1>1, <1>16, <1>18, <1>20, <1>21 DEF w

\* The same for the back end's write of a buffer.
LEMMA WriteBufferKeepsHistory ==
  ASSUME PoolInv, HistoryInv, Writing,
         NEW kept \in 0 .. Len(buffersToWrite[wpos + 1].lines),
         NEW failed \in BOOLEAN,
         WriteBuffer(kept, failed)
  PROVE  /\ HistoryInv'
         /\ output'.lines = output.lines \o SubSeq(buffersToWrite[wpos + 1].lines, 1, kept)
<1> DEFINE buffer == buffersToWrite[wpos + 1]
<1> DEFINE lines == SubSeq(buffer.lines, 1, kept)
<1> DEFINE size == buffer.size
<1>1. TypeOK
  BY DEF PoolInv
<1>2. lines \in Seq(Line) /\ size \in Nat
  BY <1>1, WriteBufferIs
<1>3. PICK now, later \in Nat :
        /\ clock <= now /\ now <= later /\ clock' = later
        /\ LET file == Write(output, lines, size, failed, now)
           IN  /\ ~RollDue(file, now) => later = now
               /\ output' = RollAndFlush(file, now, later)
  BY <1>1, WriteBufferIs
<1>4. output \in LogFileType /\ clock \in Nat /\ output.lastRoll <= clock
  BY DEF PoolInv, TypeOK, FileInv, SizeInv
<1>5. FlushInv(output, clock) /\ PeriodInv(output, clock)
  BY DEF HistoryInv
<1> HIDE DEF lines, size
<1>6. Appending(output, lines, size, failed, clock, now, later)
  BY <1>2, <1>3, <1>4 DEF Appending
<1> DEFINE g == RollAndFlush(Write(output, lines, size, failed, now), now, later)
<1>7. FlushInv(g, later) /\ PeriodInv(g, later) /\ g.lines = output.lines \o lines
  BY <1>5, <1>6, AppendKeepsHistory
<1>8. output' = g
  BY <1>3
<1> HIDE DEF g
<1>9. HistoryInv'
  BY <1>3, <1>7, <1>8 DEF HistoryInv, FlushInv, PeriodInv
<1> QED
  BY <1>7, <1>8, <1>9 DEF lines

\* A flush outside an append keeps the history too.
LEMMA FlushKeepsHistory ==
  ASSUME NEW f \in LogFileType, NEW t \in Nat, FlushInv(f, t), PeriodInv(f, t)
  PROVE  FlushInv(Flush(f), t) /\ PeriodInv(Flush(f), t)
BY FlushType, FlushFields DEF FlushInv, PeriodInv

\* So does the first file.
LEMMA OpenStartsHistory == PoolInv /\ Open => HistoryInv'
<1> SUFFICES ASSUME PoolInv, Open PROVE HistoryInv'
  OBVIOUS
<1>1. PICK count \in Counts, now \in clock .. MaxTime :
        output' = RollFile(NewLogFile(count), now) /\ clock' = now
  BY DEF Open
<1> DEFINE new == NewLogFile(count)
<1>2. /\ new \in LogFileType
      /\ new.lastRoll = 0 /\ new.lastFlush = 0 /\ new.onDisk = Len(new.lines)
      /\ new.startOfPeriod = 0 /\ new.stale = 0 /\ new.checked = FALSE
  BY CountsAssumption, NewLogFileType DEF NewLogFile
<1>3. now \in Nat
  BY MaxLinesAssumption DEF PoolInv, TypeOK
<1>4. Period(0) = 0
  BY RollAssumption DEF Period
<1> HIDE DEF new
<1>5. output' = RollFile(new, now)
  BY <1>1 DEF new
<1>6. CASE now > new.lastRoll
  <2>1. /\ output'.lastRoll = now /\ output'.onDisk = Len(output'.lines)
        /\ output'.lastFlush = now /\ output'.startOfPeriod = Period(now)
        /\ output'.stale = 0 /\ output'.checked = FALSE
    BY <1>2, <1>3, <1>5, <1>6, RollFileType, RollFields
  <2> QED
    BY <1>1, <1>3, <2>1 DEF HistoryInv, FlushInv, PeriodInv
<1>7. CASE ~(now > new.lastRoll)
  <2>1. output' = new
    BY <1>2, <1>3, <1>5, <1>7, RollFileType
  <2> QED
    BY <1>1, <1>2, <1>3, <1>4, <2>1 DEF HistoryInv, FlushInv, PeriodInv
<1> QED
  BY <1>6, <1>7

LEMMA HistoryInductive == PoolInv /\ HistoryInv /\ [Next]_vars => HistoryInv'
<1> SUFFICES ASSUME PoolInv, HistoryInv, [Next]_vars PROVE HistoryInv'
  OBVIOUS
<1>1. ASSUME UNCHANGED <<output, clock>> PROVE HistoryInv'
  BY <1>1 DEF HistoryInv, FlushInv, PeriodInv
<1>2. ASSUME output' = Flush(output), UNCHANGED clock PROVE HistoryInv'
  <2>1. FlushInv(Flush(output), clock) /\ PeriodInv(Flush(output), clock)
    BY FlushKeepsHistory DEF PoolInv, TypeOK, HistoryInv
  <2> QED
    BY <1>2, <2>1 DEF HistoryInv, FlushInv, PeriodInv
<1> USE DEF backVars, fileVars
<1>3. CASE \E len \in Lens : AppendLine(len)
  BY <1>1, <1>3 DEF AppendLine
<1>4. CASE Main
  BY <1>1, <1>4 DEF Main, Start, Stop, Destroy
<1>5. CASE Open
  BY <1>5, OpenStartsHistory
<1>6. CASE Check
  BY <1>1, <1>2, <1>6 DEF Check
<1>7. CASE WaitFor \/ Collect \/ WritesEnd
  BY <1>1, <1>7 DEF WaitFor, Collect, WritesEnd
<1>8. CASE Recycle
  BY <1>2, <1>8 DEF Recycle
<1>9. CASE WriteSucceeds \/ WriteFails
  <2> DEFINE lines == buffersToWrite[wpos + 1].lines
  <2>1. Writing
    BY <1>9 DEF WriteSucceeds, WriteFails
  <2>2. lines \in Seq(Line)
    <3>1. buffersToWrite[wpos + 1] \in Buffer
      BY <2>1 DEF PoolInv, TypeOK, Writing
    <3> QED
      BY <3>1 DEF Buffer
  <2>3. \E kept \in 0 .. Len(lines), failed \in BOOLEAN : WriteBuffer(kept, failed)
    <3>1. Len(lines) \in Nat
      BY <2>2
    <3>2. CASE WriteSucceeds
      <4>1. WriteBuffer(Len(lines), FALSE)
        BY <3>2 DEF WriteSucceeds
      <4>2. Len(lines) \in 0 .. Len(lines) /\ FALSE \in BOOLEAN
        BY <3>1
      <4> HIDE DEF lines
      <4> QED
        BY <4>1, <4>2, Zenon
    <3>3. CASE WriteFails
      <4>1. PICK kept \in 0 .. Len(lines) - 1 : WriteBuffer(kept, TRUE)
        BY <3>3 DEF WriteFails
      <4>2. kept \in 0 .. Len(lines)
        BY <3>1
      <4> QED
        BY <4>1, <4>2
    <3> QED
      BY <1>9, <3>2, <3>3
  <2> QED
    BY <2>1, <2>3, WriteBufferKeepsHistory
<1>10. CASE UNCHANGED vars
  BY <1>1, <1>10 DEF vars
<1> QED
  BY <1>3, <1>4, <1>5, <1>6, <1>7, <1>8, <1>9, <1>10 DEF Next, BackEnd

LEMMA HistoryInvariant == SafetySpec => []HistoryInv
<1>1. Init => HistoryInv
  <2>1. Period(0) = 0
    BY RollAssumption DEF Period
  <2> QED
    BY <2>1 DEF Init, NewLogFile, HistoryInv, FlushInv, PeriodInv
<1> QED
  BY <1>1, PoolInvariant, HistoryInductive, PTL DEF SafetySpec

\* While a round is written, no line waits in stdio's buffer for longer than
\* the flush interval when the next one is appended.
THEOREM AlwaysFlushedInTime == SafetySpec => []FlushedInTime
<1>1. PoolInv /\ HistoryInv => FlushedInTime
  <2> SUFFICES ASSUME PoolInv, HistoryInv, output.onDisk < Len(output.lines)
               PROVE  output.at - output.since <= FlushInterval
    BY DEF FlushedInTime
  <2>1. output.onDisk \in Nat /\ Len(output.lines) \in Nat
    BY DEF PoolInv, TypeOK, LogFileType
  <2>2. output.onDisk # Len(output.lines)
    BY <2>1
  <2> QED
    BY <2>2 DEF HistoryInv, FlushInv
<1> QED
  BY <1>1, PoolInvariant, HistoryInvariant, PTL

\* Once the period has been looked at, a file gets fewer than checkEveryN_
\* appends of another period, although a size roll hides the test of it.
THEOREM FilesRollByPeriod == SafetySpec => []RollsByPeriod
<1>1. HistoryInv => RollsByPeriod
  BY DEF HistoryInv, PeriodInv, RollsByPeriod
<1> QED
  BY <1>1, HistoryInvariant, PTL

-----------------------------------------------------------------------------
(* No line is lost, repeated or overtaken.                                 *)

\* What the files and a queue of buffers hold is what was appended.
Conserved(app, gone, file, queue) ==
  /\ Held(file, queue) = {app[k] : k \in DOMAIN app \ gone}
  /\ InOrder(file, queue)

\* Lines are numbered as they are appended, and only such are lost.
Numbered(app, gone) ==
  /\ \A k \in DOMAIN app : app[k].n = k
  /\ gone \subseteq DOMAIN app

\* Where a held line is.
LEMMA HeldIs ==
  ASSUME NEW file, NEW queue, NEW x
  PROVE  x \in Held(file, queue)
           <=> \/ \E j \in DOMAIN file : x = file[j]
               \/ \E i \in DOMAIN queue : \E j \in DOMAIN queue[i].lines : x = queue[i].lines[j]
BY DEF Held

\* An empty buffer at the end of the queue changes nothing.
LEMMA PushEmpty ==
  ASSUME NEW app, NEW gone, NEW file, NEW queue \in Seq(Buffer),
         Conserved(app, gone, file, queue)
  PROVE  Conserved(app, gone, file, Append(queue, Empty))
<1> DEFINE q == Append(queue, Empty)
<1>1. /\ q \in Seq(Buffer) /\ DOMAIN queue = 1 .. Len(queue) /\ Len(queue) \in Nat
      /\ DOMAIN q = 1 .. Len(queue) + 1
      /\ \A i \in DOMAIN queue : q[i] = queue[i]
      /\ q[Len(queue) + 1] = Empty
  BY EmptyIsBuffer
<1>2. DOMAIN Empty.lines = {}
  BY DEF Empty
<1> HIDE DEF q
<1>3. \A i \in DOMAIN q : i \in DOMAIN queue \/ (i = Len(queue) + 1 /\ DOMAIN q[i].lines = {})
  BY <1>1, <1>2
<1>4. \A i \in DOMAIN queue : i \in DOMAIN q /\ q[i] = queue[i]
  BY <1>1
<1>5. Held(file, q) = Held(file, queue)
  <2>1. ASSUME NEW x PROVE x \in Held(file, q) <=> x \in Held(file, queue)
    BY <1>3, <1>4, HeldIs
  <2> QED
    BY <2>1
<1>6. InOrder(file, q)
  <2>1. InOrder(file, queue)
    BY DEF Conserved
  <2>2. ASSUME NEW i \in DOMAIN q PROVE Ascending(q[i].lines) /\ Precedes(file, q[i].lines)
    BY <1>3, <1>4, <2>1 DEF InOrder, Ascending, Precedes
  <2>3. ASSUME NEW i \in DOMAIN q, NEW j \in DOMAIN q, i < j
        PROVE  Precedes(q[i].lines, q[j].lines)
    BY <1>3, <1>4, <2>1, <2>3 DEF InOrder, Precedes
  <2> QED
    BY <2>1, <2>2, <2>3 DEF InOrder
<1> QED
  BY <1>5, <1>6 DEF Conserved, q

\* The next line goes to the end of the last buffer.
LEMMA PushLine ==
  ASSUME NEW app \in Seq(Line), NEW gone, NEW file \in Seq(Line), NEW queue \in Seq(Buffer),
         NEW q \in Seq(Buffer), NEW line \in Line,
         Conserved(app, gone, file, queue), Numbered(app, gone), line.n = Len(app) + 1,
         Len(queue) >= 1, Len(q) = Len(queue),
         \A i \in 1 .. Len(queue) - 1 : q[i] = queue[i],
         q[Len(queue)].lines = Append(queue[Len(queue)].lines, line)
  PROVE  Conserved(Append(app, line), gone, file, q) /\ Numbered(Append(app, line), gone)
<1> DEFINE n == Len(queue)
<1> DEFINE last == queue[n].lines
<1> DEFINE m == Len(last)
<1> DEFINE app2 == Append(app, line)
<1>1. /\ n \in Nat /\ n >= 1 /\ DOMAIN queue = 1 .. n /\ DOMAIN q = 1 .. n
      /\ Len(app) \in Nat /\ DOMAIN app = 1 .. Len(app)
  OBVIOUS
<1>2. last \in Seq(Line) /\ m \in Nat /\ DOMAIN last = 1 .. m
  <2>1. queue[n] \in Buffer
    BY <1>1
  <2>2. last \in Seq(Line)
    BY <2>1 DEF Buffer
  <2> HIDE DEF last
  <2> QED
    BY <2>2, LenProperties
<1>3. q[n].lines = Append(last, line)
  OBVIOUS
<1>4. /\ DOMAIN q[n].lines = 1 .. m + 1
      /\ \A j \in 1 .. m : q[n].lines[j] = last[j]
      /\ q[n].lines[m + 1] = line
  BY <1>2, <1>3
<1>5. /\ DOMAIN app2 = 1 .. Len(app) + 1
      /\ \A k \in 1 .. Len(app) : app2[k] = app[k]
      /\ app2[Len(app) + 1] = line
  OBVIOUS
<1>6. Numbered(app2, gone)
  BY <1>1, <1>5 DEF Numbered
<1>7. Held(file, queue) = {app[k] : k \in DOMAIN app \ gone} /\ InOrder(file, queue)
  BY DEF Conserved
\* Every line that was held has a smaller number.
<1>8. \A x \in Held(file, queue) : x.n \in Nat /\ x.n < line.n
  BY <1>1, <1>7 DEF Numbered
<1> HIDE DEF n, m, last, app2
<1>9. \A i \in 1 .. n : i = n \/ (i \in 1 .. n - 1 /\ q[i] = queue[i])
  <2>1. \A i \in 1 .. n : i = n \/ i \in 1 .. n - 1
    BY <1>1
  <2>2. \A i \in 1 .. n - 1 : q[i] = queue[i]
    BY Zenon DEF n
  <2> QED
    BY <2>1, <2>2
<1>10. Held(file, q) = Held(file, queue) \cup {line}
  <2>1. ASSUME NEW x, x \in Held(file, q) PROVE x \in Held(file, queue) \cup {line}
    <3>1. CASE \E j \in DOMAIN file : x = file[j]
      BY <3>1, HeldIs
    <3>2. ASSUME NEW i \in DOMAIN q, NEW j \in DOMAIN q[i].lines, x = q[i].lines[j]
          PROVE  x \in Held(file, queue) \cup {line}
      <4>1. CASE i # n
        BY <1>1, <1>9, <3>2, <4>1, HeldIs
      <4>2. CASE i = n
        <5>1. j = m + 1 \/ j \in 1 .. m
          BY <1>2, <1>4, <3>2, <4>2
        <5>2. CASE j = m + 1
          BY <1>4, <3>2, <4>2, <5>2
        <5>3. CASE j \in 1 .. m
          <6>1. n \in DOMAIN queue /\ j \in DOMAIN queue[n].lines /\ x = queue[n].lines[j]
            BY <1>1, <1>2, <1>4, <3>2, <4>2, <5>3 DEF last
          <6> QED
            BY <6>1, HeldIs
        <5> QED
          BY <5>1, <5>2, <5>3
      <4> QED
        BY <4>1, <4>2
    <3>3. \/ \E j \in DOMAIN file : x = file[j]
          \/ \E i \in DOMAIN q : \E j \in DOMAIN q[i].lines : x = q[i].lines[j]
      BY <2>1, HeldIs
    <3> QED
      BY <3>1, <3>2, <3>3
  <2>2. line \in Held(file, q)
    <3>1. n \in DOMAIN q /\ m + 1 \in DOMAIN q[n].lines /\ line = q[n].lines[m + 1]
      BY <1>1, <1>2, <1>4
    <3> QED
      BY <3>1, HeldIs
  <2>3. ASSUME NEW x, x \in Held(file, queue) PROVE x \in Held(file, q)
    <3>1. CASE \E j \in DOMAIN file : x = file[j]
      BY <3>1, HeldIs
    <3>2. ASSUME NEW i \in DOMAIN queue, NEW j \in DOMAIN queue[i].lines,
                 x = queue[i].lines[j]
          PROVE  x \in Held(file, q)
      <4>1. i \in DOMAIN q /\ j \in DOMAIN q[i].lines /\ x = q[i].lines[j]
        <5>1. CASE i = n
          <6>1. j \in 1 .. m /\ x = last[j]
            BY <1>2, <3>2, <5>1 DEF last
          <6>2. j \in 1 .. m + 1
            BY <1>2, <6>1
          <6> QED
            BY <1>1, <1>4, <5>1, <6>1, <6>2
        <5>2. CASE i # n
          <6>1. q[i] = queue[i]
            BY <1>1, <1>9, <3>2, <5>2
          <6> QED
            BY <1>1, <3>2, <6>1
        <5> QED
          BY <5>1, <5>2
      <4> QED
        BY <4>1, HeldIs
    <3> QED
      BY <2>3, <3>1, <3>2, HeldIs
  <2> QED
    BY <2>1, <2>2, <2>3
<1>11. {app2[k] : k \in DOMAIN app2 \ gone} = {app[k] : k \in DOMAIN app \ gone} \cup {line}
  <2>1. Len(app) + 1 \notin gone
    BY <1>1 DEF Numbered
  <2>2. DOMAIN app2 \ gone = (DOMAIN app \ gone) \cup {Len(app) + 1}
    BY <1>1, <1>5, <2>1
  <2>3. \A k \in DOMAIN app \ gone : app2[k] = app[k]
    BY <1>1, <1>5
  <2> QED
    BY <1>5, <2>2, <2>3
<1>12. InOrder(file, q)
  <2>1. ASSUME NEW i \in DOMAIN q, NEW j \in DOMAIN q[i].lines, ~(i = n /\ j = m + 1)
        PROVE  i \in DOMAIN queue /\ j \in DOMAIN queue[i].lines /\ q[i].lines[j] = queue[i].lines[j]
    <3>1. CASE i # n
      <4>1. q[i] = queue[i] /\ i \in DOMAIN queue
        BY <1>1, <1>9, <3>1
      <4> QED
        BY <2>1, <4>1
    <3>2. CASE i = n
      <4>1. j \in 1 .. m
        BY <1>2, <1>4, <2>1, <3>2
      <4>2. q[i].lines[j] = last[j] /\ j \in DOMAIN last
        BY <1>2, <1>4, <3>2, <4>1
      <4> QED
        BY <1>1, <3>2, <4>2 DEF last
    <3> QED
      BY <3>1, <3>2
  <2>2. \A j \in DOMAIN file : file[j].n < line.n
    BY <1>8, HeldIs
  <2>3. \A i \in DOMAIN queue : \A j \in DOMAIN queue[i].lines : queue[i].lines[j].n < line.n
    BY <1>8, HeldIs
  <2>4. ASSUME NEW i \in DOMAIN q PROVE Ascending(q[i].lines) /\ Precedes(file, q[i].lines)
    <3>1. Precedes(file, q[i].lines)
      BY <1>4, <1>7, <2>1, <2>2 DEF InOrder, Precedes
    <3>2. ASSUME NEW j \in DOMAIN q[i].lines, NEW k \in DOMAIN q[i].lines, j < k
          PROVE  q[i].lines[j].n < q[i].lines[k].n
      <4>1. ~(i = n /\ j = m + 1)
        BY <1>2, <1>4, <3>2
      <4>2. CASE i = n /\ k = m + 1
        BY <1>4, <2>1, <2>3, <4>1, <4>2
      <4>3. CASE ~(i = n /\ k = m + 1)
        BY <1>7, <2>1, <3>2, <4>1, <4>3 DEF InOrder, Ascending
      <4> QED
        BY <4>2, <4>3
    <3> QED
      BY <3>1, <3>2 DEF Ascending
  <2>5. ASSUME NEW i \in DOMAIN q, NEW k \in DOMAIN q, i < k,
               NEW j \in DOMAIN q[i].lines, NEW l \in DOMAIN q[k].lines
        PROVE  q[i].lines[j].n < q[k].lines[l].n
    <3>1. i # n
      BY <1>1, <2>5
    <3>2. CASE k = n /\ l = m + 1
      BY <1>4, <2>1, <2>3, <3>1, <3>2
    <3>3. CASE ~(k = n /\ l = m + 1)
      BY <1>7, <2>1, <2>5, <3>1, <3>3 DEF InOrder, Precedes
    <3> QED
      BY <3>2, <3>3
  <2> QED
    BY <1>7, <2>4, <2>5 DEF InOrder, Precedes
<1> QED
  BY <1>6, <1>7, <1>10, <1>11, <1>12 DEF Conserved, app2

\* The back end writes the first kept lines of the first buffer and drops the
\* others.
LEMMA WriteFirst ==
  ASSUME NEW app \in Seq(Line), NEW gone, NEW file \in Seq(Line), NEW queue \in Seq(Buffer),
         Conserved(app, gone, file, queue), Numbered(app, gone), Len(queue) >= 1,
         NEW kept \in 0 .. Len(queue[1].lines)
  PROVE  LET lines == queue[1].lines
             drop == {lines[i].n : i \in kept + 1 .. Len(lines)}
         IN  /\ Conserved(app, gone \cup drop, file \o SubSeq(lines, 1, kept), Tail(queue))
             /\ Numbered(app, gone \cup drop)
<1> DEFINE lines == queue[1].lines
<1> DEFINE m == Len(lines)
<1> DEFINE drop == {lines[i].n : i \in kept + 1 .. m}
<1> DEFINE n == Len(queue)
<1> DEFINE q == Tail(queue)
<1> DEFINE f == Len(file)
<1> DEFINE out == file \o SubSeq(lines, 1, kept)
<1>1. /\ n \in Nat /\ n >= 1 /\ DOMAIN queue = 1 .. n /\ DOMAIN app = 1 .. Len(app)
      /\ f \in Nat /\ DOMAIN file = 1 .. f
  OBVIOUS
<1>2. DOMAIN q = 1 .. n - 1 /\ \A i \in 1 .. n - 1 : q[i] = queue[i + 1]
  OBVIOUS
<1>3. lines \in Seq(Line) /\ m \in Nat /\ DOMAIN lines = 1 .. m
  <2>1. queue[1] \in Buffer
    BY <1>1
  <2> QED
    BY <2>1 DEF Buffer
<1>4. kept \in 0 .. m
  OBVIOUS
<1> HIDE DEF lines, m
<1>5. /\ DOMAIN out = 1 .. f + kept
      /\ \A j \in 1 .. f : out[j] = file[j]
      /\ \A j \in 1 .. kept : out[f + j] = lines[j]
  <2>1. SubSeq(lines, 1, kept) \in Seq(Line)
    <3>1. \A i \in 1 .. kept : lines[i] \in Line
      BY <1>3, <1>4
    <3> QED
      BY <1>4, <3>1, SubSeqProperties
  <2>2. Len(SubSeq(lines, 1, kept)) = kept /\ \A j \in 1 .. kept : SubSeq(lines, 1, kept)[j] = lines[j]
    BY <1>3, <1>4 DEF m
  <2> QED
    BY <1>4, <2>1, <2>2
<1>6. 1 \in DOMAIN queue /\ queue[1].lines = lines
  BY <1>1 DEF lines
<1>7. Held(file, queue) = {app[k] : k \in DOMAIN app \ gone} /\ InOrder(file, queue)
  BY DEF Conserved
<1>8. \A x \in Held(file, queue) : \E k \in DOMAIN app \ gone : x = app[k] /\ x.n = k
  BY <1>7 DEF Numbered
<1>9. \A j \in 1 .. m : lines[j] \in Held(file, queue)
  BY <1>3, <1>6, HeldIs
<1>10. drop \subseteq DOMAIN app
  BY <1>4, <1>3, <1>8, <1>9
<1>11. Numbered(app, gone \cup drop)
  BY <1>10 DEF Numbered
<1> HIDE DEF q, out, n, f
\* Each place of the files and of the rest of the queue was a place before.
<1>12. \A j \in DOMAIN out :
         \/ j \in DOMAIN file /\ out[j] = file[j]
         \/ j - f \in 1 .. kept /\ out[j] = lines[j - f]
  <2> SUFFICES ASSUME NEW j \in DOMAIN out
               PROVE  \/ j \in DOMAIN file /\ out[j] = file[j]
                      \/ j - f \in 1 .. kept /\ out[j] = lines[j - f]
    OBVIOUS
  <2>1. CASE j <= f
    BY <1>1, <1>4, <1>5, <2>1
  <2>2. CASE ~(j <= f)
    <3>1. j - f \in 1 .. kept /\ f + (j - f) = j
      BY <1>1, <1>3, <1>4, <1>5, <2>2
    <3> QED
      BY <1>5, <3>1
  <2> QED
    BY <2>1, <2>2
<1>13. \A i \in DOMAIN q : i + 1 \in DOMAIN queue /\ i + 1 > 1 /\ q[i] = queue[i + 1]
  BY <1>1, <1>2
<1>14. \A j \in 1 .. kept : j \in DOMAIN lines /\ j \in 1 .. m
  BY <1>3, <1>4
<1>15. ASSUME NEW x, x \in Held(out, q) PROVE x \in Held(file, queue) /\ x.n \notin drop
  <2>1. CASE \E j \in DOMAIN file : x = file[j]
    <3>1. x \in Held(file, queue)
      BY <2>1, HeldIs
    <3>2. \A j \in 1 .. m : x.n < lines[j].n
      BY <1>3, <1>6, <1>7, <2>1 DEF InOrder, Precedes
    <3>3. \A j \in kept + 1 .. m : x.n # lines[j].n
      <4>1. x.n \in Nat
        BY <1>1, <1>8, <3>1
      <4>2. \A j \in kept + 1 .. m : j \in 1 .. m
        BY <1>3, <1>4
      <4> QED
        BY <3>2, <4>1, <4>2
    <3> QED
      BY <3>1, <3>3
  <2>2. CASE \E j \in 1 .. kept : x = lines[j]
    <3>1. PICK j \in 1 .. kept : x = lines[j]
      BY <2>2
    <3>2. x \in Held(file, queue)
      BY <1>9, <1>14, <3>1
    <3>3. \A k \in kept + 1 .. m : x.n < lines[k].n
      <4>1. Ascending(lines)
        BY <1>6, <1>7 DEF InOrder
      <4>2. \A k \in kept + 1 .. m : k \in DOMAIN lines /\ j < k
        BY <1>3, <1>4
      <4> QED
        BY <1>14, <3>1, <4>1, <4>2 DEF Ascending
    <3>4. x.n \in Nat
      BY <1>1, <1>8, <3>2
    <3> QED
      BY <3>2, <3>3, <3>4
  <2>3. ASSUME NEW i \in DOMAIN q, NEW j \in DOMAIN q[i].lines, x = q[i].lines[j]
        PROVE  x \in Held(file, queue) /\ x.n \notin drop
    <3>1. i + 1 \in DOMAIN queue /\ 1 < i + 1 /\ j \in DOMAIN queue[i + 1].lines
            /\ x = queue[i + 1].lines[j]
      BY <1>13, <2>3
    <3>2. x \in Held(file, queue)
      BY <3>1, HeldIs
    <3>3. Precedes(lines, queue[i + 1].lines)
      BY <1>6, <1>7, <3>1 DEF InOrder
    <3>4. \A k \in 1 .. m : lines[k].n < x.n
      BY <1>3, <3>1, <3>3 DEF Precedes
    <3>5. x.n \in Nat
      BY <1>1, <1>8, <3>2
    <3>6. \A k \in kept + 1 .. m : k \in 1 .. m
      BY <1>3, <1>4
    <3> QED
      BY <3>2, <3>4, <3>5, <3>6
  <2>4. \/ \E j \in DOMAIN out : x = out[j]
        \/ \E i \in DOMAIN q : \E j \in DOMAIN q[i].lines : x = q[i].lines[j]
    BY <1>15, HeldIs
  <2> QED
    BY <1>12, <2>1, <2>2, <2>3, <2>4
<1>16. ASSUME NEW x, x \in Held(file, queue), x.n \notin drop PROVE x \in Held(out, q)
  <2>1. CASE \E j \in DOMAIN file : x = file[j]
    <3>1. \A j \in DOMAIN file : j \in DOMAIN out /\ out[j] = file[j]
      BY <1>1, <1>4, <1>5
    <3> QED
      BY <2>1, <3>1, HeldIs
  <2>2. ASSUME NEW i \in DOMAIN queue, NEW j \in DOMAIN queue[i].lines,
               x = queue[i].lines[j]
        PROVE  x \in Held(out, q)
    <3>1. CASE i = 1
      <4>1. j \in 1 .. m /\ x = lines[j]
        BY <1>3, <1>6, <2>2, <3>1
      <4>2. j \in 1 .. kept
        BY <1>3, <1>4, <1>16, <4>1
      <4>3. f + j \in DOMAIN out /\ out[f + j] = x
        BY <1>1, <1>4, <1>5, <4>1, <4>2
      <4> QED
        BY <4>3, HeldIs
    <3>2. CASE i # 1
      <4>1. i - 1 \in DOMAIN q /\ q[i - 1] = queue[i]
        <5>1. i - 1 \in 1 .. n - 1 /\ (i - 1) + 1 = i
          BY <1>1, <3>2
        <5> QED
          BY <1>2, <5>1
      <4> QED
        BY <2>2, <4>1, HeldIs
    <3> QED
      BY <3>1, <3>2
  <2> QED
    BY <1>16, <2>1, <2>2, HeldIs
<1>17. Held(out, q) = {app[k] : k \in DOMAIN app \ (gone \cup drop)}
  <2>1. ASSUME NEW x, x \in Held(out, q)
        PROVE  \E k \in DOMAIN app \ (gone \cup drop) : x = app[k]
    BY <1>8, <1>15, <2>1
  <2>2. ASSUME NEW k \in DOMAIN app \ (gone \cup drop)
        PROVE  app[k] \in Held(out, q)
    <3>1. app[k] \in Held(file, queue) /\ app[k].n = k
      BY <1>7 DEF Numbered
    <3> QED
      BY <1>16, <3>1
  <2> HIDE DEF drop
  <2> QED
    BY <2>1, <2>2
<1>18. InOrder(out, q)
  <2>1. Ascending(file) /\ Ascending(lines) /\ Precedes(file, lines)
    BY <1>6, <1>7 DEF InOrder
  <2>2. ASSUME NEW j \in DOMAIN out, NEW k \in DOMAIN out, j < k PROVE out[j].n < out[k].n
    <3>1. CASE k <= f
      <4>1. /\ j \in DOMAIN file /\ k \in DOMAIN file
            /\ out[j] = file[j] /\ out[k] = file[k]
        BY <1>1, <1>3, <1>4, <1>5, <2>2, <3>1
      <4> QED
        BY <2>1, <2>2, <4>1 DEF Ascending
    <3>2. CASE ~(k <= f)
      <4>1. k - f \in 1 .. kept /\ k - f \in DOMAIN lines /\ out[k] = lines[k - f]
        BY <1>1, <1>12, <1>14, <3>2
      <4>2. CASE j \in DOMAIN file /\ out[j] = file[j]
        BY <2>1, <4>1, <4>2 DEF Precedes
      <4>3. CASE j - f \in 1 .. kept /\ out[j] = lines[j - f]
        <5>1. j - f \in DOMAIN lines /\ j - f < k - f
          BY <1>1, <1>3, <1>4, <1>5, <1>14, <2>2, <4>3
        <5> QED
          BY <2>1, <4>1, <4>3, <5>1 DEF Ascending
      <4> QED
        BY <1>12, <4>2, <4>3
    <3> QED
      BY <3>1, <3>2
  <2>3. ASSUME NEW i \in DOMAIN q PROVE Ascending(q[i].lines) /\ Precedes(out, q[i].lines)
    <3>1. /\ Ascending(q[i].lines) /\ Precedes(file, q[i].lines) /\ Precedes(lines, q[i].lines)
      BY <1>6, <1>7, <1>13 DEF InOrder
    <3> QED
      BY <1>12, <1>14, <3>1 DEF Precedes
  <2>4. ASSUME NEW i \in DOMAIN q, NEW k \in DOMAIN q, i < k
        PROVE  Precedes(q[i].lines, q[k].lines)
    <3>1. i + 1 < k + 1
      BY <1>1, <1>2, <2>4
    <3> QED
      BY <1>7, <1>13, <3>1 DEF InOrder
  <2> QED
    BY <2>2, <2>3, <2>4 DEF InOrder, Ascending
<1> QED
  BY <1>11, <1>17, <1>18 DEF Conserved, q, out, lines, m

\* The rest of the inductive invariant: the numbers of the lines, and what the
\* back end's place says of its file and of wpos.
TraceInv ==
  /\ LinesConserved
  /\ Numbered(appended, lost)
  /\ bpc \in {"none", "open"} => output.lines = <<>>
  /\ bpc # "write" => wpos = 0
  /\ wpos <= Len(buffersToWrite)

\* The queue without the buffer that is being filled.
Full == Taken \o buffers_

LEMMA QueueIs ==
  ASSUME TypeOK
  PROVE  /\ Taken \in Seq(Buffer) /\ Full \in Seq(Buffer) /\ Queue \in Seq(Buffer)
         /\ Queue = Append(Full, currentBuffer_)
         /\ Len(Queue) = Len(Full) + 1 /\ Len(Full) \in Nat
         /\ Queue[Len(Queue)] = currentBuffer_
         /\ bpc # "write" => Full = buffers_
<1>1. buffers_ \in Seq(Buffer) /\ currentBuffer_ \in Buffer /\ buffersToWrite \in Seq(Buffer)
        /\ wpos \in Nat
  BY DEF TypeOK
<1>2. Taken \in Seq(Buffer)
  BY <1>1 DEF Taken
<1>3. Full \in Seq(Buffer)
  BY <1>1, <1>2 DEF Full
<1>4. Queue = Full \o <<currentBuffer_>>
  BY DEF Queue, Full
<1>5. Queue = Append(Full, currentBuffer_)
  BY <1>1, <1>3, <1>4
<1>6. bpc # "write" => Full = buffers_
  <2>1. <<>> \o buffers_ = buffers_
    BY <1>1
  <2> QED
    BY <2>1 DEF Full, Taken
<1> QED
  BY <1>1, <1>2, <1>3, <1>5, <1>6

\* append: the line goes to the end of the queue, in a new buffer if need be.
LEMMA AppendKeepsTrace ==
  ASSUME PoolInv, TraceInv, NEW len \in Lens, AppendLine(len)
  PROVE  TraceInv'
<1> DEFINE line == [n |-> Len(appended) + 1, len |-> len]
<1> DEFINE fresh == IF nextBuffer_ = NoBuffer THEN Empty ELSE nextBuffer_
<1>1. line \in Line /\ line.n = Len(appended) + 1 /\ line.len = len /\ len \in Nat
  BY LensAssumption DEF Line, PoolInv, TypeOK
<1>2. /\ TypeOK /\ TypeOK' /\ appended \in Seq(Line) /\ output.lines \in Seq(Line)
      /\ currentBuffer_ \in Buffer /\ currentBuffer_' \in Buffer
      /\ buffers_ \in Seq(Buffer)
  BY AppendKeeps DEF PoolInv, TypeOK, LogFileType
<1>3. UNCHANGED <<bpc, wpos, buffersToWrite, output, lost>> /\ Taken' = Taken
        /\ appended' = Append(appended, line)
  BY DEF AppendLine, backVars, rotVars, fileVars, Taken
<1> HIDE DEF line
<1>4. /\ Full \in Seq(Buffer) /\ Queue \in Seq(Buffer) /\ Queue = Append(Full, currentBuffer_)
      /\ Len(Queue) = Len(Full) + 1 /\ Len(Full) \in Nat /\ Queue[Len(Queue)] = currentBuffer_
      /\ Taken \in Seq(Buffer)
  BY <1>2, QueueIs
<1>5. Queue' \in Seq(Buffer) /\ Queue' = Append(Full', currentBuffer_')
  <2>1. buffers_' \in Seq(Buffer)
    BY <1>2 DEF TypeOK
  <2>2. Full' \in Seq(Buffer)
    BY <1>3, <1>4, <2>1 DEF Full
  <2>3. Queue' = Full' \o <<currentBuffer_'>>
    BY DEF Queue, Full
  <2> QED
    BY <1>2, <2>2, <2>3
<1>6. Conserved(appended, lost, output.lines, Queue) /\ Numbered(appended, lost)
  BY DEF TraceInv, LinesConserved, Conserved
<1>7. /\ Conserved(Append(appended, line), lost, output.lines, Queue')
      /\ Numbered(Append(appended, line), lost)
  <2>1. CASE Avail(BufferSize, currentBuffer_) > len
    <3>1. currentBuffer_' = FixedAppend(BufferSize, currentBuffer_, line) /\ buffers_' = buffers_
      BY <2>1 DEF AppendLine, line
    <3>2. currentBuffer_'.lines = Append(currentBuffer_.lines, line)
      BY <1>1, <2>1, <3>1 DEF FixedAppend, Add
    <3>3. Full' = Full
      BY <1>3, <3>1 DEF Full
    <3> DEFINE q == Queue'
    <3>4. /\ q \in Seq(Buffer) /\ Len(q) = Len(Queue) /\ Len(Queue) >= 1
          /\ \A i \in 1 .. Len(Queue) - 1 : q[i] = Queue[i]
          /\ q[Len(Queue)].lines = Append(Queue[Len(Queue)].lines, line)
      BY <1>2, <1>4, <1>5, <3>2, <3>3
    <3> HIDE DEF q
    <3>5. /\ Conserved(Append(appended, line), lost, output.lines, q)
          /\ Numbered(Append(appended, line), lost)
      BY <1>1, <1>2, <1>4, <1>6, <3>4, PushLine
    <3> QED
      BY <3>5 DEF q
  <2>2. CASE ~(Avail(BufferSize, currentBuffer_) > len)
    <3>1. /\ currentBuffer_' = FixedAppend(BufferSize, fresh, line)
          /\ buffers_' = Append(buffers_, currentBuffer_)
      BY <2>2 DEF AppendLine, line
    <3>2. fresh = Empty
      BY DEF PoolInv, FrontInv
    <3>3. Avail(BufferSize, Empty) > len
      BY LensAssumption, BufferSizeAssumption DEF Avail, Empty
    <3>4. currentBuffer_'.lines = Append(Empty.lines, line)
      BY <1>1, <3>1, <3>2, <3>3 DEF FixedAppend, Add
    <3>5. Full' = Queue
      <4>1. Full' = Taken \o Append(buffers_, currentBuffer_)
        BY <1>3, <3>1 DEF Full
      <4>2. Taken \o Append(buffers_, currentBuffer_) = Append(Taken \o buffers_, currentBuffer_)
        BY <1>2, <1>4
      <4> QED
        BY <1>4, <4>1, <4>2 DEF Full
    <3> DEFINE mid == Append(Queue, Empty)
    <3>6. Conserved(appended, lost, output.lines, mid)
      BY <1>4, <1>6, PushEmpty
    <3> DEFINE q == Queue'
    <3>7. /\ mid \in Seq(Buffer) /\ q \in Seq(Buffer)
          /\ Len(q) = Len(mid) /\ Len(mid) >= 1
          /\ \A i \in 1 .. Len(mid) - 1 : q[i] = mid[i]
          /\ q[Len(mid)].lines = Append(mid[Len(mid)].lines, line)
      BY <1>2, <1>4, <1>5, <3>4, <3>5, EmptyIsBuffer
    <3> HIDE DEF q, mid
    <3>8. /\ Conserved(Append(appended, line), lost, output.lines, q)
          /\ Numbered(Append(appended, line), lost)
      BY <1>1, <1>2, <1>6, <3>6, <3>7, PushLine
    <3> QED
      BY <3>8 DEF q
  <2> QED
    BY <2>1, <2>2
<1> QED
  BY <1>3, <1>7 DEF TraceInv, LinesConserved, Conserved

\* The swap: the back end takes the whole queue and leaves an empty buffer.
LEMMA CollectKeepsTrace == PoolInv /\ TraceInv /\ Collect => TraceInv'
<1> SUFFICES ASSUME PoolInv, TraceInv, Collect PROVE TraceInv'
  OBVIOUS
<1>1. /\ TypeOK /\ output.lines \in Seq(Line) /\ currentBuffer_ \in Buffer
      /\ buffers_ \in Seq(Buffer) /\ bpc # "write" /\ wpos = 0
      /\ buffersToWrite = <<>> /\ newbuffer1 = Empty
  BY DEF PoolInv, TypeOK, LogFileType, BackInv, TraceInv, Collect
<1>2. /\ bpc' = "write" /\ wpos' = 0 /\ buffers_' = <<>> /\ currentBuffer_' = Empty
      /\ buffersToWrite' = Append(buffers_, currentBuffer_)
      /\ UNCHANGED <<output, lost, appended>>
  BY <1>1 DEF Collect, fileVars
<1>3. Queue = Append(buffers_, currentBuffer_) /\ Queue \in Seq(Buffer)
  BY <1>1, QueueIs
<1>4. Queue' = Append(Queue, Empty)
  <2>1. Taken' = SubSeq(Append(buffers_, currentBuffer_), 1, Len(Append(buffers_, currentBuffer_)))
    BY <1>2 DEF Taken
  <2>2. Taken' = Queue
    BY <1>1, <1>3, <2>1
  <2>3. Queue' = Queue \o <<>> \o <<Empty>>
    BY <1>2, <2>2 DEF Queue
  <2> QED
    BY <1>3, <2>3, EmptyIsBuffer
<1>5. Conserved(appended, lost, output.lines, Queue)
  BY DEF TraceInv, LinesConserved, Conserved
<1>6. Conserved(appended, lost, output.lines, Append(Queue, Empty))
  BY <1>3, <1>5, PushEmpty
<1>7. LinesConserved'
  BY <1>2, <1>4, <1>6 DEF LinesConserved, Conserved
<1>8. wpos' <= Len(buffersToWrite')
  BY <1>1, <1>2
<1> QED
  BY <1>2, <1>7, <1>8 DEF TraceInv, Numbered

\* Taking the first element off a sequence, joined or cut from another.
LEMMA TailConcat ==
  ASSUME NEW S, NEW s \in Seq(S), NEW t \in Seq(S), Len(s) >= 1
  PROVE  Tail(s \o t) = Tail(s) \o t
<1> DEFINE u == Tail(s \o t)
<1> DEFINE v == Tail(s) \o t
<1>1. u \in Seq(S) /\ v \in Seq(S) /\ Len(u) = Len(s) + Len(t) - 1 /\ Len(v) = Len(u)
  OBVIOUS
<1>2. ASSUME NEW i \in 1 .. Len(u) PROVE u[i] = v[i]
  <2>1. u[i] = (s \o t)[i + 1]
    OBVIOUS
  <2>2. CASE i <= Len(s) - 1
    BY <2>1, <2>2
  <2>3. CASE ~(i <= Len(s) - 1)
    BY <1>1, <2>1, <2>3
  <2> QED
    BY <2>2, <2>3
<1> HIDE DEF u, v
<1>3. u = v
  BY <1>1, <1>2, SeqEqual
<1> QED
  BY <1>3 DEF u, v

LEMMA TailSubSeq ==
  ASSUME NEW S, NEW s \in Seq(S), NEW i \in 1 .. Len(s)
  PROVE  Tail(SubSeq(s, i, Len(s))) = SubSeq(s, i + 1, Len(s))
<1> DEFINE u == Tail(SubSeq(s, i, Len(s)))
<1> DEFINE v == SubSeq(s, i + 1, Len(s))
<1>1. SubSeq(s, i, Len(s)) \in Seq(S) /\ Len(SubSeq(s, i, Len(s))) = Len(s) - i + 1
  OBVIOUS
<1>2. u \in Seq(S) /\ v \in Seq(S) /\ Len(u) = Len(s) - i /\ Len(v) = Len(u)
  <2>1. u \in Seq(S) /\ Len(u) = Len(s) - i
    <3> DEFINE w == SubSeq(s, i, Len(s))
    <3>1. w \in Seq(S) /\ Len(w) = Len(s) - i + 1
      BY <1>1
    <3> HIDE DEF w
    <3>2. w # <<>> /\ Len(w) - 1 = Len(s) - i
      BY <3>1
    <3>3. Tail(w) \in Seq(S) /\ Len(Tail(w)) = Len(w) - 1
      BY <3>1, <3>2, HeadTailProperties
    <3> QED
      BY <3>2, <3>3 DEF w
  <2>2. v \in Seq(S)
    OBVIOUS
  <2>3. Len(v) = Len(s) - i
    OBVIOUS
  <2> QED
    BY <2>1, <2>2, <2>3
<1>3. \A j \in 1 .. Len(u) : u[j] = v[j]
  BY <1>1, <1>2
<1> HIDE DEF u, v
<1>4. u = v
  BY <1>2, <1>3, SeqEqual
<1> QED
  BY <1>4 DEF u, v

\* A write takes the first buffer out of the queue.
LEMMA WriteKeepsTrace ==
  PoolInv /\ HistoryInv /\ TraceInv /\ (WriteSucceeds \/ WriteFails) => TraceInv'
<1> SUFFICES ASSUME PoolInv, HistoryInv, TraceInv, WriteSucceeds \/ WriteFails
             PROVE  TraceInv'
  OBVIOUS
<1> DEFINE lines == buffersToWrite[wpos + 1].lines
<1>1. /\ TypeOK /\ appended \in Seq(Line) /\ output.lines \in Seq(Line)
      /\ buffersToWrite \in Seq(Buffer) /\ wpos \in Nat /\ buffers_ \in Seq(Buffer)
      /\ currentBuffer_ \in Buffer
  BY DEF PoolInv, TypeOK, LogFileType
<1>2. Writing /\ bpc = "write" /\ wpos < Len(buffersToWrite)
  BY DEF WriteSucceeds, WriteFails, Writing
<1>3. lines \in Seq(Line) /\ Len(lines) \in Nat
  <2>1. buffersToWrite[wpos + 1] \in Buffer
    BY <1>1, <1>2
  <2> QED
    BY <2>1 DEF Buffer
<1> DEFINE rest(kept) == {lines[i].n : i \in kept + 1 .. Len(lines)}
<1>4. PICK kept \in 0 .. Len(lines) :
        /\ \E failed \in BOOLEAN : WriteBuffer(kept, failed)
        /\ lost' = lost \cup rest(kept)
  <2>1. CASE WriteSucceeds
    <3>1. WriteBuffer(Len(lines), FALSE) /\ lost' = lost
      BY <2>1 DEF WriteSucceeds
    <3>2. Len(lines) + 1 .. Len(lines) = {}
      BY <1>3
    <3>3. rest(Len(lines)) = {}
      BY <3>2
    <3>4. Len(lines) \in 0 .. Len(lines) /\ FALSE \in BOOLEAN
      BY <1>3
    <3>5. lost' = lost \cup rest(Len(lines))
      BY <3>1, <3>3
    <3> HIDE DEF lines, rest
    <3> QED
      BY <3>1, <3>4, <3>5, Zenon
  <2>2. CASE WriteFails
    <3>1. PICK kept \in 0 .. Len(lines) - 1 :
            WriteBuffer(kept, TRUE) /\ lost' = lost \cup rest(kept)
      BY <2>2 DEF WriteFails
    <3>2. kept \in 0 .. Len(lines) /\ TRUE \in BOOLEAN
      BY <1>3
    <3> HIDE DEF lines, rest
    <3> QED
      BY <3>1, <3>2, Zenon
  <2> QED
    BY <2>1, <2>2
<1>5. PICK failed \in BOOLEAN : WriteBuffer(kept, failed)
  BY <1>4
<1>6. /\ wpos' = wpos + 1
      /\ UNCHANGED <<bpc, buffersToWrite, buffers_, currentBuffer_, appended>>
  BY <1>5 DEF WriteBuffer, rotVars, frontVars
<1>7. output'.lines = output.lines \o SubSeq(lines, 1, kept)
  BY <1>2, <1>5, WriteBufferKeepsHistory
<1>8. Queue \in Seq(Buffer) /\ Len(Queue) >= 1 /\ Queue[1] = buffersToWrite[wpos + 1]
        /\ Queue' = Tail(Queue)
  <2>1. /\ Taken = SubSeq(buffersToWrite, wpos + 1, Len(buffersToWrite))
        /\ Taken \in Seq(Buffer) /\ Len(Taken) >= 1 /\ Taken[1] = buffersToWrite[wpos + 1]
    BY <1>1, <1>2 DEF Taken
  <2>2. Taken' = SubSeq(buffersToWrite, (wpos + 1) + 1, Len(buffersToWrite))
    BY <1>2, <1>6 DEF Taken
  <2>3. Taken' = Tail(Taken)
    <3>1. wpos + 1 \in 1 .. Len(buffersToWrite)
      BY <1>1, <1>2
    <3> QED
      BY <1>1, <2>1, <2>2, <3>1, TailSubSeq
  <2>4. Queue = (Taken \o buffers_) \o <<currentBuffer_>>
    BY DEF Queue
  <2>5. Queue' = (Tail(Taken) \o buffers_) \o <<currentBuffer_>>
    BY <1>6, <2>3 DEF Queue
  <2> DEFINE tk == Taken
  <2>6. tk \in Seq(Buffer) /\ Len(tk) >= 1
    BY <2>1
  <2>7. /\ (tk \o buffers_) \o <<currentBuffer_>> \in Seq(Buffer)
        /\ Len((tk \o buffers_) \o <<currentBuffer_>>) >= 1
        /\ ((tk \o buffers_) \o <<currentBuffer_>>)[1] = tk[1]
    <3> HIDE DEF tk
    <3> QED
      BY <1>1, <2>6
  <2>8. (Tail(tk) \o buffers_) \o <<currentBuffer_>> = Tail((tk \o buffers_) \o <<currentBuffer_>>)
    <3> HIDE DEF tk
    <3>1. Tail(tk \o buffers_) = Tail(tk) \o buffers_
      BY <1>1, <2>6, TailConcat
    <3> DEFINE full == tk \o buffers_
    <3> DEFINE cur == <<currentBuffer_>>
    <3>2. full \in Seq(Buffer) /\ Len(full) >= 1 /\ cur \in Seq(Buffer)
      BY <1>1, <2>6
    <3> HIDE DEF full, cur
    <3>3. Tail(full \o cur) = Tail(full) \o cur
      BY <3>2, TailConcat
    <3> QED
      BY <3>1, <3>3 DEF full, cur
  <2> QED
    BY <2>1, <2>4, <2>5, <2>7, <2>8
<1>9. Conserved(appended, lost, output.lines, Queue) /\ Numbered(appended, lost)
  BY DEF TraceInv, LinesConserved, Conserved
<1>10. /\ Conserved(appended, lost \cup rest(kept), output.lines \o SubSeq(lines, 1, kept), Tail(Queue))
       /\ Numbered(appended, lost \cup rest(kept))
  <2>1. lines = Queue[1].lines
    BY <1>8
  <2>2. kept \in 0 .. Len(Queue[1].lines)
    BY <1>4, <2>1
  <2> DEFINE first == Queue[1].lines
  <2> DEFINE drop == {first[i].n : i \in kept + 1 .. Len(first)}
  <2>3. /\ Conserved(appended, lost \cup drop, output.lines \o SubSeq(first, 1, kept), Tail(Queue))
        /\ Numbered(appended, lost \cup drop)
    BY <1>1, <1>8, <1>9, <2>2, WriteFirst, ZenonT(30)
  <2> HIDE DEF lines
  <2> QED
    BY <2>1, <2>3
<1>11. LinesConserved' /\ Numbered(appended, lost)'
  BY <1>4, <1>6, <1>7, <1>8, <1>10 DEF LinesConserved, Conserved, Numbered
<1>12. wpos' <= Len(buffersToWrite')
  BY <1>1, <1>2, <1>6
<1> QED
  BY <1>2, <1>6, <1>11, <1>12 DEF TraceInv

\* The other steps of both ends move no line.
LEMMA OthersKeepTrace ==
  PoolInv /\ TraceInv /\ (Main \/ Open \/ Check \/ WaitFor \/ WritesEnd \/ Recycle \/ UNCHANGED vars)
    => TraceInv'
<1> SUFFICES ASSUME PoolInv, TraceInv,
                    Main \/ Open \/ Check \/ WaitFor \/ WritesEnd \/ Recycle \/ UNCHANGED vars
             PROVE  TraceInv'
  OBVIOUS
<1>1. UNCHANGED <<appended, lost, buffers_, currentBuffer_>>
  BY DEF Main, Start, Stop, Destroy, Open, Check, WaitFor, WritesEnd, Recycle, vars, frontVars,
         backVars, fileVars
<1>2. output'.lines = output.lines
  <2>1. Flush(output).lines = output.lines
    BY FlushFields DEF PoolInv, TypeOK
  <2>2. CASE Open
    <3>1. output.lines = <<>>
      BY <2>2 DEF Open, TraceInv
    <3>2. PICK count \in Counts, now \in clock .. MaxTime :
            output' = RollFile(NewLogFile(count), now)
      BY <2>2 DEF Open
    <3> DEFINE new == NewLogFile(count)
    <3>3. new \in LogFileType /\ new.lines = <<>> /\ now \in Nat
      BY CountsAssumption, MaxLinesAssumption, NewLogFileType DEF NewLogFile, PoolInv, TypeOK
    <3>4. output' = RollFile(new, now)
      BY <3>2
    <3> HIDE DEF new
    <3>5. RollFile(new, now).lines = <<>>
      BY <3>3, RollFileType, RollFields
    <3> QED
      BY <3>1, <3>4, <3>5
  <2>3. CASE ~Open
    BY <2>1, <2>3
    DEF Main, Start, Stop, Destroy, Check, WaitFor, WritesEnd, Recycle, vars, backVars, fileVars
  <2> QED
    BY <2>2, <2>3
<1>3. Taken' = Taken
  <2>1. CASE WritesEnd
    <3>1. Taken = SubSeq(buffersToWrite, Len(buffersToWrite) + 1, Len(buffersToWrite))
      BY <2>1 DEF WritesEnd, Taken
    <3>2. Taken = <<>>
      BY <3>1 DEF PoolInv, TypeOK
    <3> QED
      BY <2>1, <3>2 DEF WritesEnd, Taken
  <2>2. CASE ~WritesEnd
    BY <2>2
    DEF Main, Start, Stop, Destroy, Open, Check, WaitFor, Recycle, vars, backVars, rotVars,
        fileVars, Taken
  <2> QED
    BY <2>1, <2>2
<1>4. LinesConserved' /\ Numbered(appended, lost)'
  <2>1. Queue' = Queue
    BY <1>1, <1>3 DEF Queue
  <2> QED
    BY <1>1, <1>2, <2>1 DEF TraceInv, LinesConserved, Numbered
<1>5. /\ bpc' \in {"none", "open"} => output'.lines = <<>>
      /\ bpc' # "write" => wpos' = 0
  BY <1>2
  DEF TraceInv, Main, Start, Stop, Destroy, Open, Check, WaitFor, WritesEnd, Recycle, vars,
      backVars, fileVars
<1>6. wpos' <= Len(buffersToWrite')
  <2>1. CASE Recycle
    BY <2>1 DEF Recycle, TraceInv
  <2>2. CASE WritesEnd
    BY <2>2 DEF WritesEnd, rotVars, PoolInv, TypeOK
  <2>3. CASE ~Recycle /\ ~WritesEnd
    BY <2>3
    DEF TraceInv, Main, Start, Stop, Destroy, Open, Check, WaitFor, vars, backVars, rotVars,
        fileVars
  <2> QED
    BY <2>1, <2>2, <2>3
<1> QED
  BY <1>4, <1>5, <1>6 DEF TraceInv

LEMMA TraceInvariant == SafetySpec => []TraceInv
<1>1. Init => TraceInv
  <2> SUFFICES ASSUME Init PROVE TraceInv
    OBVIOUS
  <2>1. /\ output.lines = <<>> /\ appended = <<>> /\ Queue = <<Empty>> /\ lost = {}
        /\ bpc = "none" /\ wpos = 0 /\ buffersToWrite = <<>>
    BY DEF Init, NewLogFile, Queue, Taken
  <2>2. /\ DOMAIN output.lines = {} /\ DOMAIN appended = {} /\ DOMAIN Queue = {1}
        /\ DOMAIN Queue[1].lines = {}
    BY <2>1 DEF Empty
  <2>3. Held(output.lines, Queue) = {}
    BY <2>2 DEF Held
  <2>4. InOrder(output.lines, Queue)
    BY <2>2 DEF InOrder, Ascending, Precedes
  <2>5. LinesConserved
    BY <2>2, <2>3, <2>4 DEF LinesConserved
  <2> QED
    BY <2>1, <2>2, <2>5 DEF TraceInv, Numbered
<1>2. PoolInv /\ HistoryInv /\ TraceInv /\ [Next]_vars => TraceInv'
  BY AppendKeepsTrace, CollectKeepsTrace, WriteKeepsTrace, OthersKeepTrace DEF Next, BackEnd
<1> QED
  BY <1>1, <1>2, PoolInvariant, HistoryInvariant, PTL DEF SafetySpec

\* Apart from what failed writes have lost, every line that was passed to
\* append is once in the files or in a buffer, in the order of the calls.
THEOREM LinesAreConserved == SafetySpec => []LinesConserved
BY TraceInvariant, PTL DEF TraceInv

-----------------------------------------------------------------------------
(* The log from the macros to the disk.                                    *)

\* Whatever threads log through Logger and wherever abort() ends the process,
\* AsyncLogging behaves as specified: all of the above holds of LoggingSpec.
THEOREM LoggingRunsAsync == LoggingSpec => SafetySpec
<1>1. LoggingInit => Init
  BY DEF LoggingInit
<1>2. [LoggingNext]_allVars => [Next]_vars
  <2> SUFFICES ASSUME [LoggingNext]_allVars PROVE [Next]_vars
    OBVIOUS
  <2>1. CASE LoggedBackEnd
    BY <2>1 DEF LoggedBackEnd, Next
  <2>2. ASSUME NEW level \in Levels, NEW body \in Bodies, Log(level, body)
        PROVE  Next
    BY <2>2, BodiesAssumption DEF Log, Next
  <2>3. CASE Main
    BY <2>3 DEF Next
  <2>4. CASE Abort
    BY <2>4 DEF Abort
  <2>5. CASE UNCHANGED allVars
    BY <2>5 DEF allVars
  <2> QED
    BY <2>1, <2>2, <2>3, <2>4, <2>5 DEF LoggingNext
<1> QED
  BY <1>1, <1>2, PTL DEF LoggingSpec, SafetySpec

-----------------------------------------------------------------------------
(* LogStream: what the small buffer holds after any pieces.                *)

LineBuffer == {b \in [lines : Seq(Piece), size : Nat] : b.size < kSmallBufferSize}

\* One more step of the recursion can always be taken.
LEMMA StreamOfPrefix ==
  ASSUME NEW S, NEW pieces \in Seq(S)
  PROVE  \A m \in 0 .. Len(pieces) :
           \E f : f = [n \in 0 .. m |-> IF n = 0 THEN Empty ELSE Insert(f[n - 1], pieces[n])]
<1> DEFINE Has(m) == \E f : f = [n \in 0 .. m |-> IF n = 0 THEN Empty ELSE Insert(f[n - 1], pieces[n])]
           Bad == {m \in 0 .. Len(pieces) : ~Has(m)}
<1>1. Len(pieces) \in Nat
  OBVIOUS
<1>2. Has(0)
  <2> DEFINE f == [n \in 0 .. 0 |-> Empty]
  <2>1. f = [n \in 0 .. 0 |-> IF n = 0 THEN Empty ELSE Insert(f[n - 1], pieces[n])]
    OBVIOUS
  <2> QED
    BY <2>1
<1>3. ASSUME NEW m \in 1 .. Len(pieces), Has(m - 1)
      PROVE  Has(m)
  <2>1. PICK f : f = [n \in 0 .. m - 1 |-> IF n = 0 THEN Empty ELSE Insert(f[n - 1], pieces[n])]
    BY <1>3
  <2> DEFINE g == [n \in 0 .. m |-> IF n = m THEN Insert(f[m - 1], pieces[m]) ELSE f[n]]
             h == [n \in 0 .. m |-> IF n = 0 THEN Empty ELSE Insert(g[n - 1], pieces[n])]
  <2>2. m \in Nat /\ m # 0 /\ m - 1 \in Nat /\ \A n \in 0 .. m : n # m => n \in 0 .. m - 1
    BY <1>1, <1>3
  <2>3. ASSUME NEW n \in 0 .. m
        PROVE  g[n] = IF n = 0 THEN Empty ELSE Insert(g[n - 1], pieces[n])
    <3>1. CASE n = m
      <4>1. g[n] = Insert(f[m - 1], pieces[m])
        BY <3>1
      <4>2. g[m - 1] = f[m - 1]
        BY <2>2
      <4> QED
        BY <2>2, <3>1, <4>1, <4>2
    <3>2. CASE n # m
      <4>1. n \in 0 .. m - 1 /\ g[n] = f[n]
        BY <2>2, <3>2
      <4>2. f[n] = IF n = 0 THEN Empty ELSE Insert(f[n - 1], pieces[n])
        BY <2>1, <4>1, Zenon
      <4>3. n # 0 => g[n - 1] = f[n - 1]
        BY <2>2, <4>1
      <4> QED
        BY <4>1, <4>2, <4>3
    <3> QED
      BY <3>1, <3>2
  <2>4. g = h
    BY <2>3, Zenon
  <2> QED
    BY <2>4, Zenon
<1>4. Bad = {}
  <2> SUFFICES ASSUME Bad # {} PROVE FALSE
    OBVIOUS
  <2>1. Bad \subseteq Nat
    BY <1>1
  <2> HIDE DEF Bad
  <2>2. PICK m \in Bad : \A k \in Bad : ~(<<k, m>> \in OpToRel(<, Nat))
    BY <2>1, NatLessThanWellFounded, WFMin
  <2>3. m \in Nat /\ m <= Len(pieces) /\ ~Has(m)
    BY <1>1 DEF Bad
  <2> HIDE DEF Has
  <2>4. m # 0
    BY <1>2, <2>3
  <2>5. m - 1 \in Nat /\ <<m - 1, m>> \in OpToRel(<, Nat)
    BY <2>3, <2>4 DEF OpToRel
  <2>6. m - 1 \in 0 .. Len(pieces) /\ m \in 1 .. Len(pieces)
    <3>1. \A k, l \in Nat : k # 0 /\ k <= l => k - 1 \in 0 .. l /\ k \in 1 .. l
      OBVIOUS
    <3> QED
      BY <1>1, <2>3, <2>4, <3>1
  <2>7. Has(m - 1)
    BY <2>2, <2>5, <2>6 DEF Bad
  <2> QED
    BY <1>3, <2>3, <2>6, <2>7
<1> QED
  BY <1>4

\* The recursion of Stream.
LEMMA StreamIs ==
  ASSUME NEW S, NEW pieces \in Seq(S)
  PROVE  /\ Stream(pieces)[0] = Empty
         /\ \A n \in 1 .. Len(pieces) : Stream(pieces)[n] = Insert(Stream(pieces)[n - 1], pieces[n])
<1>1. Len(pieces) \in Nat
  OBVIOUS
<1>2. \E f : f = [n \in 0 .. Len(pieces) |-> IF n = 0 THEN Empty ELSE Insert(f[n - 1], pieces[n])]
  BY <1>1, StreamOfPrefix
<1> DEFINE g == Stream(pieces)
<1>3. g = [n \in 0 .. Len(pieces) |-> IF n = 0 THEN Empty ELSE Insert(g[n - 1], pieces[n])]
  BY <1>2, Zenon DEF Stream
<1> HIDE DEF g
<1>4. \A n \in 0 .. Len(pieces) : g[n] = IF n = 0 THEN Empty ELSE Insert(g[n - 1], pieces[n])
  BY <1>3, Zenon
<1>5. g[0] = Empty
  BY <1>1, <1>4
<1>6. \A n \in 1 .. Len(pieces) : g[n] = Insert(g[n - 1], pieces[n])
  BY <1>1, <1>4
<1> QED
  BY <1>5, <1>6 DEF g

\* A piece that does not fit is dropped, so the small buffer never overflows.
\* A number fits whenever 32 bytes are free.
LEMMA InsertType ==
  ASSUME NEW b \in LineBuffer, NEW piece \in Piece
  PROVE  Insert(b, piece) \in LineBuffer
<1>1. /\ b.lines \in Seq(Piece) /\ b.size \in Nat /\ b.size < kSmallBufferSize
      /\ kSmallBufferSize \in Nat /\ piece.len \in Nat
      /\ piece.kind = "number" => piece.len <= 20
  <2>1. b.lines \in Seq(Piece) /\ b.size \in Nat /\ b.size < kSmallBufferSize
    BY DEF LineBuffer
  <2>2. piece.len \in Nat /\ (piece.kind = "number" => piece.len <= 20)
    BY DEF Piece, Newline
  <2> QED
    BY <2>1, <2>2 DEF kSmallBufferSize
<1>2. Append(b.lines, piece) \in Seq(Piece)
  BY <1>1
<1>3. ASSUME b.size + piece.len < kSmallBufferSize PROVE Add(b, piece) \in LineBuffer
  BY <1>1, <1>2, <1>3 DEF Add, LineBuffer
<1>4. CASE piece.kind = "number"
  <2>1. Insert(b, piece) = IF kSmallBufferSize - b.size >= 32 THEN Add(b, piece) ELSE b
    BY <1>4 DEF Insert, FormatInteger, Avail, kMaxNumberSize
  <2>2. kSmallBufferSize - b.size >= 32 => b.size + piece.len < kSmallBufferSize
    BY <1>1, <1>4
  <2> QED
    BY <1>3, <2>1, <2>2
<1>5. CASE piece.kind # "number"
  <2>1. Insert(b, piece) = IF kSmallBufferSize - b.size > piece.len THEN Add(b, piece) ELSE b
    BY <1>5 DEF Insert, FixedAppend, Avail
  <2>2. kSmallBufferSize - b.size > piece.len => b.size + piece.len < kSmallBufferSize
    BY <1>1
  <2> QED
    BY <1>3, <2>1, <2>2
<1> QED
  BY <1>4, <1>5

LEMMA EmptyIsLineBuffer == Empty \in LineBuffer
BY DEF Empty, LineBuffer, kSmallBufferSize

\* However many pieces: the first one that breaks the bound would break it in
\* one step.
LEMMA StreamType ==
  ASSUME NEW pieces \in Seq(Piece), NEW n \in 0 .. Len(pieces)
  PROVE  Stream(pieces)[n] \in LineBuffer
<1> DEFINE g == Stream(pieces)
           Bad == {m \in 0 .. Len(pieces) : g[m] \notin LineBuffer}
<1>1. Len(pieces) \in Nat /\ \A m \in 1 .. Len(pieces) : pieces[m] \in Piece
  OBVIOUS
<1>2. g[0] = Empty /\ \A m \in 1 .. Len(pieces) : g[m] = Insert(g[m - 1], pieces[m])
  BY StreamIs
<1> HIDE DEF g
<1>3. Bad = {}
  <2> SUFFICES ASSUME Bad # {} PROVE FALSE
    OBVIOUS
  <2>1. Bad \subseteq Nat
    BY <1>1
  <2> HIDE DEF Bad
  <2>2. PICK m \in Bad : \A k \in Bad : ~(<<k, m>> \in OpToRel(<, Nat))
    BY <2>1, NatLessThanWellFounded, WFMin
  <2>3. m \in Nat /\ m <= Len(pieces) /\ g[m] \notin LineBuffer
    BY <1>1 DEF Bad
  <2>4. m # 0
    BY <1>2, <2>3, EmptyIsLineBuffer
  <2>5. m - 1 \in Nat /\ <<m - 1, m>> \in OpToRel(<, Nat)
    BY <2>3, <2>4 DEF OpToRel
  <2>6. m - 1 \in 0 .. Len(pieces) /\ m \in 1 .. Len(pieces)
    <3>1. \A k, l \in Nat : k # 0 /\ k <= l => k - 1 \in 0 .. l /\ k \in 1 .. l
      OBVIOUS
    <3> QED
      BY <1>1, <2>3, <2>4, <3>1
  <2>7. g[m - 1] \in LineBuffer
    BY <2>2, <2>5, <2>6 DEF Bad
  <2>8. g[m] \in LineBuffer
    BY <1>1, <1>2, <2>6, <2>7, InsertType
  <2> QED
    BY <2>3, <2>8
<1> QED
  BY <1>3 DEF g

\* The newline is the last piece: it is there, or there was no byte left for it.
Whole(b) == EndsWithNewline(b) \/ b.size = kSmallBufferSize - 1

LEMMA LogLineIs ==
  ASSUME NEW body \in Seq(Piece)
  PROVE  LogLine(body) \in LineBuffer /\ Whole(LogLine(body))
<1> DEFINE pieces == Impl \o body \o Finish
           N == Len(pieces)
<1>1. Impl \in Seq(Piece) /\ Finish \in Seq(Piece) /\ Len(Finish) = 5 /\ Finish[5] = Newline
  BY BasenameLenAssumption, LineDigitsAssumption DEF Impl, Finish, Text, Number, Newline, Piece
<1>2. Impl \o body \in Seq(Piece) /\ Len(Impl \o body) \in Nat
  BY <1>1
<1>3. pieces \in Seq(Piece) /\ N = Len(Impl \o body) + 5 /\ pieces[N] = Newline
  <2>1. ASSUME NEW front \in Seq(Piece), NEW back \in Seq(Piece), Len(back) = 5
        PROVE  /\ front \o back \in Seq(Piece) /\ Len(front \o back) = Len(front) + 5
               /\ (front \o back)[Len(front) + 5] = back[5]
    <3> DEFINE l == Len(front)
    <3>1. /\ l \in Nat /\ front \o back \in Seq(Piece) /\ Len(front \o back) = l + 5
          /\ \A i \in 1 .. l + 5 : (front \o back)[i] = IF i <= l THEN front[i] ELSE back[i - l]
      <4>1. /\ front \o back \in Seq(Piece) /\ Len(front \o back) = Len(front) + Len(back)
            /\ \A i \in 1 .. Len(front) + Len(back) :
                 (front \o back)[i] = IF i <= Len(front) THEN front[i] ELSE back[i - Len(front)]
        BY ConcatProperties, Zenon
      <4>2. Len(front) \in Nat
        OBVIOUS
      <4> QED
        BY <2>1, <4>1, <4>2, Zenon
    <3> HIDE DEF l
    <3>2. l + 5 \in 1 .. l + 5 /\ ~(l + 5 <= l) /\ (l + 5) - l = 5
      BY <3>1
    <3>3. (front \o back)[l + 5] = back[5]
      BY <3>1, <3>2
    <3> QED
      BY <3>1, <3>3 DEF l
  <2>2. /\ (Impl \o body) \o Finish \in Seq(Piece)
        /\ Len((Impl \o body) \o Finish) = Len(Impl \o body) + 5
        /\ ((Impl \o body) \o Finish)[Len(Impl \o body) + 5] = Finish[5]
    BY <1>1, <1>2, <2>1, Zenon
  <2> QED
    BY <1>1, <2>2, Zenon
<1> HIDE DEF pieces
<1>4. N \in Nat /\ N >= 5 /\ N \in 1 .. N /\ N \in 0 .. N /\ N - 1 \in 0 .. N
  BY <1>2, <1>3
<1> DEFINE b == Stream(pieces)[N - 1]
           r == Stream(pieces)[N]
<1>5. b \in LineBuffer /\ r \in LineBuffer
  BY <1>3, <1>4, StreamType
<1>6. r = Insert(b, Newline)
  BY <1>3, <1>4, StreamIs
<1> HIDE DEF b, r, N
<1>7. /\ b.lines \in Seq(Piece) /\ b.size \in Nat /\ b.size < kSmallBufferSize
      /\ kSmallBufferSize \in Nat
  BY <1>5 DEF LineBuffer, kSmallBufferSize
<1>8. r = IF kSmallBufferSize - b.size > 1 THEN Add(b, Newline) ELSE b
  BY <1>6 DEF Insert, FixedAppend, Avail, Newline
<1>9. ASSUME kSmallBufferSize - b.size > 1 PROVE Whole(r)
  <2>1. r.lines = Append(b.lines, Newline)
    BY <1>8, <1>9 DEF Add
  <2>2. r.lines[Len(r.lines)] = Newline
    BY <1>7, <2>1
  <2> QED
    BY <2>2 DEF Whole, EndsWithNewline
<1>10. ASSUME ~(kSmallBufferSize - b.size > 1) PROVE Whole(r)
  <2>1. r = b /\ b.size = kSmallBufferSize - 1
    BY <1>7, <1>8, <1>10
  <2> QED
    BY <2>1 DEF Whole
<1>11. LogLine(body) = r
  BY Zenon DEF LogLine, r, N, pieces
<1> QED
  BY <1>5, <1>9, <1>10, <1>11

\* What Log keeps: each appended line was one stream.
StreamsInv ==
  /\ streams \in Seq(LineBuffer) /\ Len(streams) = Len(appended)
  /\ \A i \in DOMAIN streams : Whole(streams[i]) /\ appended[i].len = streams[i].size

LEMMA LogKeepsStreams ==
  ASSUME TypeOK, StreamsInv, NEW level, NEW body \in Bodies, Log(level, body)
  PROVE  StreamsInv'
<1> DEFINE b == LogLine(body)
           line == [n |-> Len(appended) + 1, len |-> b.size]
           N == Len(streams)
<1>1. b \in LineBuffer /\ Whole(b)
  BY BodiesAssumption, LogLineIs
<1>2. streams' = Append(streams, b) /\ appended' = Append(appended, line)
  BY DEF Log, AppendLine
<1> HIDE DEF b
<1>3. /\ streams \in Seq(LineBuffer) /\ appended \in Seq(Line) /\ N \in Nat /\ Len(appended) = N
      /\ DOMAIN streams = 1 .. N
  BY DEF StreamsInv, TypeOK
<1>4. /\ streams' \in Seq(LineBuffer) /\ Len(streams') = N + 1 /\ DOMAIN streams' = 1 .. N + 1
      /\ streams'[N + 1] = b /\ \A i \in 1 .. N : streams'[i] = streams[i]
  BY <1>1, <1>2, <1>3
<1>5. /\ Len(appended') = N + 1 /\ appended'[N + 1] = line
      /\ \A i \in 1 .. N : appended'[i] = appended[i]
  <2> HIDE DEF line
  <2>1. \A e : LET s == Append(appended, e) IN
          Len(s) = N + 1 /\ s[N + 1] = e /\ \A i \in 1 .. N : s[i] = appended[i]
    BY <1>3
  <2> QED
    BY <1>2, <2>1
<1>6. line.len = b.size
  OBVIOUS
<1>7. ASSUME NEW i \in 1 .. N + 1
      PROVE  Whole(streams'[i]) /\ appended'[i].len = streams'[i].size
  <2>1. CASE i \in 1 .. N
    BY <1>3, <1>4, <1>5, <2>1 DEF StreamsInv
  <2>2. CASE i = N + 1
    BY <1>1, <1>4, <1>5, <1>6, <2>2
  <2> QED
    BY <1>3, <2>1, <2>2
<1> QED
  BY <1>4, <1>5, <1>7 DEF StreamsInv, Whole, EndsWithNewline

\* LinesAreWhole: a line keeps its newline unless its pieces fill LogStream's
\* buffer to the last usable byte, never outgrows that buffer and is appended
\* as it was built, for any messages, file names and line numbers.
THEOREM LinesAlwaysWhole == LoggingSpec => []LinesAreWhole
<1>1. LoggingInit => StreamsInv
  BY DEF LoggingInit, Init, StreamsInv
<1>2. TypeOK /\ StreamsInv /\ [LoggingNext]_allVars => StreamsInv'
  <2> SUFFICES ASSUME TypeOK, StreamsInv, [LoggingNext]_allVars PROVE StreamsInv'
    OBVIOUS
  <2>1. ASSUME UNCHANGED <<streams, appended>> PROVE StreamsInv'
    BY <2>1 DEF StreamsInv, Whole, EndsWithNewline
  <2>2. CASE LoggedBackEnd
    <3>1. BackEnd /\ streams' = streams
      BY <2>2 DEF LoggedBackEnd, loggerVars
    <3>2. CASE Open \/ Check \/ WaitFor \/ WritesEnd \/ Recycle
      BY <2>1, <3>1, <3>2 DEF Open, Check, WaitFor, WritesEnd, Recycle, frontVars
    <3>3. CASE Collect
      BY <2>1, <3>1, <3>3 DEF Collect
    <3>4. CASE WriteSucceeds \/ WriteFails
      BY <2>1, <3>1, <3>4 DEF WriteSucceeds, WriteFails, WriteBuffer, frontVars
    <3> QED
      BY <3>1, <3>2, <3>3, <3>4 DEF BackEnd
  <2>3. ASSUME NEW level \in Levels, NEW body \in Bodies, Log(level, body)
        PROVE  StreamsInv'
    BY <2>3, LogKeepsStreams
  <2>4. CASE Main /\ UNCHANGED loggerVars
    BY <2>1, <2>4 DEF Main, Start, Stop, Destroy, loggerVars, frontVars
  <2>5. CASE Abort
    BY <2>1, <2>5 DEF Abort, vars, frontVars
  <2>6. CASE UNCHANGED allVars
    BY <2>1, <2>6 DEF allVars, vars, loggerVars, frontVars
  <2> QED
    BY <2>2, <2>3, <2>4, <2>5, <2>6 DEF LoggingNext
<1>3. StreamsInv => LinesAreWhole
  <2> SUFFICES ASSUME StreamsInv, NEW i \in DOMAIN streams
               PROVE  /\ streams[i].size < kSmallBufferSize
                      /\ EndsWithNewline(streams[i]) \/ streams[i].size = kSmallBufferSize - 1
                      /\ appended[i].len = streams[i].size
    BY DEF LinesAreWhole
  <2>1. streams[i] \in LineBuffer
    BY DEF StreamsInv
  <2> QED
    BY <2>1 DEF StreamsInv, LineBuffer, Whole
<1> QED
  BY <1>1, <1>2, <1>3, LoggingRunsAsync, TypeCorrect, PTL DEF LoggingSpec
=============================================================================
