---------------------------- MODULE AsyncLogging ----------------------------
(***************************************************************************)
(* AsyncLogging (src/log/AsyncLogging.cc, src/include/AsyncLogging.h): any *)
(* number of front-end threads append log lines to large buffers under     *)
(* mutex_; one back-end thread swaps the buffers out, writes them to its   *)
(* LogFile and hands two empty ones back.                                  *)
(*                                                                         *)
(* The back end's wait on cond_ ends by a notify, a timeout or spuriously, *)
(* and whichever it was it goes on in the same way, so the wait may end at *)
(* any time and the notifies, which only make it end earlier, are left     *)
(* out.  Time passes wherever the back end reads the clock.                *)
(***************************************************************************)
EXTENDS FixedBuffer, LogFile

CONSTANTS BufferSize,   \* kLargeBufferSize
          Lens,         \* lengths of the lines that are logged
          Counts,       \* what count_ may hold when it is not initialised
          MaxLines,     \* bound on the number of lines
          MaxTime,      \* bound on the time in seconds
          MaxFailures   \* bound on the writes that fail

ASSUME BufferSizeAssumption == BufferSize \in Nat
ASSUME LensAssumption == Lens \subseteq Nat \ {0} /\ \A n \in Lens : n < BufferSize
ASSUME CountsAssumption == Counts \subseteq Int
ASSUME MaxLinesAssumption == MaxLines \in Nat /\ MaxTime \in Nat /\ MaxFailures \in Nat

VARIABLES
  running_,
  currentBuffer_, nextBuffer_,  \* a buffer or NoBuffer
  buffers_,                     \* the full buffers
  newbuffer1, newbuffer2,       \* the back end's spare buffers, or NoBuffer
  buffersToWrite,               \* the buffers the back end has taken
  wpos,                         \* how many of them it has written
  output,                       \* the back end's LogFile
  clock,                        \* the time the back end has read last
  bpc,                          \* where the back end is
  destroyed,                    \* ~AsyncLogging has returned
  appended,                     \* history: lines passed to append, in order
  failures,                     \* how many writes have failed (for the bound)
  lost                          \* history: the lines they have lost

frontVars == <<currentBuffer_, nextBuffer_, buffers_, appended>>
rotVars   == <<newbuffer1, newbuffer2, buffersToWrite>>
fileVars  == <<wpos, output, clock, failures, lost>>
backVars  == <<rotVars, fileVars>>
ctlVars   == <<running_, destroyed>>
vars == <<frontVars, backVars, ctlVars, bpc>>

Line == [n : Nat \ {0}, len : Lens]
Buffer == [lines : Seq(Line), size : Nat]
NoBuffer == [lines |-> <<>>, size |-> -1]       \* a null unique_ptr

\* none: not started.  open: before the LogFile.  check: the while condition.
\* lock: before the critical section.  waiting: in cond_.wait_for.  write: the
\* for over buffersToWrite.  recycle: after it.  exited: threadFunc has returned.
BackPCs == {"none", "open", "check", "lock", "waiting", "write", "recycle", "exited"}

Init ==
  /\ running_ = FALSE
  /\ currentBuffer_ = Empty
  /\ nextBuffer_ = Empty
  /\ buffers_ = <<>>
  /\ newbuffer1 = NoBuffer
  /\ newbuffer2 = NoBuffer
  /\ buffersToWrite = <<>>
  /\ bpc = "none"
  /\ destroyed = FALSE
  /\ appended = <<>>
  /\ wpos = 0
  /\ output = NewLogFile(0)
  /\ clock = 1
  /\ failures = 0
  /\ lost = {}

-----------------------------------------------------------------------------
(* The front end.                                                          *)

\* Mutant: the line that found the buffer full is not put into the next one.
AppendDropsOverflow(len) ==
  LET line == [n |-> Len(appended) + 1, len |-> len]
  IN /\ ~destroyed
     /\ Len(appended) < MaxLines
     /\ appended' = Append(appended, line)
     /\ IF Avail(BufferSize, currentBuffer_) > len
          THEN /\ currentBuffer_' = FixedAppend(BufferSize, currentBuffer_, line)
               /\ UNCHANGED <<nextBuffer_, buffers_>>
          ELSE /\ buffers_' = Append(buffers_, currentBuffer_)
               /\ currentBuffer_' = IF nextBuffer_ = NoBuffer THEN Empty ELSE nextBuffer_
               /\ nextBuffer_' = NoBuffer
     /\ UNCHANGED backVars
     /\ UNCHANGED ctlVars
     /\ UNCHANGED bpc

\* append(), all of it under mutex_.
AppendLine(len) ==
  LET line == [n |-> Len(appended) + 1, len |-> len]
      fresh == IF nextBuffer_ = NoBuffer THEN Empty ELSE nextBuffer_
  IN /\ ~destroyed
     /\ Len(appended) < MaxLines
     /\ appended' = Append(appended, line)
     /\ IF Avail(BufferSize, currentBuffer_) > len
          THEN /\ currentBuffer_' = FixedAppend(BufferSize, currentBuffer_, line)
               /\ UNCHANGED <<nextBuffer_, buffers_>>
          ELSE /\ buffers_' = Append(buffers_, currentBuffer_)
               /\ currentBuffer_' = FixedAppend(BufferSize, fresh, line)
               /\ nextBuffer_' = NoBuffer
     /\ UNCHANGED backVars
     /\ UNCHANGED ctlVars
     /\ UNCHANGED bpc

\* start(): running_ is set and the thread started.
Start ==
  /\ bpc = "none"
  /\ ~destroyed
  /\ running_' = TRUE
  /\ bpc' = "open"
  /\ UNCHANGED destroyed
  /\ UNCHANGED frontVars
  /\ UNCHANGED backVars

\* stop() stores running_ without the lock.
Stop ==
  /\ running_
  /\ running_' = FALSE
  /\ UNCHANGED <<destroyed, bpc>>
  /\ UNCHANGED frontVars
  /\ UNCHANGED backVars

\* ~AsyncLogging after its stop(): thread_ is destroyed, which detaches it.  A
\* back end that is still running goes on here as if the object existed.
Destroy ==
  /\ ~running_
  /\ ~destroyed
  /\ destroyed' = TRUE
  /\ UNCHANGED <<running_, bpc>>
  /\ UNCHANGED frontVars
  /\ UNCHANGED backVars

-----------------------------------------------------------------------------
(* The back end.                                                           *)

\* threadFunc up to its loop: the LogFile opens its first file, and there are
\* two spare buffers.
Open ==
  /\ bpc = "open"
  /\ bpc' = "check"
  /\ \E count \in Counts, now \in clock .. MaxTime :
       /\ output' = RollFile(NewLogFile(count), now)
       /\ clock' = now
  /\ newbuffer1' = Empty
  /\ newbuffer2' = Empty
  /\ UNCHANGED <<buffersToWrite, wpos, failures, lost>>
  /\ UNCHANGED frontVars
  /\ UNCHANGED ctlVars

\* while (running_), and the flush after it.
Check ==
  /\ bpc = "check"
  /\ bpc' = IF running_ THEN "lock" ELSE "exited"
  /\ output' = IF running_ THEN output ELSE Flush(output)
  /\ UNCHANGED <<wpos, clock, failures, lost>>
  /\ UNCHANGED rotVars
  /\ UNCHANGED frontVars
  /\ UNCHANGED ctlVars

\* if (buffers_.empty()) wait_for(...), which releases mutex_.
WaitFor ==
  /\ bpc = "lock"
  /\ buffers_ = <<>>
  /\ bpc' = "waiting"
  /\ UNCHANGED frontVars
  /\ UNCHANGED backVars
  /\ UNCHANGED ctlVars

\* Mutant: the wait has no timeout and needs a full buffer.
CollectFullOnly ==
  /\ bpc \in {"waiting", "lock"} /\ buffers_ # <<>>
  /\ bpc' = "write"
  /\ buffersToWrite' = Append(buffers_, currentBuffer_)
  /\ buffers_' = buffersToWrite
  /\ currentBuffer_' = newbuffer1
  /\ newbuffer1' = NoBuffer
  /\ IF nextBuffer_ = NoBuffer
       THEN nextBuffer_' = newbuffer2 /\ newbuffer2' = NoBuffer
       ELSE UNCHANGED <<nextBuffer_, newbuffer2>>
  /\ UNCHANGED appended
  /\ UNCHANGED fileVars
  /\ UNCHANGED ctlVars

\* Mutant: nextBuffer_ is replaced whether or not it was used.
CollectKeepsSpare ==
  /\ bpc = "waiting" \/ (bpc = "lock" /\ buffers_ # <<>>)
  /\ bpc' = "write"
  /\ buffersToWrite' = Append(buffers_, currentBuffer_)
  /\ buffers_' = <<>>
  /\ currentBuffer_' = newbuffer1
  /\ newbuffer1' = NoBuffer
  /\ nextBuffer_' = newbuffer2
  /\ newbuffer2' = NoBuffer
  /\ UNCHANGED appended
  /\ UNCHANGED fileVars
  /\ UNCHANGED ctlVars

\* The rest of the critical section: the current buffer joins the full ones,
\* the spare ones take its place and, if need be, that of nextBuffer_.
Collect ==
  /\ bpc = "waiting" \/ (bpc = "lock" /\ buffers_ # <<>>)
  /\ bpc' = "write"
  /\ buffersToWrite' = Append(buffers_, currentBuffer_)
  /\ buffers_' = buffersToWrite
  /\ currentBuffer_' = newbuffer1
  /\ newbuffer1' = NoBuffer
  /\ IF nextBuffer_ = NoBuffer
       THEN nextBuffer_' = newbuffer2 /\ newbuffer2' = NoBuffer
       ELSE UNCHANGED <<nextBuffer_, newbuffer2>>
  /\ UNCHANGED appended
  /\ UNCHANGED fileVars
  /\ UNCHANGED ctlVars

\* One round of the for over buffersToWrite: output.append, which keeps the
\* first lines of the buffer.
WriteBuffer(kept, failed) ==
  LET buffer == buffersToWrite[wpos + 1]
      lines == SubSeq(buffer.lines, 1, kept)
  IN /\ wpos' = wpos + 1
     /\ \E now \in clock .. MaxTime :
          LET file == Write(output, lines, buffer.size, failed, now)
          IN  \E later \in IF RollDue(file, now) THEN now .. MaxTime ELSE {now} :
                /\ output' = RollAndFlush(file, now, later)
                /\ clock' = later
     /\ UNCHANGED bpc
     /\ UNCHANGED rotVars
     /\ UNCHANGED frontVars
     /\ UNCHANGED ctlVars

Writing == bpc = "write" /\ wpos < Len(buffersToWrite)

WriteSucceeds ==
  /\ Writing
  /\ WriteBuffer(Len(buffersToWrite[wpos + 1].lines), FALSE)
  /\ UNCHANGED <<failures, lost>>

\* FileUtil::append gives up on an error, having written some of the bytes; it
\* does not call fwrite for an empty buffer.
WriteFails ==
  /\ Writing
  /\ failures < MaxFailures
  /\ LET lines == buffersToWrite[wpos + 1].lines
     IN  \E kept \in 0 .. Len(lines) - 1 :
           /\ WriteBuffer(kept, TRUE)
           /\ lost' = lost \cup {lines[i].n : i \in kept + 1 .. Len(lines)}
  /\ failures' = failures + 1

WritesEnd ==
  /\ bpc = "write"
  /\ wpos = Len(buffersToWrite)
  /\ bpc' = "recycle"
  /\ wpos' = 0
  /\ UNCHANGED <<output, clock, failures, lost>>
  /\ UNCHANGED rotVars
  /\ UNCHANGED frontVars
  /\ UNCHANGED ctlVars

\* At most two of the written buffers are kept.
Kept == SubSeq(buffersToWrite, 1, IF Len(buffersToWrite) > 2 THEN 2 ELSE Len(buffersToWrite))

\* Mutant: only newbuffer2 is replaced.
RecycleOneOnly ==
  /\ bpc = "recycle"
  /\ bpc' = "check"
  /\ newbuffer2' = IF newbuffer2 = NoBuffer THEN Empty ELSE newbuffer2
  /\ buffersToWrite' = <<>>
  /\ output' = Flush(output)
  /\ UNCHANGED <<newbuffer1, wpos, clock, failures, lost>>
  /\ UNCHANGED frontVars
  /\ UNCHANGED ctlVars

\* Mutant: a recycled buffer is not reset.
RecycleWithoutReset ==
  /\ bpc = "recycle"
  /\ bpc' = "check"
  /\ newbuffer1' = Kept[Len(Kept)]
  /\ newbuffer2' = IF newbuffer2 = NoBuffer THEN Empty ELSE newbuffer2
  /\ buffersToWrite' = <<>>
  /\ output' = Flush(output)
  /\ UNCHANGED <<wpos, clock, failures, lost>>
  /\ UNCHANGED frontVars
  /\ UNCHANGED ctlVars

\* Mutant: the round does not end with a flush.
RecycleWithoutFlush ==
  /\ bpc = "recycle"
  /\ bpc' = "check"
  /\ newbuffer1' = IF newbuffer1 = NoBuffer THEN Empty ELSE newbuffer1
  /\ newbuffer2' = IF newbuffer2 = NoBuffer THEN Empty ELSE newbuffer2
  /\ buffersToWrite' = <<>>
  /\ UNCHANGED fileVars
  /\ UNCHANGED frontVars
  /\ UNCHANGED ctlVars

\* resize(2); newbuffer1, and newbuffer2 if it was given away, are taken from
\* the back of buffersToWrite and reset; the rest is destroyed; flush.
Recycle ==
  /\ bpc = "recycle"
  /\ bpc' = "check"
  /\ newbuffer1' = IF newbuffer1 = NoBuffer THEN Empty ELSE newbuffer1
  /\ newbuffer2' = IF newbuffer2 = NoBuffer THEN Empty ELSE newbuffer2
  /\ buffersToWrite' = <<>>
  /\ output' = Flush(output)
  /\ UNCHANGED <<wpos, clock, failures, lost>>
  /\ UNCHANGED frontVars
  /\ UNCHANGED ctlVars

-----------------------------------------------------------------------------

BackEnd ==
  Open \/ Check \/ WaitFor \/ Collect \/ WriteSucceeds \/ WriteFails \/ WritesEnd \/ Recycle

Main == Start \/ Stop \/ Destroy

Next ==
  \/ \E len \in Lens : AppendLine(len)
  \/ Main
  \/ BackEnd

SafetySpec == Init /\ [][Next]_vars

-----------------------------------------------------------------------------
(* Properties.                                                             *)

LogFileType ==
  [lines : Seq(Line), onDisk : Nat, writtenBytes : Nat, count : Int,
   startOfPeriod : Int, lastRoll : Nat, lastFlush : Nat,
   at : Nat, since : Nat, stale : Nat, checked : BOOLEAN]

TypeOK ==
  /\ running_ \in BOOLEAN
  /\ currentBuffer_ \in Buffer
  /\ nextBuffer_ \in Buffer \cup {NoBuffer}
  /\ buffers_ \in Seq(Buffer)
  /\ newbuffer1 \in Buffer \cup {NoBuffer}
  /\ newbuffer2 \in Buffer \cup {NoBuffer}
  /\ buffersToWrite \in Seq(Buffer)
  /\ bpc \in BackPCs
  /\ destroyed \in BOOLEAN
  /\ appended \in Seq(Line)
  /\ wpos \in Nat
  /\ output \in LogFileType
  /\ clock \in Nat
  /\ failures \in Nat
  /\ lost \subseteq Nat

\* What the back end has taken and not yet written.
Taken == IF bpc = "write" THEN SubSeq(buffersToWrite, wpos + 1, Len(buffersToWrite)) ELSE <<>>

\* The buffers with the lines that are not written yet, in the order in which
\* the back end will write them.
Queue == Taken \o buffers_ \o <<currentBuffer_>>

\* The lines in the files and in the buffers of a queue.
Held(file, queue) ==
  LET In(lines) == {lines[j] : j \in DOMAIN lines}
  IN  In(file) \cup UNION {In(queue[i].lines) : i \in DOMAIN queue}

Ascending(lines) == \A i, j \in DOMAIN lines : i < j => lines[i].n < lines[j].n

Precedes(lines, others) == \A i \in DOMAIN lines, j \in DOMAIN others : lines[i].n < others[j].n

\* They come in the order of their numbers, within and between the two.
InOrder(file, queue) ==
  /\ Ascending(file)
  /\ \A i \in DOMAIN queue : Ascending(queue[i].lines) /\ Precedes(file, queue[i].lines)
  /\ \A i, j \in DOMAIN queue : i < j => Precedes(queue[i].lines, queue[j].lines)

\* Apart from what failed writes have lost, no line is lost, repeated or
\* overtaken on its way through the rotating buffers into the files, whatever
\* the interleaving of append and the back end's swap.
LinesConserved ==
  /\ Held(output.lines, Queue) = {appended[k] : k \in DOMAIN appended \ lost}
  /\ InOrder(output.lines, Queue)

\* back() and pop_back() are never called on an empty vector: the back end has
\* as many buffers to recycle as it has spare buffers to replace.
RecycleNeverStarves ==
  bpc = "recycle" =>
    Len(Kept) >= (IF newbuffer1 = NoBuffer THEN 1 ELSE 0)
                   + (IF newbuffer2 = NoBuffer THEN 1 ELSE 0)

\* A null buffer never reaches the front end, and a spare buffer carries no old
\* line back to it.
SparesAreEmpty ==
  /\ currentBuffer_ # NoBuffer
  /\ bpc \in {"check", "lock", "waiting"} => newbuffer1 = Empty /\ newbuffer2 = Empty
  /\ nextBuffer_ \in {Empty, NoBuffer}

\* Between two rounds everything the back end has taken over is on disk: a
\* crash or abort() then loses the lines of the front end's buffers only.
RoundsAreOnDisk == bpc \notin {"write", "recycle"} => output.onDisk = Len(output.lines)

\* While a round with many buffers is written, a line waits in stdio's buffer
\* for the flush interval at most, as far as the appends that follow it tell.
FlushedInTime ==
  output.onDisk < Len(output.lines) => output.at - output.since <= FlushInterval

\* A file is beyond its size only in the second in which it was opened.
RollsBySize == output.writtenBytes > RollSize => clock = output.lastRoll

\* From the first look at the period on, a file gets fewer than checkEveryN_
\* appends of another day than its own, whatever count_ was at first.
RollsByPeriod == output.checked => output.stale < CheckEveryN
=============================================================================
