---------------------------- MODULE ByteFraming ----------------------------
(***************************************************************************)
(* One direction of a channel: frames (length, tag, data) over a byte      *)
(* stream, for the writers and the readers of each language.  Bytes are    *)
(* told apart by their position in the stream alone: nothing is lost or    *)
(* reordered, so what can go wrong is where a field is thought to begin    *)
(* and to end.                                                             *)
(***************************************************************************)
EXTENDS Integers, Sequences, FiniteSetsExt

CONSTANTS
    Links,        \* pairs of a writer's and a reader's language
    Width,        \* bytes of a length or a tag (4)
    WriteBuffer,  \* BufferedOutputStream, bufio.Writer (16K)
    ReadBuffer,   \* BufferedInputStream, bufio.Reader (16K)
    Segment,      \* what the socket accepts at once
    Capacity,     \* what the socket holds
    Lengths,      \* sizes of messages
    MaxFrames     \* bound: frames that are written

\* "cpp" writes stands for Python too, whose framing writes in the same way.
Writers == {"kotlin", "go", "cpp"}
Readers == {"kotlin", "go", "cpp", "python"}

ASSUME FramingAssumption ==
    /\ Links \subseteq [writer : Writers, reader : Readers]
    /\ {Width, WriteBuffer, ReadBuffer, Segment, Capacity} \subseteq Nat \ {0}
    /\ Width < ReadBuffer /\ Width < WriteBuffer /\ Width <= Segment
    /\ Segment <= Capacity
    /\ Lengths \subseteq Nat \ {0}
    /\ MaxFrames \in Nat

VARIABLES
    link,       \* who writes and who reads
    frames,     \* the frames passed to write so far
    wpc,        \* the field that write puts next
    buffering,  \* the writer's flag
    held,       \* bytes in the writer's buffer
    chunks,     \* sizes of the writes the system has not completed
    written,    \* bytes put into the socket
    ended,      \* the writer's process has ended
    taken,      \* bytes taken from the socket
    buffered,   \* of these, bytes in the reader's buffer
    rpc,        \* the field that read reads
    got,        \* bytes of it read so far
    length,     \* the length the reader decoded
    received,   \* the frames that read returned
    split       \* history: a read returned a part of a field

writerVars == <<frames, wpc, buffering, held, chunks, written, ended>>
readerVars == <<taken, buffered, rpc, got, length, received, split>>
vars == <<link, writerVars, readerVars>>

Fields == {"length", "tag", "data"}

Tags == {"message", "START_BUFFERING", "STOP_BUFFERING"}

\* Where a frame begins in the stream, and (history) how much the writer's buffer
\* held then and how many bytes the reader had not read when it was written.
Frames == [at : Nat, length : Nat, tag : Tags, held : Nat, ahead : Nat]

\* The bytes that were returned as a frame's data.
Data == [from : Nat, upto : Nat, length : Nat]

TypeOK ==
    /\ link \in Links
    /\ frames \in Seq(Frames)
    /\ wpc \in Fields \cup {"idle", "flush"}
    /\ buffering \in BOOLEAN
    /\ held \in 0 .. WriteBuffer
    /\ chunks \in Seq(Nat \ {0})
    /\ written \in Nat
    /\ ended \in BOOLEAN
    /\ taken \in 0 .. written
    /\ buffered \in 0 .. ReadBuffer
    /\ rpc \in Fields \cup {"closed"}
    /\ got \in Nat
    /\ length \in Nat
    /\ received \in Seq(Data)
    /\ split \in BOOLEAN

Size(f) == 2 * Width + f.length

Last == frames[Len(frames)]

\* Bytes that were passed to write.
Queued == IF frames = <<>> THEN 0 ELSE Last.at + Size(Last)

\* The next byte that read returns.
Position == taken - buffered

Init ==
    /\ link \in Links
    /\ frames = <<>> /\ wpc = "idle" /\ buffering = FALSE
    /\ held = 0 /\ chunks = <<>> /\ written = 0 /\ ended = FALSE
    /\ taken = 0 /\ buffered = 0 /\ rpc = "length" /\ got = 0 /\ length = 0
    /\ received = <<>> /\ split = FALSE

-----------------------------------------------------------------------------
(* The writer.                                                             *)

Idle == wpc = "idle" /\ chunks = <<>> /\ ~ended

Begin(n, tag) ==
    /\ frames' = Append(frames, [at |-> Queued, length |-> n, tag |-> tag, held |-> held,
                                 ahead |-> Queued + 2 * Width + n - Position])
    /\ wpc' = "length"
    /\ UNCHANGED <<link, held, chunks, written, ended, readerVars>>

\* write(tag, message).  Outside a batch the other side has answered first, or is
\* answering.
BeginFrame ==
    /\ Idle
    /\ Len(frames) + (IF buffering THEN 1 ELSE 0) < MaxFrames
    /\ buffering \/ Len(received) = Len(frames)
    /\ \E n \in Lengths : Begin(n, "message")
    /\ UNCHANGED buffering

\* The Kotlin setter of buffering, which sends an empty frame.
SetBuffering ==
    /\ Idle /\ link.writer = "kotlin"
    /\ buffering \/ (Len(frames) + 1 < MaxFrames /\ Len(received) = Len(frames))
    /\ buffering' = ~buffering
    /\ Begin(0, IF buffering THEN "STOP_BUFFERING" ELSE "START_BUFFERING")

\* The Go receiver's answers to the two tags.
StartBuffering ==
    /\ Idle /\ link.writer = "go" /\ ~buffering
    /\ Len(received) = Len(frames) /\ Len(frames) < MaxFrames
    /\ buffering' = TRUE
    /\ UNCHANGED <<link, frames, wpc, held, chunks, written, ended, readerVars>>

\* Mutant: STOP_BUFFERING clears the flag only.
StopWithoutFlush ==
    /\ Idle /\ link.writer = "go" /\ buffering
    /\ buffering' = FALSE
    /\ UNCHANGED <<link, frames, wpc, held, chunks, written, ended, readerVars>>

StopBuffering ==
    /\ Idle /\ link.writer = "go" /\ buffering
    /\ buffering' = FALSE
    /\ wpc' = "flush"
    /\ UNCHANGED <<link, frames, held, chunks, written, ended, readerVars>>

\* Nothing is not written.
Some(n) == IF n > 0 THEN <<n>> ELSE <<>>

\* bufio.Writer.Write: bytes that do not fit fill the buffer up first.
PutFilling(n) ==
    LET rest == held + n - WriteBuffer IN
    IF rest <= 0 THEN chunks' = <<>> /\ held' = held + n
    ELSE IF held = 0 THEN chunks' = <<n>> /\ held' = 0
    ELSE IF rest > WriteBuffer THEN chunks' = <<WriteBuffer, rest>> /\ held' = 0
    ELSE chunks' = <<WriteBuffer>> /\ held' = rest

\* Mutant: the bytes already in the buffer are forgotten in the comparison.
PutUnchecked(n) ==
    IF n >= WriteBuffer
    THEN chunks' = (IF held > 0 THEN <<held, n>> ELSE <<n>>) /\ held' = 0
    ELSE chunks' = <<>> /\ held' = held + n

\* BufferedOutputStream.write: bytes that do not fit flush the buffer first.
PutWhole(n) ==
    IF n >= WriteBuffer
    THEN chunks' = (IF held > 0 THEN <<held, n>> ELSE <<n>>) /\ held' = 0
    ELSE IF held + n > WriteBuffer THEN chunks' = <<held>> /\ held' = n
    ELSE chunks' = <<>> /\ held' = held + n

\* write_frame: a system call for each field.
PutDirect(n) == chunks' = Some(n) /\ held' = 0

Put(n) ==
    CASE link.writer = "kotlin" -> PutWhole(n)
      [] link.writer = "go"     -> PutFilling(n)
      [] link.writer = "cpp"    -> PutDirect(n)

AfterData == IF buffering /\ Last.tag # "START_BUFFERING" THEN "idle" ELSE "flush"

PutField ==
    /\ wpc \in Fields /\ chunks = <<>> /\ ~ended
    /\ Put(IF wpc = "data" THEN Last.length ELSE Width)
    /\ wpc' = CASE wpc = "length" -> "tag"
                [] wpc = "tag"    -> "data"
                [] wpc = "data"   -> AfterData
    /\ UNCHANGED <<link, frames, buffering, written, ended, readerVars>>

Flush ==
    /\ wpc = "flush" /\ chunks = <<>> /\ ~ended
    /\ chunks' = Some(held) /\ held' = 0
    /\ wpc' = "idle"
    /\ UNCHANGED <<link, frames, buffering, written, ended, readerVars>>

\* A blocking write proceeds as the socket has room.
SendSegment ==
    /\ chunks # <<>> /\ ~ended
    /\ LET k == Min({Segment, chunks[1]}) IN
       /\ written + k - taken <= Capacity
       /\ written' = written + k
       /\ chunks' = IF k < chunks[1] THEN [chunks EXCEPT ![1] = @ - k] ELSE Tail(chunks)
    /\ UNCHANGED <<link, frames, wpc, buffering, held, ended, readerVars>>

\* The writer's process ends; what the socket holds is still delivered.
WriterEnds ==
    /\ ~ended /\ rpc # "closed"
    /\ ended' = TRUE
    /\ wpc' = "idle" /\ held' = 0 /\ chunks' = <<>>
    /\ UNCHANGED <<link, frames, buffering, written, readerVars>>

-----------------------------------------------------------------------------
(* The reader.                                                             *)

\* readNumBytes reads until it has the field, and (mutant) as if it did not.
ReadsOnce == FALSE
Looping == link.reader = "go"

\* readByteArray compares what it got with what it wanted.
Checking == link.reader = "kotlin"

Buffer == IF link.reader \in {"kotlin", "go"} THEN ReadBuffer ELSE 0

Need == IF rpc = "data" THEN length ELSE Width
Want == Need - got
Avail == written - taken

\* The position is that of the frame which the reader should read next.
Aligned(at) == Len(received) < Len(frames) /\ frames[Len(received) + 1].at = at

\* What a length field is decoded to: anything, if these are not its bytes.
Decoded(at, n) ==
    IF Aligned(at) /\ n = Width THEN {frames[Len(received) + 1].length} ELSE Lengths \cup {0}

\* The field is taken for read, n bytes of it, the last before position p.  A reader
\* that is out of step is followed to the end of one frame (a bound).
FieldRead(n, p) ==
    /\ got' = 0
    /\ \/ rpc = "length" /\ rpc' = "tag" /\ length' \in Decoded(p - n, n) /\ UNCHANGED received
       \/ /\ rpc = "tag" /\ UNCHANGED <<length, received>>
          /\ IF Aligned(p - 2 * Width) /\ n = Width THEN rpc' = "data"
             ELSE rpc' \in {"length", "data", "closed"}
       \/ /\ rpc = "data" /\ rpc' = (IF split THEN "closed" ELSE "length") /\ UNCHANGED length
          /\ received' = Append(received, [from |-> p - n, upto |-> p, length |-> length])

\* A read that returns k bytes.
Returned(k, p) ==
    \/ got + k = Need /\ FieldRead(Need, p) /\ UNCHANGED split
    \/ /\ got + k < Need /\ Looping
       /\ got' = got + k /\ UNCHANGED <<rpc, length, received, split>>
    \/ /\ got + k < Need /\ Checking
       /\ split' = TRUE /\ rpc' = "length" /\ got' = 0 /\ UNCHANGED <<length, received>>
    \/ /\ got + k < Need /\ ~Looping /\ ~Checking
       /\ split' = TRUE /\ FieldRead(got + k, p)

\* One read: from the reader's buffer, directly, or by filling the buffer.
ReadSome ==
    /\ rpc # "closed" /\ Want > 0
    /\ \/ /\ buffered > 0
          /\ LET k == Min({buffered, Want}) IN
             buffered' = buffered - k /\ taken' = taken /\ Returned(k, Position + k)
       \/ /\ buffered = 0 /\ Avail > 0 /\ Want >= Buffer
          /\ LET k == Min({Avail, Want}) IN
             buffered' = 0 /\ taken' = taken + k /\ Returned(k, Position + k)
       \/ /\ buffered = 0 /\ Avail > 0 /\ Want < Buffer
          /\ LET fill == Min({Avail, Buffer})
                 k == Min({fill, Want}) IN
             buffered' = fill - k /\ taken' = taken + fill /\ Returned(k, Position + k)
    /\ UNCHANGED <<link, writerVars>>

\* Nothing to read: read_block takes the 0 of read for the end of the connection.
ReadEmpty ==
    /\ rpc = "data" /\ Want = 0
    /\ IF link.reader = "cpp" THEN rpc' = "closed" /\ UNCHANGED <<got, length, received>>
                              ELSE FieldRead(got, Position)
    /\ UNCHANGED <<link, writerVars, taken, buffered, split>>

\* The end of the stream.  Go drops the error for tag and data, Python takes the
\* empty result; Kotlin's check fails, C++ throws.
EndOfStream ==
    /\ rpc # "closed" /\ Want > 0
    /\ ended /\ Avail = 0 /\ buffered = 0
    /\ IF rpc # "length" /\ link.reader \in {"go", "python"}
       THEN FieldRead(got, Position)
       ELSE rpc' = "closed" /\ UNCHANGED <<got, length, received>>
    /\ UNCHANGED <<link, writerVars, taken, buffered, split>>

-----------------------------------------------------------------------------
Write == BeginFrame \/ SetBuffering \/ StartBuffering \/ StopBuffering \/ PutField
            \/ Flush \/ SendSegment

Read == ReadSome \/ ReadEmpty \/ EndOfStream

\* Nothing left to do: all was sent and read, or the two are out of step for good.
Quiescent ==
    /\ \/ rpc = "closed"
       \/ Idle /\ (Len(frames) = MaxFrames \/ split)
    /\ UNCHANGED vars

Next == Write \/ Read \/ WriterEnds \/ Quiescent

Spec == Init /\ [][Next]_vars

\* Both processes run.
Fairness ==
    /\ WF_vars(SetBuffering /\ buffering) /\ WF_vars(StopBuffering)
    /\ WF_vars(PutField) /\ WF_vars(Flush) /\ WF_vars(SendSegment)
    /\ WF_vars(Read)

FairSpec == Spec /\ Fairness

-----------------------------------------------------------------------------
(* Properties.                                                             *)

\* The limits within which a reader that reads a field at once gets it at once:
\* no field is cut by the socket, by the writer's buffer or by the reader's.
Fits(f) ==
    /\ f.length <= Segment
    /\ link.writer # "cpp" => WriteBuffer <= Segment
    /\ link.writer = "go" => f.held + Size(f) <= WriteBuffer
    /\ link.reader = "kotlin" => f.ahead <= ReadBuffer

AllFit == link.reader = "go" \/ \A i \in DOMAIN frames : Fits(frames[i])

\* The writer ended before the end of the frame was in the socket.
Cut(f) == ended /\ written < f.at + Size(f)

\* Every frame that read returns is the frame that was written in its place.  The
\* last one may be cut if the writer has ended and the reader does not look at
\* the end of the stream; C++ and Kotlin never return a cut frame.
FramesIntact ==
    AllFit =>
        \A i \in DOMAIN received :
            /\ i \in DOMAIN frames
            /\ \/ received[i] = [from   |-> frames[i].at + 2 * Width,
                                 upto   |-> frames[i].at + Size(frames[i]),
                                 length |-> frames[i].length]
               \/ Cut(frames[i]) /\ link.reader \in {"go", "python"}

\* Inside the limits no read returns part of a field.
WholeFields == AllFit => ~split

\* SimpleBinaryFraming.readByteArray: check(receivedDataSize == length), while the
\* other side lives.
CheckHolds == Checking => ~split

\* What was written is read, unless the writer ends.  An empty message ends the C++
\* reader, and what is beyond the limits may.
Delivered(i) == Len(received) >= i
Spoiled == ~AllFit \/ (link.reader = "cpp" /\ \E j \in DOMAIN frames : frames[j].length = 0)
AllDelivered == \A i \in 1 .. MaxFrames : Len(frames) >= i ~> Delivered(i) \/ ended \/ Spoiled

=============================================================================
