--------------------------- MODULE BatchBuffering ---------------------------
(***************************************************************************)
(* A wrapper that sends single requests and batches (sendRequests) to the  *)
(* Go receiver over one connection.  A batch is written as a whole before  *)
(* a response is read, while the receiver answers as it reads.  Frames     *)
(* stay in order on their way; a place on the way is how far it has got in *)
(* the stream.  Sizes and capacities count frames.                         *)
(***************************************************************************)
EXTENDS Integers, Sequences, FiniteSetsExt

CONSTANTS
    Batches,    \* sizes of the batches
    OutBuffer,  \* BufferedOutputStream of the wrapper
    ToSocket,   \* the socket, requests
    InBuffer,   \* bufio.Reader
    BackBuffer, \* bufio.Writer
    FromSocket, \* the socket, responses
    MaxCalls    \* bound: calls of sendRequest and sendRequests

ASSUME BatchAssumption ==
    /\ Batches \subseteq Nat
    /\ {OutBuffer, ToSocket, InBuffer, BackBuffer, FromSocket} \subseteq Nat \ {0}
    /\ MaxCalls \in Nat

VARIABLES
    wpc,        \* "idle", or what sendRequest(s) does
    todo,       \* requests not passed to write
    expected,   \* responses to read
    buffering,  \* framing.buffering
    stream,     \* tags of the frames passed to write
    out,        \* of these: in a system call, or past it
    sent,       \*   in the socket, or past it
    taken,      \*   in the receiver's buffer, or past it
    handled,    \*   handled by the receiver
    gbuffering, \* buffering of handler
    answered,   \* responses passed to bufferedWriter.Write
    gout,       \* of these: in a system call, or past it
    gsent,      \*   in the socket, or past it
    got,        \*   read by the wrapper
    size, base, \* history: requests of the call, Len(stream) when it began
    calls

wrapperVars == <<wpc, todo, expected, buffering, stream, out, size, base, calls>>
receiverVars == <<handled, gbuffering, answered, gout>>
vars == <<wrapperVars, sent, taken, receiverVars, gsent, got>>

Tags == {"REQUEST", "START_BUFFERING", "STOP_BUFFERING"}

TypeOK ==
    /\ wpc \in {"idle", "write", "read"}
    /\ todo \in Nat /\ expected \in Nat /\ size \in Nat /\ calls \in Nat
    /\ buffering \in BOOLEAN /\ gbuffering \in BOOLEAN
    /\ stream \in Seq(Tags)
    /\ out \in Nat /\ sent \in Nat /\ taken \in Nat /\ handled \in Nat /\ base \in Nat
    /\ answered \in Nat /\ gout \in Nat /\ gsent \in Nat /\ got \in Nat

Init ==
    /\ wpc = "idle" /\ todo = 0 /\ expected = 0 /\ buffering = FALSE
    /\ stream = <<>> /\ out = 0 /\ sent = 0 /\ taken = 0
    /\ handled = 0 /\ gbuffering = FALSE /\ answered = 0 /\ gout = 0 /\ gsent = 0
    /\ got = 0 /\ size = 0 /\ base = 0 /\ calls = 0

-----------------------------------------------------------------------------
(* The wrapper.                                                            *)

Unwritten == sent < out

\* write: the frame goes into the buffer, which is flushed before if it is full, and
\* after if the setter or write itself flushes.
WriteFrame(tag, flush) ==
    /\ stream' = Append(stream, tag)
    /\ out' = IF flush THEN Len(stream) + 1
              ELSE IF Len(stream) - out >= OutBuffer THEN Len(stream) ELSE out

SendRequest ==
    /\ wpc = "idle" /\ calls < MaxCalls
    /\ WriteFrame("REQUEST", ~buffering)
    /\ wpc' = "read" /\ expected' = 1
    /\ calls' = calls + 1 /\ size' = 1 /\ base' = Len(stream)
    /\ UNCHANGED <<todo, buffering, sent, taken, receiverVars, gsent, got>>

\* sendRequests: buffering = true, which sends START_BUFFERING and flushes.
SendRequests ==
    /\ wpc = "idle" /\ calls < MaxCalls
    /\ \E n \in Batches : todo' = n /\ expected' = n /\ size' = n
    /\ buffering' = TRUE
    /\ WriteFrame("START_BUFFERING", TRUE)
    /\ wpc' = "write"
    /\ calls' = calls + 1 /\ base' = Len(stream)
    /\ UNCHANGED <<sent, taken, receiverVars, gsent, got>>

\* Mutant: one request too many.
WriteRequestTooMany ==
    /\ wpc = "write" /\ ~Unwritten
    /\ WriteFrame("REQUEST", ~buffering)
    /\ todo' = todo - 1
    /\ UNCHANGED <<wpc, expected, buffering, size, base, calls,
                   sent, taken, receiverVars, gsent, got>>

\* The next request of the batch, when the last write has returned.
WriteRequest ==
    /\ wpc = "write" /\ todo > 0 /\ ~Unwritten
    /\ WriteFrame("REQUEST", ~buffering)
    /\ todo' = todo - 1
    /\ UNCHANGED <<wpc, expected, buffering, size, base, calls,
                   sent, taken, receiverVars, gsent, got>>

\* buffering = false, which sends STOP_BUFFERING and flushes.
EndBatch ==
    /\ wpc = "write" /\ todo = 0 /\ ~Unwritten
    /\ buffering' = FALSE
    /\ WriteFrame("STOP_BUFFERING", TRUE)
    /\ wpc' = "read"
    /\ UNCHANGED <<todo, expected, size, base, calls, sent, taken, receiverVars, gsent, got>>

\* readResponse, when the writes have returned.
ReadResponse ==
    /\ wpc = "read" /\ ~Unwritten
    /\ expected > 0 /\ got < gsent
    /\ got' = got + 1
    /\ expected' = expected - 1
    /\ UNCHANGED <<wpc, todo, buffering, stream, out, size, base, calls,
                   sent, taken, receiverVars, gsent>>

\* Mutant: one response is left.
EndCallEarly ==
    /\ wpc = "read" /\ ~Unwritten /\ expected <= 1
    /\ wpc' = "idle"
    /\ UNCHANGED <<todo, expected, buffering, stream, out, size, base, calls,
                   sent, taken, receiverVars, gsent, got>>

EndCall ==
    /\ wpc = "read" /\ ~Unwritten /\ expected = 0
    /\ wpc' = "idle"
    /\ UNCHANGED <<todo, expected, buffering, stream, out, size, base, calls,
                   sent, taken, receiverVars, gsent, got>>

-----------------------------------------------------------------------------
(* The sockets.                                                            *)

SendFrame ==
    /\ Unwritten /\ sent - taken < ToSocket
    /\ sent' = sent + 1
    /\ UNCHANGED <<wrapperVars, taken, receiverVars, gsent, got>>

SendBack ==
    /\ gsent < gout /\ gsent - got < FromSocket
    /\ gsent' = gsent + 1
    /\ UNCHANGED <<wrapperVars, sent, taken, receiverVars, got>>

-----------------------------------------------------------------------------
(* The receiver: handler.  It goes on when its own writes have returned.   *)

Ready == gsent = gout

\* readNumBytes fills the empty buffer.
Fill ==
    /\ Ready /\ handled = taken /\ taken < sent
    /\ taken' = Min({sent, taken + InBuffer})
    /\ UNCHANGED <<wrapperVars, sent, receiverVars, gsent, got>>

Handle(tag) == Ready /\ handled < taken /\ stream[handled + 1] = tag /\ handled' = handled + 1

Start ==
    /\ Handle("START_BUFFERING")
    /\ gbuffering' = TRUE
    /\ UNCHANGED <<wrapperVars, sent, taken, answered, gout, gsent, got>>

\* Mutant: the flag is cleared and nothing is flushed.
StopWithoutFlush ==
    /\ Handle("STOP_BUFFERING")
    /\ gbuffering' = FALSE
    /\ UNCHANGED <<wrapperVars, sent, taken, answered, gout, gsent, got>>

Stop ==
    /\ Handle("STOP_BUFFERING")
    /\ gbuffering' = FALSE
    /\ gout' = answered
    /\ UNCHANGED <<wrapperVars, sent, taken, answered, gsent, got>>

\* Mutant: every response is flushed.
AnswerAndFlush ==
    /\ Handle("REQUEST")
    /\ answered - gout < BackBuffer
    /\ answered' = answered + 1
    /\ gout' = answered + 1
    /\ UNCHANGED <<wrapperVars, sent, taken, gbuffering, gsent, got>>

\* The response, if the buffer has room for it; it is flushed unless buffering.
Answer ==
    /\ Handle("REQUEST")
    /\ answered - gout < BackBuffer
    /\ answered' = answered + 1
    /\ gout' = IF gbuffering THEN gout ELSE answered + 1
    /\ UNCHANGED <<wrapperVars, sent, taken, gbuffering, gsent, got>>

\* bufferedWriter.Write of the next response flushes a full buffer first.
Overflow ==
    /\ Ready /\ handled < taken /\ stream[handled + 1] = "REQUEST"
    /\ answered - gout >= BackBuffer
    /\ gout' = answered
    /\ UNCHANGED <<wrapperVars, sent, taken, handled, gbuffering, answered, gsent, got>>

-----------------------------------------------------------------------------
Wrapper == WriteRequest \/ EndBatch \/ ReadResponse \/ EndCall \/ SendFrame

Receiver == Fill \/ Start \/ Stop \/ Answer \/ Overflow \/ SendBack

\* Each side waits in a write for the other to read.
Stuck ==
    /\ Unwritten /\ sent - taken >= ToSocket
    /\ gsent < gout /\ gsent - got >= FromSocket

Quiescent ==
    /\ (wpc = "idle" /\ calls = MaxCalls) \/ Stuck
    /\ UNCHANGED vars

Next == SendRequest \/ SendRequests \/ Wrapper \/ Receiver \/ Quiescent

Spec == Init /\ [][Next]_vars

\* Both processes run; whether a call is issued is up to the program.
FairSpec == Spec /\ WF_vars(Wrapper) /\ WF_vars(Receiver)

-----------------------------------------------------------------------------
(* Properties.                                                             *)

\* What the sockets hold together, and one request that is being answered.
Limit == ToSocket + FromSocket + 1

\* The two sides block each other only in a batch larger than the sockets take,
\* whatever the sizes of the buffers in the two processes.
StuckOnlyIfLarge == Stuck => size > Limit

\* A call takes all its responses with it: the next one finds no response, no
\* request and no unflushed frame of it.
NothingLeft ==
    wpc = "idle" =>
        /\ got = answered
        /\ out = Len(stream) /\ sent = out
        /\ \A i \in handled + 1 .. Len(stream) : stream[i] # "REQUEST"

\* Every call within the limit ends.
CallsEnd == (wpc # "idle" /\ size <= Limit) ~> wpc = "idle"

=============================================================================
