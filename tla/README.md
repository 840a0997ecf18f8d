# LibraryLink: specifications and proofs

LibraryLink lets a program call a library written in another language.  A
*wrapper* (Kotlin, Java, Python or JavaScript; generated from a model of the
library) turns each method call into a request, a *receiver* process that is
linked with the library (C++, Go or Python) executes it and answers.  The two
are joined by a Unix domain socket.  Objects stay in the receiver, in a table
called `persistence`; the wrapper knows them by an *assigned id*.

This directory holds TLA+ models of that exchange, the TLC runs that check
them, and TLAPS proofs about them.  `PDE` below is
`src/kotlin-dataexchange/src/main/kotlin/ru/spbstu/kspt/librarylink/ProcessDataExchange.kt`.

## 1. Inventory

| Component | Code | State | Operations |
|---|---|---|---|
| Request generators of the wrapper | PDE 231-309, 740-823 | the framing (one, or one per thread), the monitor on it, assigned ids in wrapper objects | `makeRequest`, `sendRequest`, `sendRequests`, `readResponse`, `bindTo` |
| Binary framing | PDE 187-229; `main.cpp` 38-76; `main.go` 97-135; `main.py` 108-140 | the byte stream, a 16K buffer, the `buffering` flag | `write`, `read`, the `buffering` setter |
| C++ receiver | `src/cpp-receiver/main.cpp` | `persistence`, `assigned_id_counter`, a detached thread per connection, file descriptors | accept loop, `process_channel`, `read_frame`, `write_frame`, `do_callback` |
| Generated handlers | `src/cpp-receiver/z3.cpp`, `helpers.h` | `persistence` (shared), the library's own state | 53 `librarylink_Z3_*` handlers, the array helpers, `process_request` |
| Generated wrapper | `src/generator/src/test/kotlin/Z3Kotlin.kt` | the handles | the methods that make the requests for those handlers |
| Wire messages | `exchange.pb.cc`, `exchange.pb.h`; PDE 754-823 | seven message classes, their fields and alternatives | writing, sizes, reading, merging, setters; `toProtobuf`, `toProcessExchangeResponse` |
| Go receiver | `src/golang-receiver/main.go` | a buffered writer per connection, the map of objects | `handler`, `readNumBytes` |
| Python receiver | `src/python-receiver/main.py` | `persistence`, `AtomicCounter` | `receive`, `process_request`, `callback_handler` |
| Callbacks | PDE 236-246, 665-736; `main.cpp` 263-291 | `localPersistence`, receiver and constructor maps | `handleRequest`, `registerCallback`, `do_callback` |
| Arrays | PDE 564-656; `helpers.h` | `char**` and `T**` in `persistence`, the arrays they lead to | `allocate`, `get`, `set`, `strlen` |
| References | PDE 520-550, 658-663 | the set of phantom references, the reference queue | `registerReference`, the delete thread |
| Call cache | PDE 886-954; `LogReader.kt` | `currentSequence`, the allowed sequences | `makeRequest`, `getPrefetchRequests` |
| WebSocket bridge | `WebSocketFraming.kt`, `sender.js` | one receiver channel, the set of sessions | `onMessage`, one reader thread per session |
| Wrapper generator | `GeneratorST.kt`, `kotlin.stg` | none at run time | generation of wrappers and handlers |

How they interact.  A wrapper thread writes a request frame to its channel and
reads from the same channel until a response arrives.  The receiver's thread for
that connection reads the frame, chooses an id, runs the handler, which looks
objects up in the table and may store one, and writes the response with the id.
The wrapper object takes the id (`bindTo`) and puts it into later requests.  There
is no acknowledgement, no timeout, no retry and no reconnection; no frame
carries a number that would tie a response to its request.  Callbacks travel on
the same channel, inside the call that caused them.

What is hard, and what makes each part correct:

* *Threads of the wrapper.*  Which response a thread reads depends on the monitor
  or on the channel being its own.  Correct: a thread reads the answer to its own
  request.
* *Threads of the receiver* share a hash table without a lock.  Correct: two
  accesses never overlap, one of them a write (true with one channel, false with
  several); without overlap, an id names the object it was announced for.
* *Untyped pointers.*  `persistence` keeps `void*`; two generators, one for each side,
  decide what they are cast to.  Correct: to the type of what was stored.
* *Conversions.*  A value goes through `Argument`, `toProtobuf`, the encoding, a
  parser whose result is not looked at, and a cast, and back.  Correct: what
  arrives is what was sent, or nothing is executed.
* *Arrays.*  Elements are copied through pointers to copies, chars are cut to signed
  bytes, strings have no terminator.  Correct: `get` returns what `set` was given.
* *Death and restart of either process at any point.*  Correct: callers get an
  exception; nothing is executed twice, or after its caller was told it failed;
  ids never name an object of another receiver.
* *The receiver ends easily*: a method without a handler, an unknown id, a full
  descriptor table, a peer that goes away.  Correct: for no other reason.
* *Streams*: reads return part of a frame.  *Batches*: both sides may block on
  full buffers.  *Callbacks*: requests nest inside requests, on the thread and
  the channel of the call.  Correct: the call returns its own response, after
  all its callbacks.

`PROJECT.json` lists each hazard at its line, with the properties that would show it going
wrong.  Some hazards have none, because the code does go wrong there: the property nearby
then names the case as its exception, and the note of the hazard says which it is.

## 2. Plan

| # | Module | Subject | Runs (bounds) | Theorems | State |
|---|---|---|---|---|---|
| 1 | `RemoteCalls` | abstract: at-most-once call | property of 2 | | done |
| 2 | `RequestExchange` | wrapper threads, channels, C++ receiver, death and restart | 2 threads, 3 calls, 1 restart, 1 exit | see 3 | done |
| 3 | `RequestExchangeProofs` | proofs about 2 | | the invariants, the action properties, the refinement of `RemoteCalls` | done |
| 4 | `ByteFraming`, `ByteFramingProofs` | frames over a byte stream, with the writers and readers of each language | 3 frames, 3 sizes, 5 pairs | frames in = frames out within the limits of `AllFit` | done |
| 5 | `BatchBuffering`, `BatchBufferingProofs` | `sendRequests` over bounded buffers, with the Go receiver | 2 calls, batches up to 7, capacities 1 and 2 | no mutual blocking within the sockets' capacity | done |
| 6 | `WireFormat`, `WireMessages`, `MessageCodec`, `MessageCodecProofs` | the message classes of `exchange.pb.cc` | 2 messages of each class | the sizes agree, reading inverts writing | done |
| 7 | `RequestTransfer`, `RequestTransferProofs` | a request from `makeRequest` through its bytes to a handler and back, over 6 | 2 requests, cut anywhere | the invariants, for requests that arrive whole and for those that are cut | done |
| 8 | `HandleTypes`, `HandleTypesProofs` | what the generated wrapper passes and the generated handlers cast | every method, 2 handles of a class, 7 requests | the tables agree; the invariants | done |
| 9 | `RemoteArrays`, `ArrayHandles`, `ArrayHandlesProofs` | abstract arrays; `ArrayHandle` over `helpers.h` | 2 threads, 1 array, 2 objects, 2 chars | the invariants, `ArrayHandles` implements `RemoteArrays` | done |
| 10 | `Callbacks` | calls and callbacks nested on one channel, `localPersistence` | 3 calls, 2 callbacks | see 11 | done |
| 11 | `CallbacksProofs` | proofs about 10 | | the invariants, the action property | done |

Every invariant, action property and refinement that a run expects to hold is also proved;
what stays with the model checker, and why, is at the end of section 6.

`ByteFraming` justifies the channels of `RequestExchange`, which carry whole
frames, and says within which limits they do.
`MessageCodec` is what
`RequestTransfer` takes for granted about bytes.  `RequestTransfer` justifies that
requests are records elsewhere, and says what becomes of a request of which a part
arrives.  `HandleTypes` adds the types that `RequestExchange` leaves out,
`ArrayHandles` the contents of what an id names, `Callbacks` the frames that
are neither requests nor responses.

## 3. Modules

### `RemoteCalls` (abstract)

What the layer promises the code that uses a wrapper: a call is executed at most
once, and returns only after it was executed.  A call may be lost at any time (an
exception, the end of the wrapper); then nothing is said of its execution.

### `RequestExchange`

One wrapper process at a time (PDE) and one receiver process at a time (`main.cpp`).

| In the model | In the code |
|---|---|
| `pc`, `req` | the place of a thread in `sendRequest`, its request |
| `monitor` | `synchronized(framing)`; unused if `MultiThreaded` |
| `framing` | `framing by lazy` (key `Shared`) or `localFraming` (key: the thread) |
| `handles` | wrapper objects with their `assignedID` |
| `chan`, `toRecv`, `fromRecv` | a connection and the frames in its two directions |
| `spc`, `cur` | the place of a connection's thread in `process_channel`, its request with the id |
| `persistence`, `counter`, `fds` | the table, `assigned_id_counter`, descriptors in use |
| `alive`, `ReceiverRestart` | the receiver process |

Actions: `StartCall`, `Connect`, `ConnectFails`, `Acquire`, `WriteRequest`, `WriteFails`,
`ReadResponse` (with `bindTo`), `ReadFails`, `WrapperExit` for the wrapper;
`Accept`, `AcceptFails`, `ReadFrame`, `ConnectionClosed`, `Execute`, `NoHandler`,
`NullDereference`, `BeginStore`, `EndStore`, `WriteFrame`, `BrokenPipe`,
`ReceiverRestart` for the receiver.  Every way the process ends is the same
`Terminate`: all threads, the table and the sockets go at once.

The data race.  `persistence[id] = ptr` takes two steps, `BeginStore` and
`EndStore`.  An access from another connection in between sets `tableRaced`:
undefined behaviour, of which the model allows a lost entry (`StoreLost`), a thread
that never returns (`TableHang`), the end of the process (`TableCrash`) and nothing.

Abstractions.  A call has at most one object argument (`target`), which stands for
the object and the reference arguments: the handlers treat all of them alike.
Values of primitive arguments are left out (see `RequestTransfer`).  The handlers
fall into the classes of `Kinds` (what each of them casts is in `HandleTypes`).  A
channel carries whole frames (see `ByteFraming`), and callbacks are left out (see
`Callbacks`).  The
listen backlog is not bounded.  The system calls of the accept loop before
`accept` succeed.  An object is known by the call that made it (history), which
lets the properties tell objects apart that the code can confuse.

### `ByteFraming`

One direction of a channel, from `write` in one language to `read` in another.  A
byte is known by its position in the stream; the stream neither loses nor reorders
bytes, so a frame is intact if its fields are read where they were written.

| In the model | In the code |
|---|---|
| `wpc`, `held`, `chunks` | `write`: the next field, the bytes in the buffer, the system calls under way |
| `buffering` | the `buffering` property (PDE 219), the variable of the Go `handler` |
| `written - taken` | what the socket holds |
| `buffered` | `BufferedInputStream`, `bufio.Reader`; C++ and Python have none |
| `rpc`, `got`, `length` | `read`: the field, the bytes of it read so far, the decoded length |
| `received` | what `read` returned, as positions in the stream |

`PutWhole`, `PutFilling` and `PutDirect` are what a write of a field does to the
buffer in the three languages.  `ReadSome` is one read: from the buffer, directly,
or after filling the buffer.  `Returned` says what happens if it is short: Go goes
on, Kotlin's `check` throws, C++ and Python take what they have.  `EndOfStream`
keeps apart what the four readers do when the other process has ended.

Abstractions.  The kernel passes data on in segments, and a read takes what is
there.  The Python receiver writes as the C++ one does.  `available()` of the stream
under the Kotlin buffer is 0, as for every channel that is not a file.  A reader
that is out of step decodes any length and is followed to the end of one frame.

`ByteFramingProofs` has the proofs about it; see section 6.

### `BatchBuffering`

The wrapper's single calls and batches over one connection to the Go receiver.
Frames stay in order, so a place on the way is a number: how many of the frames
have got at least so far.

| In the model | In the code |
|---|---|
| `stream`, `out`, `sent`, `taken`, `handled` | frames passed to `write`; in a system call; in the socket; in the receiver's buffer; handled |
| `answered`, `gout`, `gsent`, `got` | responses passed to `bufferedWriter.Write`; in a system call; in the socket; read by the wrapper |
| `buffering`, `gbuffering` | the flags of the two sides |
| `wpc`, `todo`, `expected` | the loops of `sendRequests` |

A system call is blocking: the wrapper goes on when `sent = out`, `handler` when
`gsent = gout`.  Abstractions.  Capacities count frames, not bytes, so a frame is
never cut (that is the subject of `ByteFraming`).  The wrapper's input buffer is
left out: nothing is read into it while a batch is written.  Neither process
ends.

### `BatchBufferingProofs`

The proofs about it; see section 6.

### `WireFormat`, `WireMessages`, `MessageCodec`

`WireMessages` has, for each of the seven message classes of `exchange.pb.cc`, what
the generated code does with it: the empty message, `XBytes`
(`SerializeWithCachedSizes` and its twin for arrays), `XSize` (`ByteSizeLong`), `XField`
(a round of the loop in `MergePartialFromCodedStream`), `MergeX` (`MergeFrom`), and the
setters and getters of the alternatives; `ReadX` is the whole loop.  At its end are the sets
of the messages that a class can hold.  `WireFormat` has the primitives of the
protobuf runtime they are built from; the runtime is not in the repository and is
marked as external in the map.  `MessageCodec` writes messages one behind another
into a buffer and reads it; its constants `Requests` and `Responses` are any messages
whose members have the types of `exchange.pb.h`.

Abstractions.  Lengths and enumeration values are below 128, so that a varint has one
byte.  A fixed64 has `Width` bytes.  Strings are valid UTF-8.  Arenas, descriptors,
`Swap`, and the release and `set_allocated` accessors, which nobody uses, are left
out.  The module follows `exchange.pb.cc`, which is what is compiled; the
`exchange.proto` beside it is another version (it has no `do_get_return_value`, and
calls `construction` what the code calls `constructor`).

### `RequestTransfer`

One request at a time, from `makeRequest` to the handler and back, over
`WireMessages`.

| In the model | In the code |
|---|---|
| `call`, `MakeRequest` | the request and its arguments (PDE 334-418), `makeRequest` (743-748) |
| `RequestProto`, `MethodCallProto`, `ArgumentProto`, `ValueProto` | the `toProtobuf` functions (PDE 771-822) |
| `bytes` | the frame, then the response's frame |
| `ReadFrame(n)` | `read_frame` gets n bytes of it, `ParseFromArray`, the choice of the id (`main.cpp` 49-60, 207-232) |
| `rq`, `Request`, `id`, `resp` | the locals of `process_channel` |
| `Handlers`, `Lookups`, `NoHandler`, `NullDereference`, `Execute` | `process_request` and the scheme of the handlers (`z3.cpp`, `helpers.h`) |
| `Converted`, `ReadResponse` | `toProcessExchangeResponse` (PDE 754-769), then `bindTo` or `asInstanceOf` (482-514) |

`ReadFrame` takes any number of bytes from 1 on, because `read_block` takes one
`read()` for the frame; the array it reads into was filled with zeros.  A frame that
was cut leaves the receiver out of step: that is where the model ends (`ByteFraming`
follows the reader for one more frame).

### `HandleTypes`

A table of the handlers in `z3.cpp` and `helpers.h` (`Handlers1` to `Handlers5`), a
table of the methods in `Z3Kotlin.kt` and `ArrayHandle`, and the exchange of one
request at a time between them.  `counter` is `assigned_id_counter`, `persistence` gives the
type of what an id points to, `handles` the wrapper's objects with their class and id.
Actions: `Call` (a method makes its request), `Execute` (the request takes a number, whatever
its handler returns, and `Process` runs the handler), `Receive` (`bindTo`).  One caller is
enough here: how the steps of several interleave is the subject of `RequestExchange`.

Left out of the tables: the three handlers with a parameter `const sem:Char[]`
(`z3.cpp` 173-184, 337-348, 467-478), which is not C++, and the three wrapper methods
that return `String`, whose `bindTo(String())` does not compile;
`Z3_set_error_handler`, which takes a `Z3_error_handler` whose `assignedID` nothing
sets, is in the tables but can never be called.  `mem_alloc`, `set`, `get` and `strlen` are
entries under the names of their instances, as `process_request` compares them.

`HandleTypesProofs` has the proofs about it; see section 6.

### `RemoteArrays` (abstract), `ArrayHandles`

`RemoteArrays`: arrays of values, at first zeros; `set` is a get and a write that are
not atomic.  `ArrayHandles` is how the code does it:

| In the model | In the code |
|---|---|
| `persistence` | the receiver's table: id to type and address |
| `memory` | what is at an address: the pointer to the array, or its elements |
| `Allocate` | `mem_alloc` (`helpers.h` 22-34), `ArrayHandle.allocate` (PDE 596-601) |
| `Get`, `BeginSet`, `EndSet` | `get` (PDE 586-594) and the two requests of `set` (603-618); `helpers.h` 36-78 |
| `Strlen` | `librarylink_strlen` (`helpers.h` 80-86) |
| `Byte`, `ToChar` | the conversions from `Char` to `char` and back |
| `overlapped` | history: another thread has set the element meanwhile |

`strlen` of an array without a zero reads on behind it; the model lets it return up to
`Slack` more.  Objects and characters are numbers, the values of `RemoteArrays`.  Of these, `Kept`
are the objects and the characters below 128; so that one number does not mean both
a value that is kept and one that is not, `ObjectsAssumption` says that no object has the number
of a character from 128 on.

`ArrayHandlesProofs` has the proofs about it; see section 6.

### `Callbacks`, `CallbacksProofs`

Calls of one thread over one channel, and the callbacks that a handler makes
meanwhile with `do_callback`.

| In the model | In the code |
|---|---|
| `stack` | the nesting of `makeRequest`, `readResponse`, `handleRequest` on the thread |
| `receivers`, `constructor` | `callbackReceivers`, `localConstructors` |
| `localPersistence` | `localPersistence`, of which only the empty id is ever used |
| `ReturnResponse`, `ReadCallback`, `ReadFails` | what `readResponse` (PDE 236-246) finds |
| `FinishCallback` | the end of `handleRequest` (PDE 699-726) |
| `ReadFrame`, `Respond` | `process_channel` |
| `DoCallback` | `do_callback` (`main.cpp` 263-291) |
| `broken`, `firstAfter` | history: whether a call ended by an exception or was made in a callback; how many calls were made when the first callback was answered |

The response to a callback is a frame that the receiver never waits for and later
reads as a request; `ResponsesNameNoMethod` of `MessageCodec` says what request, and
`ReadFrame` takes it from there: there is no handler without a name.  `do_callback`
has no caller in the repository, so a handler may call it at any time while it runs.
It is out of scope that it is called on a thread that the library created (the
descriptor is `thread_local`), and that a callback's function waits for another
thread that makes a call (which waits for the monitor).

### The TLC instances

`MCByteFraming`: the pairs of languages that talk to each other, and the sizes.
`MCMessageCodec`: the messages.  `MCRequestTransfer`: the methods and values.
`MCArrayHandles`: objects and chars.  `MCCallbacks`.

`MCRequestExchange`: the symmetry of threads and channels, which only `threadlocal`
uses, the run without liveness.

### The modules of proofs

Each module `...Proofs` extends the module that it is about; `RequestTransferProofs`
also extends `MessageCodecProofs`, on whose lemmas about bytes it rests.  See section 6.

## 4. Runs and bounds

| Run | Instance | Checks |
|---|---|---|
| `blocking` | shared channel; 2 threads, 2 channels, 3 calls, 1 restart, 1 exit, 2 descriptors, with fairness | `TypeOK`, `ResponseMatches`, `TargetsResolve`, `SingleConnectionNeverRaces`, `NoLateExecution`, `CallEnds` |
| `threadlocal` | a channel per thread; 4 channels, 3 descriptors, otherwise the same | `HandlesLive`, `TargetsResolve`, `ReceiverSurvives`, `Implements` |
| `threadlocal_progress` | as `threadlocal`, 2 channels, no exit, with fairness | `CallEnds` |
| `framing` | 5 pairs of languages, 3 frames of 1, 4 or 8 bytes, buffers and segments of 7, fields of 2 | `TypeOK`, `FramesIntact`, `WholeFields`, `AllDelivered` |
| `batch` | 2 calls, batches of 0 to 7, capacities 2, 2, 2, 1, 1, so that the limit is 4 | `TypeOK`, `StuckOnlyIfLarge`, `NothingLeft`, `CallsEnd` |
| `framing_check` | C++ to Kotlin, 2 frames | `CheckHolds`, violated |
| `codec` | 1 or 2 messages in a buffer; every class with every field and alternative, set and not set | `SizesAgree`, `ReadingMerges`, `ResponsesNameNoMethod` |
| `transfer` | 2 requests, whole or cut at any byte; 5 methods, 2 objects | `TypeOK`, `CallArrives`, `CutCallsUnchanged`, `ResultArrives`, `IdsFresh` |
| `boolean` | 1 request with a Boolean argument | `BooleansArrive`, violated |
| `handles` | all handlers and methods, 2 handles of a class, 7 requests | `CastsFit`, `HandlesFit`, `ResultsConvert` |
| `arrays` | 2 threads, 1 array of 1 or 2 elements, 2 objects, 2 chars, 6 ids | `TypeOK`, `SetReturnsReplaced`, `Implements` |
| `callbacks` | 3 calls, 2 callbacks, 2 names, with fairness | `TypeOK`, `OwnResponse`, `CallbacksFirst`, `NoneServedAfterAnswer`, `IdsNotShared`, `CallEnds` |

* `ResponseMatches`: a thread never reads an answer to another thread's request.
* `HandlesLive`, `TargetsResolve`: an id names the object it was announced for, and
  a handler finds the object its caller meant.  Each states what the code needs
  for it: no race; with thread-local channels, no restart.  Without these
  conditions TLC finds the behaviour in which they fail.
* `SingleConnectionNeverRaces`: the shared channel makes the unlocked table safe,
  until a wrapper process that left a request behind is followed by another.
* `ReceiverSurvives`: the complete list of reasons for which the receiver ends.
* `NoLateExecution`: a call is executed only while its caller waits.
* `Implements`: `RequestExchange` implements `RemoteCalls`.  The waiting calls are
  those inside `makeRequest`; executions and returns are the history variables.
* `CallEnds`: a call whose request is being written or was written comes to an end.
* `FramesIntact`: `read` returns the frames that were written, in order; only Go and
  Python return a frame that was cut by the end of the writer.
* `WholeFields`: a reader that takes one read for a field gets the field, within the
  limits of `AllFit`: no message is longer than a segment, a batch of Go responses
  fits into the writer's buffer, and what the Kotlin reader has not read fits
  into its own.
* `AllDelivered`: what was written is returned within the same limits.  An empty frame,
  as `START_BUFFERING` is one, ends the C++ reader.
* `CheckHolds` is the assertion at PDE 204, which the code breaks beyond these limits:
  when a response longer than the 16K buffer has arrived before its
  header is read, the buffer holds the header and the beginning of the data, and
  the check fails.  This is listed as a finding.
* `StuckOnlyIfLarge`: both sides wait in a write for the other to read only in a batch
  of more than `Limit` requests.  The limit is exact: with one more TLC finds the
  behaviour.
* `NothingLeft`: between calls the connection holds no request and no response.
  An empty batch may leave its two tags, for which nobody waits.
* `CallsEnd`: a call or batch within the limit ends.
* `SizesAgree`: `ByteSizeLong` is the length of what is written.  Lengths of nested
  messages are written before them, from this size.
* `ReadingMerges`: reading gives back what was written; of several messages in a
  buffer, what `MergeFrom` makes of them.
* `ResponsesNameNoMethod`: a response read as a request is one for a method without a
  name, or none.
* `CallArrives`, `ResultArrives`: handler, object, arguments and result survive
  `toProtobuf`, the bytes, the parser, the copies and the conversion back.
* `CutCallsUnchanged`: that a frame could not be parsed is not looked at.  But the type,
  which is written last, is missing from every frame that was cut, so that no handler but
  `strlen`, which is found by its name alone, can run; and a name or an id that was cut
  ends with a zero and names nothing.
* `IdsFresh`: the id chosen for a request names no object, though ids are strings and
  the wrapper could send one.
* `BooleansArrive` is violated: `Argument(Any?, String)` takes a Boolean, as
  `Z3_model_eval` passes one, and `toProtobuf` (PDE 814) has no branch for it, so that no value
  is sent and the handler reads 0.  Listed as a finding.
* `CastsFit`, `HandlesFit`: every `void*` is cast to the type of what was stored, for
  all sequences of calls of the generated wrapper: no handler puts an object over one of
  another type.
  The pointers of configurations and contexts that were deleted stay in the table and then
  dangle; what a handler does with one is Z3's affair and not modelled.
* `ResultsConvert`: a response has a number if and only if the wrapper wants one.
* `Implements` (`arrays`): `ArrayHandles` implements `RemoteArrays`.  Chars from 128 on
  are not kept: a signed byte is extended on the way back.
* `SetReturnsReplaced`: `set` returns the element it replaced, unless another thread set
  it in between.
* `OwnResponse`: callbacks that return do not disturb the call that waits.  One that
  throws (nobody registered it, or its object has no constructor) leaves the response
  in the channel, and a call in a callback may take its caller's; hence `broken`.
* `CallbacksFirst`: callbacks are served before the call returns.
* `NoneServedAfterAnswer`: after the first answer to a callback, no call is ever served.
* `IdsNotShared`: objects passed to callbacks and objects that calls create have
  different ids.
* `CallEnds` (`callbacks`): calls end all the same, some of them by an exception.

Three calls are enough for an object to be created, passed to another
thread and used after a restart; two threads and two connections for a race; one
restart for ids of two receivers; one exit for requests whose wrapper is gone.
`FdLimit` lets `accept` fail.  In `framing` a field has two bytes, so that it can be cut; the
three sizes are a message that fits everywhere with its header, one that fits only
without it, and one that no buffer or segment holds; three frames make a batch
between its two tags.  In `batch` the larger batches overflow every buffer and get
stuck; two calls show what one of them leaves to the next.  In `codec` and `transfer` a
fixed64 has two bytes: its ends and its sign are numbers TLC can count with.  The first
id that is chosen in `transfer` is "11", so that an id that exists is the beginning of
one that is chosen; two methods differ in their types only, one name begins another.
In `handles` seven requests are as many as the longest way to a method takes
(`Z3_model_eval`: a configuration, its context, a solver, its model, and a term, which needs
an array), and two handles of a class let a method with a term as its argument return
another; every method but `Z3_set_error_handler` is called.
In `arrays` 65 fits into a signed byte and 200 does not; with two threads and two
elements, sets overlap at one element and at different ones.  In `callbacks` one call
is made in a callback of another and one comes after both; two callbacks are enough for
one that is answered and one that finds the object of the first.

Deadlock is checked in `blocking`, `threadlocal`, `threadlocal_progress`, `framing`,
`framing_check` and `batch`, where `Quiescent` is the end of a behaviour, when all calls
have ended or a thread hangs in a corrupted table.  It is not checked in `codec`, `transfer`,
`boolean`, `handles`, `arrays` and `callbacks`: their behaviours stop at a bound, or because
the receiver has ended.

## 5. Fairness

Weak fairness of each wrapper thread inside a call, of each connection thread of
the receiver, and of the accept loop: operating-system threads that are ready
run, and library calls are assumed to end.  Nothing is assumed of the monitor
(Java monitors are not fair), so `CallEnds` speaks of threads that
hold it or do not need it.  Calls need not be issued, a dead receiver need not be
restarted, and a wrapper need not exit.  In `ByteFraming` both processes run: a write
that was begun goes on, a batch is ended (`sendRequests` has no way out of it
before `STOP_BUFFERING`), and the reader reads.  No frame need be written.  In `BatchBuffering` the wrapper and the receiver run
inside a call.  In `Callbacks` the receiver's thread reads and answers, which includes
that the library's function returns; the wrapper's thread reads what there is or
finds the channel closed; and a callback's function returns.  It need not make
calls, and nobody need register anything.  `MessageCodec`, `RequestTransfer`,
`HandleTypes` and `ArrayHandles` state safety only.

## 6. Proofs

`RequestExchangeProofs` proves, for all values of the constants that satisfy
`ConstantsAssumption` (types, and `Shared` is not a thread) and `NoneAssumption`
(`None` is none of the values it is an alternative to):

| Theorem | Statement |
|---|---|
| `TypeCorrect` | `Spec => []TypeOK` |
| `ResponsesMatch` | `Spec => []ResponseMatches` |
| `HandlesStayLive` | `Spec => []HandlesLive` |
| `SharedChannelNeverRaces` | `Spec => []SingleConnectionNeverRaces` |
| `LookupsFindTargets` | `Spec => []TargetsResolve` |
| `NothingExecutesLate` | `Spec => NoLateExecution` |
| `ReceiverEndsForAReason` | `Spec => ReceiverSurvives` |
| `ExchangeImplementsCalls` | `Spec => Implements` |

None of the invariants is inductive by itself.  The strengthening comes in layers; each
uses those before it, and each was model-checked before it was proved.

1. `TypeInv`: `TypeOK`, and what a place in the code says about a thread's
   variables (a thread in a call has a request, a serving thread has a job).
2. `OwnerInv`: a channel belongs to one framing; a thread that writes or reads has
   a channel; with the shared channel, only the holder of the monitor does either.
   Hence at most one thread uses a channel (`OneUser`).
3. `ExchangeInv`: on a channel there is at most one request under way, in exactly
   one of three places (the request queue, the connection's thread, the response
   queue), and it is the request of the thread that reads there.  `ResponseMatches`
   follows.
4. `ObjectInv`: ids in use are below the counter and distinct; an object's id is
   announced only after it was stored.  `HandlesLive` follows.
5. `RaceInv`: with one shared channel and no wrapper exit, at most one connection
   thread is busy.  `SingleConnectionNeverRaces` follows.
6. `TargetInv`: ids in requests under way are those of objects created by the
   receiver they are sent to.  `TargetsResolve` follows.

7. `OnceInv`: a call that has not ended is in one place, with the thread that
   prepares it, or on one connection; and it has run exactly if the connection is
   past the execution.  A connection whose wrapper has left counts too: its
   request is executed although nobody waits.  The refinement follows: `Execute`
   maps to the execution of a call that has not run, `ReadResponse` to the
   return of one that has.

The action properties need two steps more.  `NoLateExecution`: a request on a
connection that was not left is that of the thread that reads there (layer 3), and
only `WrapperExit` leaves a connection (`LeftByExit`).  `ReceiverSurvives`: each
action that ends the receiver is taken apart; a null pointer is excluded by
`TargetsResolve`, a broken pipe by the fact that only `WrapperExit` closes a
wrapper's end.

`BatchBufferingProofs` proves, under `BatchAssumption` (the capacities are positive):

| Theorem | Statement |
|---|---|
| `BatchTypes` | `Spec => []TypeOK` |
| `CallsLeaveNothing` | `Spec => []NothingLeft` |
| `OnlyLargeBatchesBlock` | `Spec => []StuckOnlyIfLarge` |

The inductive invariant `Inv` says that frames and responses move along their way
in order (`Chain`), what the call in progress has written (`Shape`), that every
response not yet read answers a request of this call (`Balance`), what earlier calls
may have left (`Past`, `Rest`), when the receiver buffers (`Buffers`), and that it
waits in a write only after the last frame or before a request it has yet to answer
(`Flushing`).  If both sides are stuck, the receiver has answered more requests than
its socket holds, has one in hand, and the other socket is full behind that one; all
of them belong to the one batch, which gives its size.

`CallbacksProofs` proves, under `CallbacksAssumption` (the bounds are natural numbers),
for any set of methods:

| Theorem | Statement |
|---|---|
| `Invariant` | `Spec => []IInv`, the inductive invariant with `TypeOK` |
| `CallbackTypes` | `Spec => []TypeOK` |
| `OwnResponses` | `Spec => []OwnResponse` |
| `CallbacksComeFirst` | `Spec => []CallbacksFirst` |
| `NothingServedAfterAnswer` | `Spec => []NoneServedAfterAnswer` |
| `IdsStayDistinct` | `Spec => IdsNotShared` |

`IInv` has five parts, each of which TLC checked before it was proved.

1. `TypeOK`.
2. `IdInv`: the id of the call in service was taken from the counter and nothing is
   stored under it, while `do_callback` takes later ones.  `IdsNotShared` follows.
3. `PlaceInv`: a request waits, is served, has a response that waits, or was answered,
   only one of them and once; a callback that waits belongs to a call in service, or is
   before the response of its call.  `CallbacksFirst` follows.
4. `LateInv`: from the first answer to a callback on, that answer waits in the channel or
   the receiver has ended, and every request made since is behind it.  The step of
   `FinishCallback` needs `PlaceInv` (nothing is known of calls that were not made).
   `NoneServedAfterAnswer` follows.
5. `OwnInv`: as long as no call ended by an exception or was made in a callback, the
   thread is in one call, with at most a callback on top, and every request and response
   under way is of this call.  That a call leaves nothing behind when it returns is
   where `PlaceInv` is needed.  `OwnResponse` follows.

`ByteFramingProofs` proves, under `FramingAssumption` (any set of pairs of languages; all
sizes are positive, and a length or tag fits into each buffer and into a segment):

| Theorem | Statement |
|---|---|
| `Stream` | `Spec => []StreamInv`, the first layer below |
| `FramingTypes` | `Spec => []TypeOK` |
| `FramingInvariance` | `Spec => []IInv`, all three layers |
| `FramesStayIntact` | `Spec => []FramesIntact` |
| `FieldsStayWhole` | `Spec => []WholeFields` |

`FramesIntact` says what comes out of `read`, which depends on where the reader is; where
it is depends on which bytes it could find when it read; and those depend on how the
writer cut them.  Hence three layers, which TLC checked for every writer with every
reader before they were proved.

1. `StreamInv` is about no limits.  `TypeOK`; frames lie one behind another from 0 on
   (`Layout`); and what was put so far is what is in the socket, in the system calls under
   way and in the writer's buffer, in that order (`Accounts`).  Nothing is read before it
   was written, and what the reader has not taken is bounded by `ahead` of the last frame.
2. `FieldInv`: within the limits, what is in the socket ends where a field ends, and so does
   each system call under way, which is not longer than a segment (`WholeWrites`), unless the
   reader is one that loops and does not need it.  It needs layer 1 to know where a system
   call begins, and `AllFit` to know that the buffer is written out between fields.
3. `StepInv`: within the limits, no field was cut, what was returned is what was written
   (`Intact`), and the reader stands at the field that it believes it is at (`InStep`), or
   at the end of a stream whose writer has ended (`AtEnd`), or it has closed.  Its step
   is where layer 2 is needed: a single read that begins at a field's beginning and takes all
   there is up to a boundary takes the whole field.  That `AllFit` held in the earlier
   state when it holds in the later one is the lemma about frames that are added at the end.

`ArrayHandlesProofs` proves, under `ObjectsAssumption` (see the module), `CharsAssumption`
(a character has 16 bits) and `BoundsAssumption` (the bounds are numbers):

| Theorem | Statement |
|---|---|
| `Invariance` | `Spec => []Inv` |
| `TypeCorrect` | `Spec => []TypeOK` |
| `SetReturns` | `Spec => []SetReturnsReplaced` |
| `ArraysImplement` | `Spec => Implements` |

`Inv`: every array has memory of its own (`OwnMemory`), whose elements are bytes or pointers to
objects; an object's id leads to an object or, after a get of an element that nobody set,
to nothing (`ObjectsLead`); what the wrapper holds, in a set under way or as a result, is known
to the receiver (`PendingKnown`, `ReturnedKnown`).  `SetReturnsReplaced` is part of it.  The lemma
that carries the proof is `GrowsKeeps`: what a fresh id is used for changes nothing that an
older one leads to, so that a value that was returned means the same for ever.  The
refinement then takes one abstract step for each action: `BeginSet` copies an element,
`EndSet` writes what `Byte` and `ToChar` leave of it, and that is the element if it is in
`Kept`.

`HandleTypesProofs` proves, for any number of requests and handles:

| Theorem | Statement |
|---|---|
| `TablesAgree` | every entry of `Methods` fits the one of `Handlers` with its name |
| `HandlesInvariance` | `Spec => []IInv` |
| `Casts` | `Spec => []CastsFit` |
| `HandlesNameTheirObjects` | `Spec => []HandlesFit` |
| `Conversions` | `Spec => []ResultsConvert` |

`TablesAgree` compares the two generated files method by method, without a behaviour.  The
invariant `IInv` adds what one call after another could spoil: ids in the table are below the
counter, so that the next one replaces nothing (`Counted`); handles name objects of their class
(`HandlesFit`); a request under way passes objects of the classes of its method
(`RequestFits`), a response holds what its method takes it for (`ResponseFits`).  That a
request fits its handler then follows from `TablesAgree`, and it goes on to fit because no
pointer is replaced (`ExecuteKeeps`).  TLC checked `IInv` before it was proved.

`MessageCodecProofs` proves, under `WidthAssumption`, `CodecAssumption` and
`MessagesAssumption` (the messages have the types of `exchange.pb.h`: strings of any length,
any number of arguments):

| Theorem | Statement |
|---|---|
| `Sizes` | `CodecSpec => []SizesAgree` |
| `Merges` | `CodecSpec => []ReadingMerges` |
| `ResponsesAreNoCalls` | `CodecSpec => []ResponsesNameNoMethod` |

The invariant `CodecInv` says of the buffer what a message adds to it.  `Holds(s, n)`: the
bytes `s` have the length `n`.  `Takes(k, s, r, q)`: `s` is the encoding of some fields, over
which the loop of class `k` goes from `r` to `q`.  Both are closed under joining (`HoldsJoin`,
`TakesJoin`), so that the proof for a class is one step per field, and the proof for the buffer one
step per message.

* *Sizes.*  There is a lemma for each kind of field and each class.  Arguments are written from
  the first to the last and measured from the last to the first: after `k` arguments, what has
  been written and the size of the others are the whole size (`ArgumentsHold`).
* *Fields.*  `Encodes(s, fs)`: whatever follows `s`, `Fields` finds `fs` and then what it finds in
  what follows.  What `Fields` finds from some byte on depends on the bytes from there on only
  (`FieldsMove`); a field that ends itself is therefore found where it was written
  (`EncodesField`).
* *Numbers.*  `FixedReads`: the bytes of a number between `-(256^Width)/2` and `256^Width`, taken
  together again, are the number, with a sign or without.
* *Classes.*  What a round of the loop does for the field of each setter (`MethodnameIsRead` and
  its like), and from it what the loop makes of a whole message: `ValueTakes`, `ArgumentTakes`,
  `ArgumentsTake` (an induction over the arguments), `MethodCallTakes`, `ImportTakes`,
  `ConstructorTakes`, `RequestTakes`, `ResponseTakes`.  The message that is read into is any
  message of the class, so a second message merges with the first.  That the alternatives of a
  oneof exclude each other is needed (`RequestIs`) and preserved (`RequestTakes`).
* *Responses.*  The fields of a `Value` lie where a method call has its object, or are none of
  its fields (`ValueIsCall`): a response is a request without a method.

The induction theorems of the library take a predicate as a parameter, which the provers
cannot instantiate; they can instantiate sets, and `SetInduction` (a set that has 0 and with
each number the next one has all numbers) follows from the theorem that `<` is well-founded.
It also shows that the recursive functions `Power`, `Shifted`, the one inside `Fields`, and those
inside `FoldLeft`, `FoldRight` and `FlattenSeq` exist, without which nothing is known of what
these return.  A fold takes an operator, which a lemma cannot be about either: the lemmas about
folds name the step (`FoldStep(k, r, x)`, `k` a string).  `Power` stands for powers of 256 because
the backends know nothing of `^`.  In the model a length is one byte whatever it is; for the code
the theorems speak of lengths below 128 (section 3).

`RequestTransferProofs` proves, under `WidthAssumption`, `TransferAssumption` (the types of the
methods and values; the types and names that the handlers compare with, and ids, are texts: not
empty and without a byte 0; ids have at most two digits; the handler found by its name alone has
no parameters), `HandlersDiffer` (no request fits two handlers) and `FirstIdAssumption` (the
counter starts above the ids of the objects that were created before):

| Theorem | Statement |
|---|---|
| `TypesHold` | `Spec => []TypeOK` |
| `CallsArrive` | `Spec => [](NoBooleans => CallArrives)` |
| `CutCallsStay` | `Spec => []CutCallsUnchanged` |
| `ResultsArrive` | `Spec => []ResultArrives` |
| `IdsStayFresh` | `Spec => []IdsFresh` |

`NoBooleans` says that the call passes no Boolean; one that does loses it, which is the finding
of the run `boolean`.  The invariant `TransferInv`, which TLC checked before it was proved, says
in each phase what the next step needs: the bytes are those of a call of the wrapper
(`MethodCalls`, `Imports`); the request that was read is this call, or what a cut can leave of
it (`CutRequest`); ids in the table are below the counter (`IdsBelow`); and the response tells what
the handler did (`ResponseTells`).

* *Whole requests* (`WholeRequest`) and *responses* (`ResponsesArrive`) are read by the theorems
  about the codec: reading what was written into an empty message gives the message.
* *Cut requests* (`CutRequestIs`).  A frame is one field, and of it an empty or a shorter one is
  left (`CutFrame`).  If the bytes of some fields are cut, the fields before the cut are found as
  they were, and the one that the cut falls into has zeros at its end, has no bytes, or is not
  found (`CutFields`, an induction over the bytes from the last one on).  The type is the last
  field of a method call (`TypeIsLast`), so that it is never found whole.  The loop that reads
  the fields keeps, for each string, that it has one of the values found under its tag
  (`ReadAll`).  A string with a zero in it is no text, and so is neither a method nor an id.
* *Handlers* (`WholeHandlers`, `CutHandlers`).  By `HandlersDiffer` a whole request has one handler,
  the one that was meant.  A request that was cut has the type of no handler, so only the
  handler that needs no type can have it; its name and its object are then those of the call.
* *Ids* (`NextIdIsFresh`).  Different numbers have different texts (`DecimalsDiffer`).

As for the codec, the lengths of fields are below 128: a cut inside a length of two bytes is not
covered.

Only model-checked:

* The liveness properties `CallEnds`, `AllDelivered` and `CallsEnd`: liveness under fairness is
  beyond the prover.
* The two properties that are violated, `CheckHolds` and `BooleansArrive`.

## 7. Not modelled

* *Call cache* (PDE 886-954, `LogReader.kt`).  Switched off in the code: both cache
  managers' `getPrefetchRequests` return an empty list, so `CachingProcessDataExchange`
  passes each request on.
* *WebSocket bridge* (`WebSocketFraming.kt`, `sender.js`).  A prototype that does not
  read the tags of the frames it passes on: its thread takes the first four bytes of a
  response frame for a length.
* *Python receiver* (`main.py`), except its framing.  It reads fields that the messages
  do not have (`assignedID` of a method call, `HasField("string_value")` of an
  argument), so it answers no method call of the current protocol; its callbacks are
  JSON, which the wrapper reads as protobuf.
* *References* (PDE 520-550, 658-663).  `bindTo`, which every method that returns an object
  and the allocation of an `ArrayHandle` call, adds a phantom reference to
  `HandleReferenceQueue.references`, a set without a lock that all threads share.  Nothing
  reads the set, so that what it holds has no effect; what two additions at once do inside
  the hash set is not modelled.  The thread that takes dead references from the queue belongs
  to `SimpleTextProcessDataExchange`, which writes JSON.  `DELETE_FROM_PERSISTENCE` and
  `STOP_RECEIVER` have no sender.
* *Wrapper generator* (`GeneratorST.kt`, `kotlin.stg`).  A translator without state; what
  it generated for Z3, on both sides, is compared in `HandleTypes`.
* *What Z3 computes*, and the lifetime of its objects: reference counts, and what becomes
  of the objects of a context that was deleted.
* *Requests*: `EvalRequest` and `DynamicInheritRequest`, whose conversion is a TODO in
  `toProtobuf`; constructor requests, which only the hand-written Python wrappers make
  (their encoding is in `WireMessages`).
* *Arguments of callbacks*, which `toMethodCallRequest` drops.  `open_callback_channel`,
  which is not called.
* *ArrayHandle of Int*, for which `z3.cpp` has no handler.
* *Go receiver*: its accept loop, which only starts handlers.
* `curl.cpp` is unfinished and does not compile against the current protocol.
* Tests, benchmarks and examples are programs that use the system.
