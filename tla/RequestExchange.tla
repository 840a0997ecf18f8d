--------------------------- MODULE RequestExchange ---------------------------
(***************************************************************************)
(* A Kotlin wrapper process calling the C++ receiver.                      *)
(*                                                                         *)
(* Wrapper side: makeRequest of ProtoBufDataExchange, sendRequest of       *)
(* BlockingRequestGenerator (one lazily opened channel, a monitor around   *)
(* write-and-read) and of ThreadLocalRequestGenerator (one channel per     *)
(* thread, no monitor), bindTo.                                            *)
(*                                                                         *)
(* Receiver side: the accept loop, one detached thread per connection,     *)
(* the global `persistence' table that those threads read and write        *)
(* without a lock, the atomic counter that names new objects, and the      *)
(* generated handlers, which all look up their arguments, call the         *)
(* library, and then store a new object or fill in a primitive result.     *)
(*                                                                         *)
(* A call is identified by its number; an object by the number of the call *)
(* that created it.  Fields and variables marked (history) are not in the  *)
(* code: they only record what happened.                                   *)
(***************************************************************************)
EXTENDS Naturals, Sequences, FiniteSets

CONSTANTS
    Threads,        \* the wrapper's threads
    Channels,       \* the socket connections a behaviour may open (bound)
    MultiThreaded,  \* ReceiverRunner.isMultiThreaded
    MaxCalls,       \* bound: calls issued in a behaviour
    MaxRestarts,    \* bound: how often a dead receiver is started again
    MaxExits,       \* bound: how often the wrapper process ends and starts anew
    FdLimit,        \* how many connections a receiver accepts before EMFILE
    Shared,         \* key of the one framing of BlockingRequestGenerator
    None            \* no channel, no thread, no object, no request

Calls == 0 .. MaxCalls - 1

\* What a handler does with its result: store a new object, return a primitive,
\* return nothing.  "unknown" is a method the receiver has no handler for.
Kinds == {"create", "primitive", "void", "unknown"}

\* A wrapper object: id is its assignedID.  obj and inc (history) are the object
\* it was bound to and the receiver incarnation that created it.
Handles == [id : Nat, obj : Calls, inc : Nat]

\* target stands for the object and the reference arguments of the call; the
\* frame only carries target.id.
Requests == [call : Calls, kind : Kinds, target : Handles \cup {None}]
Jobs == [call : Calls, kind : Kinds, target : Handles \cup {None}, id : Nat]

\* ChannelResponse: assigned_id and the result case.  call and inc are history.
Responses == [call : Calls, result : {"not_set", "value"}, id : Nat, inc : Nat]

ASSUME ConstantsAssumption ==
    /\ MultiThreaded \in BOOLEAN
    /\ MaxCalls \in Nat /\ MaxRestarts \in Nat
    /\ MaxExits \in Nat /\ FdLimit \in Nat
    /\ Shared \notin Threads

ASSUME NoneAssumption ==
    None \notin Threads \cup Channels \cup Calls \cup Handles \cup Requests \cup Jobs

VARIABLES
    \* the wrapper process
    pc,           \* pc[t]: where thread t is in sendRequest
    req,          \* req[t]: the request thread t is sending
    monitor,      \* the thread inside synchronized(framing), or None
    framing,      \* framing[k]: the channel behind a framing, None until opened
    handles,      \* the wrapper objects that carry an assignedID
    \* the sockets
    chan,         \* chan[c]: "unused", "open", "left" by the wrapper, "dead"
    toRecv,       \* toRecv[c]: request frames on their way to the receiver
    fromRecv,     \* fromRecv[c]: response frames on their way to the wrapper
    \* the receiver process
    alive,        \* whether it runs
    spc,          \* spc[c]: where the thread serving connection c is
    cur,          \* cur[c]: the request it serves
    persistence,  \* the objects kept for the wrapper, by assigned id
    counter,      \* assigned_id_counter
    fds,          \* connections accepted; their descriptors are never closed
    tableRaced,   \* whether two threads ever used `persistence' at once, one of
                  \* them writing: undefined behaviour from then on
    \* history
    calls,        \* calls issued
    runs,         \* runs[k]: how often the library executed call k
    returned,     \* calls whose makeRequest returned a response
    incarnation,  \* restarts of the receiver
    exits         \* ends of the wrapper process

wrapperVars == <<pc, req, monitor, framing, handles>>
socketVars == <<chan, toRecv, fromRecv>>
receiverVars == <<alive, spc, cur, persistence, counter, fds, tableRaced>>
historyVars == <<calls, runs, returned, incarnation, exits>>
vars == <<wrapperVars, socketVars, receiverVars, historyVars>>

-----------------------------------------------------------------------------
Key(t) == IF MultiThreaded THEN t ELSE Shared

ChannelOf(t) == framing[Key(t)]

\* The case of ChannelResponse.result that a handler of this kind leaves.
Result(kind) == IF kind = "primitive" THEN "value" ELSE "not_set"

EmptyTable == [i \in {} |-> None]

Put(table, id, obj) ==
    [i \in DOMAIN table \cup {id} |-> IF i = id THEN obj ELSE table[i]]

\* Whether persistence[target] finds the object, rather than inserting a null.
Resolves(target) == target # None => target.id \in DOMAIN persistence

Storing(c) == spc[c] = "storing"

\* An access to `persistence' from connection c races with an unfinished write.
Races(c) == \E d \in Channels \ {c} : Storing(d)

Init ==
    /\ pc = [t \in Threads |-> "idle"]
    /\ req = [t \in Threads |-> None]
    /\ monitor = None
    /\ framing = [k \in Threads \cup {Shared} |-> None]
    /\ handles = {}
    /\ chan = [c \in Channels |-> "unused"]
    /\ toRecv = [c \in Channels |-> <<>>]
    /\ fromRecv = [c \in Channels |-> <<>>]
    /\ alive = TRUE
    /\ spc = [c \in Channels |-> "none"]
    /\ cur = [c \in Channels |-> None]
    /\ persistence = EmptyTable
    /\ counter = 0
    /\ fds = 0
    /\ tableRaced = FALSE
    /\ calls = 0
    /\ runs = [k \in Calls |-> 0]
    /\ returned = {}
    /\ incarnation = 0
    /\ exits = 0

-----------------------------------------------------------------------------
(* The wrapper.                                                            *)

\* A wrapper method builds its request.  The target is any object the wrapper
\* holds, whichever thread obtained it.
StartCall(t) ==
    /\ pc[t] = "idle"
    /\ calls < MaxCalls
    /\ \E kind \in Kinds, target \in handles \cup {None} :
          req' = [req EXCEPT ![t] = [call |-> calls, kind |-> kind, target |-> target]]
    /\ pc' = [pc EXCEPT ![t] = "enter"]
    /\ calls' = calls + 1
    /\ UNCHANGED <<monitor, framing, handles, socketVars, receiverVars,
                   runs, returned, incarnation, exits>>

\* Mutant of Connect: a framing whose receiver is gone is replaced by a new one,
\* and the objects of the old receiver are kept.
ConnectAgain(t) ==
    /\ pc[t] = "enter"
    /\ ChannelOf(t) = None \/ (ChannelOf(t) # None /\ chan[ChannelOf(t)] = "dead")
    /\ alive
    /\ \E c \in Channels :
          /\ chan[c] = "unused"
          /\ chan' = [chan EXCEPT ![c] = "open"]
          /\ framing' = [framing EXCEPT ![Key(t)] = c]
    /\ UNCHANGED <<pc, req, monitor, handles, toRecv, fromRecv,
                   receiverVars, historyVars>>

\* The first use of a framing opens its channel: `by lazy' for the whole
\* process, or ThreadLocal.withInitial.  The kernel completes the connection
\* whether or not the receiver has accepted it.
Connect(t) ==
    /\ pc[t] = "enter"
    /\ ChannelOf(t) = None
    /\ alive
    /\ \E c \in Channels :
          /\ chan[c] = "unused"
          /\ chan' = [chan EXCEPT ![c] = "open"]
          /\ framing' = [framing EXCEPT ![Key(t)] = c]
    /\ UNCHANGED <<pc, req, monitor, handles, toRecv, fromRecv,
                   receiverVars, historyVars>>

\* makeRequest ends for thread t, normally or by an exception: synchronized
\* releases the monitor either way.
EndCall(t) ==
    /\ pc' = [pc EXCEPT ![t] = "idle"]
    /\ req' = [req EXCEPT ![t] = None]
    /\ monitor' = IF monitor = t THEN None ELSE monitor

ConnectFails(t) ==
    /\ pc[t] = "enter"
    /\ ChannelOf(t) = None
    /\ ~alive
    /\ EndCall(t)
    /\ UNCHANGED <<framing, handles, socketVars, receiverVars, historyVars>>

\* Mutant of Acquire: sendRequest without synchronized.
AcquireUnlocked(t) ==
    /\ pc[t] = "enter"
    /\ ChannelOf(t) # None
    /\ pc' = [pc EXCEPT ![t] = "write"]
    /\ UNCHANGED <<req, monitor, framing, handles, socketVars, receiverVars, historyVars>>

\* Mutant of Acquire: a thread that finds the channel busy replaces it by a new
\* one instead of waiting.
AcquireOrReconnect(t) ==
    /\ pc[t] = "enter"
    /\ ChannelOf(t) # None
    /\ \/ monitor = None /\ UNCHANGED <<framing, chan>>
       \/ /\ monitor # None
          /\ \E c \in Channels :
                /\ chan[c] = "unused"
                /\ chan' = [chan EXCEPT ![c] = "open"]
                /\ framing' = [framing EXCEPT ![Key(t)] = c]
    /\ monitor' = t
    /\ pc' = [pc EXCEPT ![t] = "write"]
    /\ UNCHANGED <<req, handles, toRecv, fromRecv, receiverVars, historyVars>>

Acquire(t) ==
    /\ pc[t] = "enter"
    /\ ChannelOf(t) # None
    /\ MultiThreaded \/ monitor = None
    /\ monitor' = IF MultiThreaded THEN monitor ELSE t
    /\ pc' = [pc EXCEPT ![t] = "write"]
    /\ UNCHANGED <<req, framing, handles, socketVars, receiverVars, historyVars>>

WriteRequest(t) ==
    LET c == ChannelOf(t) IN
    /\ pc[t] = "write"
    /\ chan[c] = "open"
    /\ toRecv' = [toRecv EXCEPT ![c] = Append(@, req[t])]
    /\ pc' = [pc EXCEPT ![t] = "read"]
    /\ UNCHANGED <<req, monitor, framing, handles, chan, fromRecv,
                   receiverVars, historyVars>>

WriteFails(t) ==
    /\ pc[t] = "write"
    /\ chan[ChannelOf(t)] = "dead"
    /\ EndCall(t)
    /\ UNCHANGED <<framing, handles, socketVars, receiverVars, historyVars>>

\* readResponse, then bindTo for a method that returns an object: the wrapper
\* object takes the response's id, and is from then on what the caller asked for.  The
\* phantom reference that bindTo adds to HandleReferenceQueue.references is left out:
\* nothing reads that set.
ReadResponse(t) ==
    LET c == ChannelOf(t)
        f == Head(fromRecv[c])
    IN
    /\ pc[t] = "read"
    /\ fromRecv[c] # <<>>
    /\ fromRecv' = [fromRecv EXCEPT ![c] = Tail(@)]
    /\ handles' = IF req[t].kind = "create"
                  THEN handles \cup {[id |-> f.id, obj |-> req[t].call, inc |-> f.inc]}
                  ELSE handles
    /\ returned' = returned \cup {req[t].call}
    /\ EndCall(t)
    /\ UNCHANGED <<framing, chan, toRecv, receiverVars,
                   calls, runs, incarnation, exits>>

\* Mutant of ReadFails: the reader gives up on a slow receiver.
ReadTimesOut(t) ==
    /\ pc[t] = "read"
    /\ fromRecv[ChannelOf(t)] = <<>>
    /\ EndCall(t)
    /\ UNCHANGED <<framing, handles, socketVars, receiverVars, historyVars>>

\* End of file: read returns -1 and check(receivedDataSize == length) throws.
ReadFails(t) ==
    LET c == ChannelOf(t) IN
    /\ pc[t] = "read"
    /\ chan[c] = "dead"
    /\ fromRecv[c] = <<>>
    /\ EndCall(t)
    /\ UNCHANGED <<framing, handles, socketVars, receiverVars, historyVars>>

\* The wrapper process ends, at any point, and a fresh one starts.  What it had
\* written can still be read by the receiver.
WrapperExit ==
    /\ exits < MaxExits
    /\ exits' = exits + 1
    /\ pc' = [t \in Threads |-> "idle"]
    /\ req' = [t \in Threads |-> None]
    /\ monitor' = None
    /\ framing' = [k \in Threads \cup {Shared} |-> None]
    /\ handles' = {}
    /\ chan' = [c \in Channels |-> IF chan[c] = "open" THEN "left" ELSE chan[c]]
    /\ fromRecv' = [c \in Channels |-> <<>>]
    /\ UNCHANGED <<toRecv, receiverVars, calls, runs, returned, incarnation>>

-----------------------------------------------------------------------------
(* The receiver.                                                           *)

\* The process ends, whatever the cause: every thread, the table and every
\* socket go with it.  Responses already written can still be read.
Terminate ==
    /\ alive' = FALSE
    /\ spc' = [c \in Channels |-> "none"]
    /\ cur' = [c \in Channels |-> None]
    /\ persistence' = EmptyTable
    /\ counter' = 0
    /\ fds' = 0
    /\ chan' = [c \in Channels |-> IF chan[c] = "unused" THEN "unused" ELSE "dead"]
    /\ toRecv' = [c \in Channels |-> <<>>]
    /\ UNCHANGED <<fromRecv, tableRaced, wrapperVars, historyVars>>

Accept(c) ==
    /\ alive
    /\ spc[c] = "none"
    /\ chan[c] \in {"open", "left"}
    /\ fds < FdLimit
    /\ fds' = fds + 1
    /\ spc' = [spc EXCEPT ![c] = "read_frame"]
    /\ UNCHANGED <<alive, cur, persistence, counter, tableRaced,
                   wrapperVars, socketVars, historyVars>>

\* accept fails for want of a descriptor, the loop breaks, and main returns.
AcceptFails ==
    /\ alive
    /\ fds = FdLimit
    /\ Terminate

\* Mutants of ReadFrame.  The response keeps the request's empty assigned_id; the
\* id is the size of the table; the counter is not incremented; the frame is read
\* but not consumed.
ReadFrameAs(c, id, nextCounter, queue) ==
    /\ spc[c] = "read_frame"
    /\ toRecv[c] # <<>>
    /\ toRecv' = [toRecv EXCEPT ![c] = queue]
    /\ LET r == Head(toRecv[c]) IN
          cur' = [cur EXCEPT ![c] = [call |-> r.call, kind |-> r.kind,
                                     target |-> r.target, id |-> id]]
    /\ counter' = nextCounter
    /\ spc' = [spc EXCEPT ![c] = "process_request"]
    /\ UNCHANGED <<alive, persistence, fds, tableRaced, chan, fromRecv,
                   wrapperVars, historyVars>>

ReadFrameKeepsEmptyId(c) == ReadFrameAs(c, None, counter + 1, Tail(toRecv[c]))
ReadFrameCountsTable(c) ==
    ReadFrameAs(c, Cardinality(DOMAIN persistence), counter, Tail(toRecv[c]))
ReadFrameReusesId(c) == ReadFrameAs(c, counter, counter, Tail(toRecv[c]))
ReadFrameTwice(c) == ReadFrameAs(c, counter, counter + 1, toRecv[c])

\* read_frame, then the id: requests come with an empty assigned_id, because
\* nothing in the wrappers ever sets Request.assignedID.
ReadFrame(c) ==
    /\ spc[c] = "read_frame"
    /\ toRecv[c] # <<>>
    /\ toRecv' = [toRecv EXCEPT ![c] = Tail(@)]
    /\ LET r == Head(toRecv[c]) IN
          cur' = [cur EXCEPT ![c] = [call |-> r.call, kind |-> r.kind,
                                     target |-> r.target, id |-> counter]]
    /\ counter' = counter + 1
    /\ spc' = [spc EXCEPT ![c] = "process_request"]
    /\ UNCHANGED <<alive, persistence, fds, tableRaced, chan, fromRecv,
                   wrapperVars, historyVars>>

\* read returns 0: the thread leaves its loop.  Nothing closes the descriptor.
ConnectionClosed(c) ==
    /\ spc[c] = "read_frame"
    /\ chan[c] = "left"
    /\ toRecv[c] = <<>>
    /\ spc' = [spc EXCEPT ![c] = "ended"]
    /\ UNCHANGED <<alive, cur, persistence, counter, fds, tableRaced,
                   wrapperVars, socketVars, historyVars>>

\* process_request finds the handler, which looks its arguments up in the table
\* and calls the library.
Execute(c) ==
    LET job == cur[c] IN
    /\ spc[c] = "process_request"
    /\ job.kind # "unknown"
    /\ Resolves(job.target)
    /\ tableRaced' = (tableRaced \/ Races(c))
    /\ runs' = [runs EXCEPT ![job.call] = @ + 1]
    /\ spc' = [spc EXCEPT ![c] = IF job.kind = "create" THEN "store" ELSE "write_frame"]
    /\ UNCHANGED <<alive, cur, persistence, counter, fds, socketVars, wrapperVars,
                   calls, returned, incarnation, exits>>

\* Mutant of NoHandler: the exception is caught and the loop goes on.
NoHandlerSwallowed(c) ==
    /\ spc[c] = "process_request"
    /\ cur[c].kind = "unknown"
    /\ cur' = [cur EXCEPT ![c] = None]
    /\ spc' = [spc EXCEPT ![c] = "read_frame"]
    /\ UNCHANGED <<alive, persistence, counter, fds, tableRaced,
                   wrapperVars, socketVars, historyVars>>

\* "No handler found": the exception leaves the thread, std::terminate.
NoHandler(c) ==
    /\ spc[c] = "process_request"
    /\ cur[c].kind = "unknown"
    /\ Terminate

\* operator[] inserts a null pointer for the missing id, and the handler
\* dereferences it.
NullDereference(c) ==
    /\ spc[c] = "process_request"
    /\ cur[c].kind # "unknown"
    /\ ~Resolves(cur[c].target)
    /\ Terminate

\* persistence[resp.assigned_id()] = ptr is not atomic.
BeginStore(c) ==
    /\ spc[c] = "store"
    /\ tableRaced' = (tableRaced \/ Races(c))
    /\ spc' = [spc EXCEPT ![c] = "storing"]
    /\ UNCHANGED <<alive, cur, persistence, counter, fds,
                   wrapperVars, socketVars, historyVars>>

\* Mutant of EndStore: the handler forgets to store its result.
EndStoreForgets(c) ==
    /\ Storing(c)
    /\ spc' = [spc EXCEPT ![c] = "write_frame"]
    /\ UNCHANGED <<alive, cur, persistence, counter, fds, tableRaced,
                   wrapperVars, socketVars, historyVars>>

EndStore(c) ==
    /\ Storing(c)
    /\ persistence' = Put(persistence, cur[c].id, cur[c].call)
    /\ spc' = [spc EXCEPT ![c] = "write_frame"]
    /\ UNCHANGED <<alive, cur, counter, fds, tableRaced,
                   wrapperVars, socketVars, historyVars>>

\* What a corrupted hash table does: the new entry is lost, ...
StoreLost(c) ==
    /\ Storing(c)
    /\ tableRaced
    /\ spc' = [spc EXCEPT ![c] = "write_frame"]
    /\ UNCHANGED <<alive, cur, persistence, counter, fds, tableRaced,
                   wrapperVars, socketVars, historyVars>>

UsesTable(c) == spc[c] \in {"process_request", "store", "storing"}

\* ... or a bucket chain closes on itself and the thread never returns, ...
TableHang(c) ==
    /\ UsesTable(c)
    /\ tableRaced
    /\ spc' = [spc EXCEPT ![c] = "hung"]
    /\ UNCHANGED <<alive, cur, persistence, counter, fds, tableRaced,
                   wrapperVars, socketVars, historyVars>>

\* ... or a freed node is followed.
TableCrash(c) ==
    /\ UsesTable(c)
    /\ tableRaced
    /\ Terminate

\* Mutant of WriteFrame: a method that returns nothing is not answered.
WriteFrameUnlessVoid(c) ==
    /\ spc[c] = "write_frame"
    /\ chan[c] = "open"
    /\ fromRecv' = IF cur[c].kind = "void" THEN fromRecv ELSE [fromRecv EXCEPT ![c] =
          Append(@, [call |-> cur[c].call, result |-> Result(cur[c].kind),
                     id |-> cur[c].id, inc |-> incarnation])]
    /\ cur' = [cur EXCEPT ![c] = None]
    /\ spc' = [spc EXCEPT ![c] = "read_frame"]
    /\ UNCHANGED <<alive, persistence, counter, fds, tableRaced, chan, toRecv,
                   wrapperVars, historyVars>>

WriteFrame(c) ==
    /\ spc[c] = "write_frame"
    /\ chan[c] = "open"
    /\ fromRecv' = [fromRecv EXCEPT ![c] =
          Append(@, [call |-> cur[c].call, result |-> Result(cur[c].kind),
                     id |-> cur[c].id, inc |-> incarnation])]
    /\ cur' = [cur EXCEPT ![c] = None]
    /\ spc' = [spc EXCEPT ![c] = "read_frame"]
    /\ UNCHANGED <<alive, persistence, counter, fds, tableRaced, chan, toRecv,
                   wrapperVars, historyVars>>

\* write to a socket whose peer is gone: SIGPIPE, which nothing blocks.
BrokenPipe(c) ==
    /\ spc[c] = "write_frame"
    /\ chan[c] = "left"
    /\ Terminate

ReceiverRestart ==
    /\ ~alive
    /\ incarnation < MaxRestarts
    /\ alive' = TRUE
    /\ incarnation' = incarnation + 1
    /\ tableRaced' = FALSE
    /\ UNCHANGED <<spc, cur, persistence, counter, fds, wrapperVars, socketVars,
                   calls, runs, returned, exits>>

-----------------------------------------------------------------------------
\* Every call was issued and has ended, or a corrupted table holds one forever.
Quiescent ==
    /\ \/ calls = MaxCalls /\ \A t \in Threads : pc[t] = "idle"
       \/ \E c \in Channels : spc[c] = "hung"
    /\ UNCHANGED vars

InCall(t) ==
    \/ Connect(t) \/ ConnectFails(t) \/ Acquire(t)
    \/ WriteRequest(t) \/ WriteFails(t)
    \/ ReadResponse(t) \/ ReadFails(t)

Serve(c) ==
    \/ ReadFrame(c) \/ ConnectionClosed(c)
    \/ Execute(c) \/ NoHandler(c) \/ NullDereference(c)
    \/ BeginStore(c) \/ EndStore(c)
    \/ StoreLost(c) \/ TableHang(c) \/ TableCrash(c)
    \/ WriteFrame(c) \/ BrokenPipe(c)

Next ==
    \/ \E t \in Threads : StartCall(t) \/ InCall(t)
    \/ \E c \in Channels : Accept(c) \/ Serve(c)
    \/ AcceptFails
    \/ WrapperExit
    \/ ReceiverRestart
    \/ Quiescent

Spec == Init /\ [][Next]_vars

\* Threads of both processes keep running, the accept loop included, and every
\* library call ends.  Nobody is obliged to issue a call or to restart anything.
Fairness ==
    /\ \A t \in Threads : WF_vars(InCall(t))
    /\ \A c \in Channels : WF_vars(Accept(c)) /\ WF_vars(Serve(c))
    /\ WF_vars(AcceptFails)

FairSpec == Spec /\ Fairness

-----------------------------------------------------------------------------
(* Properties.                                                             *)

ReceiverSteps == {"none", "read_frame", "process_request", "store", "storing",
                  "write_frame", "hung", "ended"}

\* Every variable keeps to the values its declaration describes, and the table
\* maps ids to objects.
TypeOK ==
    /\ pc \in [Threads -> {"idle", "enter", "write", "read"}]
    /\ req \in [Threads -> Requests \cup {None}]
    /\ monitor \in Threads \cup {None}
    /\ framing \in [Threads \cup {Shared} -> Channels \cup {None}]
    /\ handles \subseteq Handles
    /\ chan \in [Channels -> {"unused", "open", "left", "dead"}]
    /\ toRecv \in [Channels -> Seq(Requests)]
    /\ fromRecv \in [Channels -> Seq(Responses)]
    /\ alive \in BOOLEAN
    /\ spc \in [Channels -> ReceiverSteps]
    /\ cur \in [Channels -> Jobs \cup {None}]
    /\ persistence = [i \in DOMAIN persistence |-> persistence[i]]
    /\ \A i \in DOMAIN persistence : i \in Nat /\ persistence[i] \in Calls
    /\ counter \in Nat
    /\ fds \in Nat
    /\ tableRaced \in BOOLEAN
    /\ calls \in Nat
    /\ runs \in [Calls -> Nat]
    /\ returned \subseteq Calls
    /\ incarnation \in Nat
    /\ exits \in Nat

\* The response a thread is about to read answers the request that thread wrote,
\* with the result case its wrapper method expects, although neither frame
\* carries anything that ties it to the other (sendRequest, process_channel).
ResponseMatches ==
    \A t \in Threads :
        pc[t] = "read" =>
            \A i \in 1 .. Len(fromRecv[ChannelOf(t)]) :
                LET f == fromRecv[ChannelOf(t)][i] IN
                /\ f.call = req[t].call
                /\ f.result = Result(req[t].kind)

\* As long as the table was never raced on, an object the running receiver
\* created for the wrapper is in the table under the wrapper object's id, and is
\* still that object: nothing overwrites it, and the id was announced only after
\* the store (bindTo, the handlers' last line, process_channel).
HandlesLive ==
    alive /\ ~tableRaced =>
        \A h \in handles :
            h.inc = incarnation =>
                h.id \in DOMAIN persistence /\ persistence[h.id] = h.obj

\* A handler's lookup finds the object its caller meant.  With thread-local
\* channels this needs a receiver that was never restarted: a thread that opens
\* its channel afterwards sends ids of the old table to the new one.
TargetsResolve ==
    ~tableRaced /\ (MultiThreaded => incarnation = 0) =>
        \A c \in Channels :
            spc[c] = "process_request" /\ cur[c].target # None =>
                /\ Resolves(cur[c].target)
                /\ persistence[cur[c].target.id] = cur[c].target.obj

\* The unlocked table is safe while BlockingRequestGenerator is the only client:
\* its monitor also serialises the receiver's threads, until a wrapper process
\* that left a request behind is followed by another.
SingleConnectionNeverRaces == ~MultiThreaded /\ exits = 0 => ~tableRaced

\* The receiver process ends only for one of the reasons the code has: a method
\* without a handler, a wrapper process that went away, a race on the table, no
\* descriptor left, or ids from before a restart.
ReceiverSurvives ==
    [][alive /\ ~alive' =>
          \/ \E c \in Channels :
                spc[c] = "process_request" /\ cur[c].kind = "unknown"
          \/ exits > 0
          \/ tableRaced
          \/ fds = FdLimit
          \/ MultiThreaded /\ incarnation > 0]_vars

\* The library executes a call only while its caller waits for it, so a call
\* that ended in an exception has no effect later on; a wrapper process that
\* ends loses this guarantee for what it had sent.
NoLateExecution ==
    [][\A k \in Calls :
          runs'[k] # runs[k] =>
              \/ \E t \in Threads : pc[t] = "read" /\ req[t].call = k
              \/ exits > 0]_vars

\* The exchange is an at-most-once call: RemoteCalls, with the calls inside
\* makeRequest as the waiting ones.
Waiting == {req[t].call : t \in {u \in Threads : pc[u] # "idle"}}

Promise == INSTANCE RemoteCalls WITH issued <- calls, waiting <- Waiting

Implements == Promise!Spec

\* A thread that got as far as writing its request comes out of makeRequest, with
\* a response or an exception, unless the receiver's table was corrupted.  (A
\* thread waiting for the monitor has no such promise: monitors are not fair.)
CallEnds ==
    \A t \in Threads :
        pc[t] \in {"write", "read"} ~> pc[t] = "idle" \/ tableRaced

=============================================================================
