------------------------ MODULE RequestExchangeProofs ------------------------
(***************************************************************************)
(* Proofs about RequestExchange, for every set of threads and channels and *)
(* every value of the bounds.  The inductive invariant is built in layers: *)
(* types; who uses which channel; what is in flight on a channel; what the *)
(* object table holds; where a call is.  The action properties, and that    *)
(* RemoteCalls is implemented, follow from the same layers.                *)
(***************************************************************************)
EXTENDS RequestExchange, SequenceTheorems, TLAPS

-----------------------------------------------------------------------------
(* Layer 1: types, and the fields that are set where they are used.        *)

Keys == Threads \cup {Shared}

\* The receiver's thread holds a request it has not answered.
Busy(c) == spc[c] \in {"process_request", "store", "storing", "write_frame"}

\* Thread t holds its channel: it is between the monitor's two ends.
Using(t) == pc[t] \in {"write", "read"}

RequestSet == \A t \in Threads : pc[t] # "idle" => req[t] # None

JobSet == \A c \in Channels : Busy(c) => cur[c] # None

ChannelSet == \A t \in Threads : Using(t) => ChannelOf(t) # None

TypeInv == TypeOK /\ RequestSet /\ JobSet /\ ChannelSet

-----------------------------------------------------------------------------
(* Layer 2: every channel in use has one user.                             *)

\* A framing's channel is connected, or was until the receiver died.
FramingConnected ==
    \A k \in Keys : framing[k] # None => chan[framing[k]] \in {"open", "dead"}

\* No two framings share a channel.
FramingDistinct ==
    \A k, l \in Keys : k # l /\ framing[k] # None => framing[k] # framing[l]

\* BlockingRequestGenerator: whoever uses the channel owns the monitor.
MonitorHeld == ~MultiThreaded => \A t \in Threads : Using(t) => monitor = t

\* The receiver's threads serve connections that the receiver did not lose.
ServesConnected ==
    \A c \in Channels : spc[c] # "none" => alive /\ chan[c] \in {"open", "left"}

OpenAlive == \A c \in Channels : chan[c] \in {"open", "left"} => alive

OwnerInv ==
    FramingConnected /\ FramingDistinct /\ MonitorHeld /\ ServesConnected /\ OpenAlive

-----------------------------------------------------------------------------
(* Layer 3: on a channel its wrapper still has, request and response       *)
(* alternate.                                                              *)

Reads(t, c) == pc[t] = "read" /\ ChannelOf(t) = c

\* At most one of: a request on its way, a request being served, a response on
\* its way.
OneInFlight ==
    \A c \in Channels :
        chan[c] # "left" =>
            /\ toRecv[c] = <<>> \/ (Len(toRecv[c]) = 1 /\ ~Busy(c))
            /\ fromRecv[c] = <<>> \/ (Len(fromRecv[c]) = 1 /\ ~Busy(c))
            /\ toRecv[c] = <<>> \/ fromRecv[c] = <<>>

\* Nothing at all unless some thread is waiting for it.
QuietUnlessRead ==
    \A c \in Channels :
        chan[c] # "left" /\ (\A t \in Threads : ~Reads(t, c)) =>
            toRecv[c] = <<>> /\ fromRecv[c] = <<>> /\ ~Busy(c)

\* Whatever is in flight belongs to the thread that waits.
MatchesOn(t, c) ==
    /\ toRecv[c] # <<>> => toRecv[c][1] = req[t]
    /\ Busy(c) => cur[c].call = req[t].call /\ cur[c].kind = req[t].kind
    /\ fromRecv[c] # <<>> =>
          /\ fromRecv[c][1].call = req[t].call
          /\ fromRecv[c][1].result = Result(req[t].kind)

Matches == \A t \in Threads, c \in Channels : Reads(t, c) => MatchesOn(t, c)

\* Nothing is on its way to a wrapper that left, or to a receiver that died.
Drained ==
    \A c \in Channels :
        /\ chan[c] = "left" => fromRecv[c] = <<>>
        /\ chan[c] \in {"unused", "dead"} => toRecv[c] = <<>>

ExchangeInv == OneInFlight /\ QuietUnlessRead /\ Matches /\ Drained

-----------------------------------------------------------------------------
(* Layer 4: ids are fresh, and an id reaches the wrapper after its object   *)
(* is in the table.                                                        *)

\* Id i names object k in the table.
Holds(i, k) == i \in DOMAIN persistence /\ persistence[i] = k

\* The counter is ahead of every id in the table and of every job's id.
IdsBelowCounter ==
    /\ \A i \in DOMAIN persistence : i < counter
    /\ \A c \in Channels : Busy(c) => cur[c].id < counter

JobIdsDistinct ==
    \A c, d \in Channels : Busy(c) /\ Busy(d) /\ c # d => cur[c].id # cur[d].id

\* A job that still has to store its object finds its id free.
IdFreeUntilStored ==
    \A c \in Channels :
        spc[c] \in {"process_request", "store", "storing"} =>
            cur[c].id \notin DOMAIN persistence

\* On an intact table the object is stored before the response is written.
StoredBeforeWrite ==
    ~tableRaced =>
        \A c \in Channels :
            spc[c] = "write_frame" /\ cur[c].kind = "create" =>
                Holds(cur[c].id, cur[c].call)

\* ... and is still there when the thread that asked for it reads the response.
StoredBeforeRead ==
    alive /\ ~tableRaced =>
        \A t \in Threads, c \in Channels :
            /\ Reads(t, c)
            /\ req[t].kind = "create"
            /\ fromRecv[c] # <<>>
            /\ fromRecv[c][1].inc = incarnation
            => Holds(fromRecv[c][1].id, req[t].call)

\* Nothing comes from a future receiver.
IncarnationsPast ==
    /\ \A h \in handles : h.inc <= incarnation
    /\ \A c \in Channels : fromRecv[c] # <<>> => fromRecv[c][1].inc <= incarnation

ObjectInv ==
    /\ IdsBelowCounter /\ JobIdsDistinct /\ IdFreeUntilStored /\ StoredBeforeWrite
    /\ StoredBeforeRead /\ IncarnationsPast /\ HandlesLive

-----------------------------------------------------------------------------
(* Layer 5: one wrapper process with one channel has one receiver thread.   *)

SoleConnection ==
    ~MultiThreaded /\ exits = 0 =>
        \A c \in Channels : chan[c] # "unused" => framing[Shared] = c

RaceInv == SoleConnection /\ SingleConnectionNeverRaces

-----------------------------------------------------------------------------
(* Layer 6: the ids a request carries mean, when the handler looks them up, *)
(* what they meant when the wrapper got them.                               *)

Intact == ~tableRaced /\ (MultiThreaded => incarnation = 0)

Live(h) == h.inc = incarnation /\ Holds(h.id, h.obj)

TargetsHeld == \A t \in Threads : pc[t] # "idle" => req[t].target \in handles \cup {None}

AllTargetsLive(q) ==
    \A i \in 1 .. Len(q) : q[i].target # None => Live(q[i].target)

SentTargetsLive == Intact => \A c \in Channels : AllTargetsLive(toRecv[c])

ServedTargetsLive ==
    Intact => \A c \in Channels :
                 spc[c] = "process_request" /\ cur[c].target # None => Live(cur[c].target)

\* What arrives on a channel whose receiver runs comes from that receiver.
AnswersCurrent ==
    \A c \in Channels :
        chan[c] = "open" /\ fromRecv[c] # <<>> => fromRecv[c][1].inc = incarnation

\* BlockingRequestGenerator never reconnects: a wrapper process whose channel is
\* open has only objects of the receiver at its other end.
HandlesOfOpenChannel ==
    ~MultiThreaded =>
        /\ framing[Shared] = None => handles = {}
        /\ framing[Shared] # None /\ chan[framing[Shared]] = "open" =>
              \A h \in handles : h.inc = incarnation

TargetInv ==
    /\ TargetsHeld /\ SentTargetsLive /\ ServedTargetsLive
    /\ AnswersCurrent /\ HandlesOfOpenChannel

-----------------------------------------------------------------------------
\* Every way the receiver dies is the same step, and every way a call fails
\* without a response is the same step.
CallFails(t) ==
    /\ pc[t] # "idle"
    /\ pc[t] = "read" => chan[ChannelOf(t)] = "dead" /\ fromRecv[ChannelOf(t)] = <<>>
    /\ EndCall(t)
    /\ UNCHANGED <<framing, handles, socketVars, receiverVars, historyVars>>

LEMMA StepCases ==
    ASSUME [Next]_vars
    PROVE  \/ \E t \in Threads :
                 \/ StartCall(t) \/ Connect(t) \/ Acquire(t) \/ WriteRequest(t)
                 \/ ReadResponse(t) \/ CallFails(t)
           \/ \E c \in Channels :
                 \/ Accept(c) \/ ReadFrame(c) \/ ConnectionClosed(c) \/ Execute(c)
                 \/ BeginStore(c) \/ EndStore(c) \/ StoreLost(c) \/ TableHang(c)
                 \/ WriteFrame(c)
           \/ Terminate \/ WrapperExit \/ ReceiverRestart \/ UNCHANGED vars
<1>1. ASSUME NEW t \in Threads, InCall(t)
      PROVE  \/ Connect(t) \/ Acquire(t) \/ WriteRequest(t) \/ ReadResponse(t)
             \/ CallFails(t)
  BY <1>1 DEF InCall, CallFails, ConnectFails, WriteFails, ReadFails
<1>2. ASSUME NEW c \in Channels, Serve(c)
      PROVE  \/ ReadFrame(c) \/ ConnectionClosed(c) \/ Execute(c)
             \/ BeginStore(c) \/ EndStore(c) \/ StoreLost(c) \/ TableHang(c)
             \/ WriteFrame(c) \/ Terminate
  BY <1>2 DEF Serve, NoHandler, NullDereference, TableCrash, BrokenPipe
<1>3. AcceptFails => Terminate
  BY DEF AcceptFails
<1>4. Quiescent => UNCHANGED vars
  BY DEF Quiescent
<1>5. QED
  BY <1>1, <1>2, <1>3, <1>4 DEF Next

LEMMA TypeInvInit == Init => TypeInv
<1> SUFFICES ASSUME Init PROVE TypeInv
  OBVIOUS
<1>1. /\ pc \in [Threads -> {"idle", "enter", "write", "read"}]
      /\ req \in [Threads -> Requests \cup {None}]
      /\ monitor \in Threads \cup {None}
      /\ framing \in [Threads \cup {Shared} -> Channels \cup {None}]
      /\ handles \subseteq Handles
      /\ calls \in Nat
      /\ runs \in [Calls -> Nat]
      /\ returned \subseteq Calls
      /\ incarnation \in Nat
      /\ exits \in Nat
  BY DEF Init
<1>2. /\ chan \in [Channels -> {"unused", "open", "left", "dead"}]
      /\ toRecv \in [Channels -> Seq(Requests)]
      /\ fromRecv \in [Channels -> Seq(Responses)]
      /\ spc \in [Channels -> ReceiverSteps]
      /\ cur \in [Channels -> Jobs \cup {None}]
      /\ counter \in Nat
      /\ fds \in Nat
  BY DEF Init, ReceiverSteps
<1>3. alive \in BOOLEAN /\ tableRaced \in BOOLEAN
  BY DEF Init
<1>4. /\ persistence = [i \in DOMAIN persistence |-> persistence[i]]
      /\ \A i \in DOMAIN persistence : i \in Nat /\ persistence[i] \in Calls
  BY DEF Init, EmptyTable
<1>5. RequestSet /\ JobSet /\ ChannelSet
  BY DEF Init, RequestSet, JobSet, ChannelSet, Busy, Using
<1>6. QED
  BY <1>1, <1>2, <1>3, <1>4, <1>5 DEF TypeInv, TypeOK

\* TypeOK by groups of variables, so that a step is looked at only where it writes.
WrapperTypes ==
    /\ pc \in [Threads -> {"idle", "enter", "write", "read"}]
    /\ req \in [Threads -> Requests \cup {None}]
    /\ monitor \in Threads \cup {None}
    /\ framing \in [Threads \cup {Shared} -> Channels \cup {None}]
    /\ handles \subseteq Handles

SocketTypes ==
    /\ chan \in [Channels -> {"unused", "open", "left", "dead"}]
    /\ toRecv \in [Channels -> Seq(Requests)]
    /\ fromRecv \in [Channels -> Seq(Responses)]

ReceiverTypes ==
    /\ alive \in BOOLEAN
    /\ spc \in [Channels -> ReceiverSteps]
    /\ cur \in [Channels -> Jobs \cup {None}]
    /\ persistence = [i \in DOMAIN persistence |-> persistence[i]]
    /\ \A i \in DOMAIN persistence : i \in Nat /\ persistence[i] \in Calls
    /\ counter \in Nat
    /\ fds \in Nat
    /\ tableRaced \in BOOLEAN

HistoryTypes ==
    /\ calls \in Nat
    /\ runs \in [Calls -> Nat]
    /\ returned \subseteq Calls
    /\ incarnation \in Nat
    /\ exits \in Nat

LEMMA TypeGroups ==
    /\ TypeOK => WrapperTypes /\ SocketTypes /\ ReceiverTypes /\ HistoryTypes
    /\ WrapperTypes' /\ SocketTypes' /\ ReceiverTypes' /\ HistoryTypes' => TypeOK'
BY DEF TypeOK, WrapperTypes, SocketTypes, ReceiverTypes, HistoryTypes

LEMMA TypesKept ==
    /\ WrapperTypes /\ UNCHANGED wrapperVars => WrapperTypes'
    /\ SocketTypes /\ UNCHANGED socketVars => SocketTypes'
    /\ ReceiverTypes /\ UNCHANGED receiverVars => ReceiverTypes'
    /\ HistoryTypes /\ UNCHANGED historyVars => HistoryTypes'
BY DEF WrapperTypes, SocketTypes, ReceiverTypes, HistoryTypes,
       wrapperVars, socketVars, receiverVars, historyVars

LEMMA TypesStep == TypeInv /\ [Next]_vars => TypeOK'
<1> SUFFICES ASSUME TypeInv, [Next]_vars PROVE TypeOK'
  OBVIOUS
<1> USE DEF wrapperVars, socketVars, receiverVars, historyVars
<1>0. /\ WrapperTypes /\ SocketTypes /\ ReceiverTypes /\ HistoryTypes
      /\ RequestSet /\ JobSet /\ ChannelSet
  BY TypeGroups DEF TypeInv
<1>1. ASSUME NEW t \in Threads, StartCall(t) PROVE TypeOK'
  <2>1. PICK kind \in Kinds, target \in handles \cup {None} :
           req' = [req EXCEPT ![t] = [call |-> calls, kind |-> kind, target |-> target]]
    BY <1>1 DEF StartCall
  <2>2. [call |-> calls, kind |-> kind, target |-> target] \in Requests
    BY <1>0, <1>1, ConstantsAssumption
    DEF StartCall, Requests, Calls, WrapperTypes, HistoryTypes
  <2>3. WrapperTypes'
    BY <1>0, <1>1, <2>1, <2>2 DEF StartCall, WrapperTypes
  <2>4. HistoryTypes'
    BY <1>0, <1>1 DEF StartCall, HistoryTypes
  <2>5. QED
    BY <1>0, <1>1, <2>3, <2>4, TypesKept, TypeGroups DEF StartCall
<1>2. ASSUME NEW t \in Threads, Connect(t) PROVE TypeOK'
  <2>1. WrapperTypes'
    BY <1>0, <1>2, ConstantsAssumption DEF Connect, WrapperTypes, Key
  <2>2. SocketTypes'
    BY <1>0, <1>2 DEF Connect, SocketTypes
  <2>3. QED
    BY <1>0, <1>2, <2>1, <2>2, TypesKept, TypeGroups DEF Connect
<1>3. ASSUME NEW t \in Threads, Acquire(t) PROVE TypeOK'
  <2>1. WrapperTypes'
    BY <1>0, <1>3 DEF Acquire, WrapperTypes
  <2>2. QED
    BY <1>0, <1>3, <2>1, TypesKept, TypeGroups DEF Acquire
<1>4. ASSUME NEW t \in Threads, WriteRequest(t) PROVE TypeOK'
  <2>1. req[t] \in Requests
    BY <1>0, <1>4 DEF WriteRequest, WrapperTypes, RequestSet
  <2>2. toRecv' \in [Channels -> Seq(Requests)]
    <3>1. ChannelOf(t) \in Channels
      BY <1>0, <1>4, ConstantsAssumption
      DEF WriteRequest, WrapperTypes, ChannelSet, Using, ChannelOf, Key
    <3>2. Append(toRecv[ChannelOf(t)], req[t]) \in Seq(Requests)
      BY <1>0, <2>1, <3>1 DEF SocketTypes
    <3>3. QED
      BY <1>0, <1>4, <3>1, <3>2 DEF WriteRequest, SocketTypes
  <2>3. WrapperTypes' /\ SocketTypes'
    BY <1>0, <1>4, <2>2 DEF WriteRequest, WrapperTypes, SocketTypes
  <2>4. QED
    BY <1>0, <1>4, <2>3, TypesKept, TypeGroups DEF WriteRequest
<1>5. ASSUME NEW t \in Threads, ReadResponse(t) PROVE TypeOK'
  <2> DEFINE c == ChannelOf(t)
             f == Head(fromRecv[c])
  <2>1. c \in Channels
    BY <1>0, <1>5, ConstantsAssumption
    DEF ReadResponse, WrapperTypes, ChannelSet, Using, ChannelOf, Key
  <2>2. f \in Responses /\ Tail(fromRecv[c]) \in Seq(Responses)
    BY <1>0, <1>5, <2>1 DEF ReadResponse, SocketTypes
  <2>3. req[t] \in Requests
    BY <1>0, <1>5 DEF ReadResponse, WrapperTypes, RequestSet
  <2>4. [id |-> f.id, obj |-> req[t].call, inc |-> f.inc] \in Handles /\ req[t].call \in Calls
    BY <2>2, <2>3 DEF Handles, Responses, Requests
  <2>5. handles' \subseteq Handles
    BY <1>0, <1>5, <2>4 DEF ReadResponse, WrapperTypes
  <2>6. WrapperTypes'
    BY <1>0, <1>5, <2>5 DEF ReadResponse, EndCall, WrapperTypes
  <2>7. SocketTypes'
    BY <1>0, <1>5, <2>2 DEF ReadResponse, SocketTypes
  <2>8. HistoryTypes'
    BY <1>0, <1>5, <2>4 DEF ReadResponse, HistoryTypes
  <2>9. QED
    BY <1>0, <1>5, <2>6, <2>7, <2>8, TypesKept, TypeGroups DEF ReadResponse
<1>6. ASSUME NEW t \in Threads, CallFails(t) PROVE TypeOK'
  <2>1. WrapperTypes'
    BY <1>0, <1>6 DEF CallFails, EndCall, WrapperTypes
  <2>2. QED
    BY <1>0, <1>6, <2>1, TypesKept, TypeGroups DEF CallFails
<1>7. ASSUME NEW c \in Channels, Accept(c) PROVE TypeOK'
  <2>1. ReceiverTypes'
    BY <1>0, <1>7 DEF Accept, ReceiverTypes, ReceiverSteps
  <2>2. QED
    BY <1>0, <1>7, <2>1, TypesKept, TypeGroups DEF Accept
<1>8. ASSUME NEW c \in Channels, ReadFrame(c) PROVE TypeOK'
  <2> DEFINE r == Head(toRecv[c])
  <2>1. r \in Requests /\ Tail(toRecv[c]) \in Seq(Requests)
    BY <1>0, <1>8 DEF ReadFrame, SocketTypes
  <2>2. [call |-> r.call, kind |-> r.kind, target |-> r.target, id |-> counter] \in Jobs
    BY <1>0, <2>1 DEF Requests, Jobs, ReceiverTypes
  <2>3. ReceiverTypes'
    BY <1>0, <1>8, <2>2 DEF ReadFrame, ReceiverTypes, ReceiverSteps
  <2>4. SocketTypes'
    BY <1>0, <1>8, <2>1 DEF ReadFrame, SocketTypes
  <2>5. QED
    BY <1>0, <1>8, <2>3, <2>4, TypesKept, TypeGroups DEF ReadFrame
<1>9. ASSUME NEW c \in Channels, ConnectionClosed(c) PROVE TypeOK'
  <2>1. ReceiverTypes'
    BY <1>0, <1>9 DEF ConnectionClosed, ReceiverTypes, ReceiverSteps
  <2>2. QED
    BY <1>0, <1>9, <2>1, TypesKept, TypeGroups DEF ConnectionClosed
<1>10. ASSUME NEW c \in Channels, Execute(c) PROVE TypeOK'
  <2>1. cur[c].call \in Calls
    BY <1>0, <1>10 DEF Execute, ReceiverTypes, JobSet, Busy, Jobs
  <2>2. HistoryTypes'
    BY <1>0, <1>10, <2>1 DEF Execute, HistoryTypes
  <2>3. spc' \in [Channels -> ReceiverSteps] /\ tableRaced' \in BOOLEAN
    BY <1>0, <1>10 DEF Execute, ReceiverTypes, ReceiverSteps
  <2>4. ReceiverTypes'
    BY <1>0, <1>10, <2>3 DEF Execute, ReceiverTypes
  <2>5. QED
    BY <1>0, <1>10, <2>2, <2>4, TypesKept, TypeGroups DEF Execute
<1>11. ASSUME NEW c \in Channels, BeginStore(c) PROVE TypeOK'
  <2>1. spc' \in [Channels -> ReceiverSteps] /\ tableRaced' \in BOOLEAN
    BY <1>0, <1>11 DEF BeginStore, ReceiverTypes, ReceiverSteps
  <2>2. ReceiverTypes'
    BY <1>0, <1>11, <2>1 DEF BeginStore, ReceiverTypes
  <2>3. QED
    BY <1>0, <1>11, <2>2, TypesKept, TypeGroups DEF BeginStore
<1>12. ASSUME NEW c \in Channels, EndStore(c) PROVE TypeOK'
  <2>1. cur[c].id \in Nat /\ cur[c].call \in Calls
    BY <1>0, <1>12 DEF EndStore, Storing, ReceiverTypes, JobSet, Busy, Jobs
  <2>2. /\ persistence' = [i \in DOMAIN persistence' |-> persistence'[i]]
        /\ \A i \in DOMAIN persistence' : i \in Nat /\ persistence'[i] \in Calls
    BY <1>0, <1>12, <2>1 DEF EndStore, Put, ReceiverTypes
  <2>3. spc' \in [Channels -> ReceiverSteps]
    BY <1>0, <1>12 DEF EndStore, ReceiverTypes, ReceiverSteps
  <2>4. ReceiverTypes'
    BY <1>0, <1>12, <2>2, <2>3 DEF EndStore, ReceiverTypes
  <2>5. QED
    BY <1>0, <1>12, <2>4, TypesKept, TypeGroups DEF EndStore
<1>13. ASSUME NEW c \in Channels, StoreLost(c) PROVE TypeOK'
  <2>1. ReceiverTypes'
    BY <1>0, <1>13 DEF StoreLost, ReceiverTypes, ReceiverSteps
  <2>2. QED
    BY <1>0, <1>13, <2>1, TypesKept, TypeGroups DEF StoreLost
<1>14. ASSUME NEW c \in Channels, TableHang(c) PROVE TypeOK'
  <2>1. ReceiverTypes'
    BY <1>0, <1>14 DEF TableHang, ReceiverTypes, ReceiverSteps
  <2>2. QED
    BY <1>0, <1>14, <2>1, TypesKept, TypeGroups DEF TableHang
<1>15. ASSUME NEW c \in Channels, WriteFrame(c) PROVE TypeOK'
  <2> DEFINE f == [call |-> cur[c].call, result |-> Result(cur[c].kind),
                   id |-> cur[c].id, inc |-> incarnation]
  <2>1. cur[c] \in Jobs
    BY <1>0, <1>15 DEF WriteFrame, ReceiverTypes, JobSet, Busy
  <2>2. f \in Responses
    BY <1>0, <2>1 DEF Jobs, Responses, Result, HistoryTypes
  <2>3. SocketTypes'
    BY <1>0, <1>15, <2>2 DEF WriteFrame, SocketTypes
  <2>4. ReceiverTypes'
    BY <1>0, <1>15 DEF WriteFrame, ReceiverTypes, ReceiverSteps
  <2>5. QED
    BY <1>0, <1>15, <2>3, <2>4, TypesKept, TypeGroups DEF WriteFrame
<1>16. CASE Terminate
  <2>1. /\ persistence' = [i \in DOMAIN persistence' |-> persistence'[i]]
        /\ \A i \in DOMAIN persistence' : i \in Nat /\ persistence'[i] \in Calls
    BY <1>16 DEF Terminate, EmptyTable
  <2>2. alive' \in BOOLEAN /\ tableRaced' \in BOOLEAN
    BY <1>0, <1>16 DEF Terminate, ReceiverTypes
  <2>3. ReceiverTypes'
    BY <1>0, <1>16, <2>1, <2>2 DEF Terminate, ReceiverTypes, ReceiverSteps
  <2>4. SocketTypes'
    BY <1>0, <1>16 DEF Terminate, SocketTypes
  <2>5. QED
    BY <1>0, <1>16, <2>3, <2>4, TypesKept, TypeGroups DEF Terminate
<1>17. CASE WrapperExit
  <2>1. WrapperTypes'
    BY <1>0, <1>17 DEF WrapperExit, WrapperTypes
  <2>2. SocketTypes'
    BY <1>0, <1>17 DEF WrapperExit, SocketTypes
  <2>3. HistoryTypes'
    BY <1>0, <1>17 DEF WrapperExit, HistoryTypes
  <2>4. QED
    BY <1>0, <1>17, <2>1, <2>2, <2>3, TypesKept, TypeGroups DEF WrapperExit
<1>18. CASE ReceiverRestart
  <2>1. alive' \in BOOLEAN /\ tableRaced' \in BOOLEAN
    BY <1>18 DEF ReceiverRestart
  <2>2. ReceiverTypes'
    BY <1>0, <1>18, <2>1 DEF ReceiverRestart, ReceiverTypes
  <2>3. HistoryTypes'
    BY <1>0, <1>18 DEF ReceiverRestart, HistoryTypes
  <2>4. QED
    BY <1>0, <1>18, <2>2, <2>3, TypesKept, TypeGroups DEF ReceiverRestart
<1>19. CASE UNCHANGED vars
  BY <1>0, <1>19, TypesKept, TypeGroups DEF vars
<1>20. QED
  BY <1>1, <1>2, <1>3, <1>4, <1>5, <1>6, <1>7, <1>8, <1>9, <1>10, <1>11, <1>12,
     <1>13, <1>14, <1>15, <1>16, <1>17, <1>18, <1>19, StepCases

LEMMA SetStep ==
    TypeInv /\ [Next]_vars => RequestSet' /\ JobSet' /\ ChannelSet'
<1> SUFFICES ASSUME TypeInv, [Next]_vars PROVE RequestSet' /\ JobSet' /\ ChannelSet'
  OBVIOUS
<1> DEFINE Goal == RequestSet /\ JobSet /\ ChannelSet
<1>0. /\ pc \in [Threads -> {"idle", "enter", "write", "read"}]
      /\ req \in [Threads -> Requests \cup {None}]
      /\ framing \in [Threads \cup {Shared} -> Channels \cup {None}]
      /\ spc \in [Channels -> ReceiverSteps]
      /\ cur \in [Channels -> Jobs \cup {None}]
      /\ Goal
  BY DEF TypeInv, TypeOK
<1>1. cur' \in [Channels -> Jobs \cup {None}]
  BY TypesStep DEF TypeOK
<1> USE <1>0 DEF RequestSet, JobSet, ChannelSet, Busy, Using, ChannelOf, Key,
                 vars, wrapperVars, socketVars, receiverVars, historyVars
<1>2. ASSUME NEW t \in Threads, StartCall(t) PROVE Goal'
  <2>1. req'[t] # None
    <3>1. PICK kind \in Kinds, target \in handles \cup {None} :
             req' = [req EXCEPT ![t] = [call |-> calls, kind |-> kind, target |-> target]]
      BY <1>2 DEF StartCall
    <3>2. [call |-> calls, kind |-> kind, target |-> target] \in Requests
      BY <1>2, ConstantsAssumption DEF StartCall, TypeInv, TypeOK, Requests, Calls
    <3>3. QED
      BY <3>1, <3>2, NoneAssumption
  <2>2. \A u \in Threads \ {t} : pc'[u] = pc[u] /\ req'[u] = req[u]
    BY <1>2 DEF StartCall
  <2>3. QED
    BY <1>2, <2>1, <2>2 DEF StartCall
<1>3. ASSUME NEW t \in Threads, Connect(t) PROVE Goal'
  BY <1>3, NoneAssumption, ConstantsAssumption DEF Connect
<1>4. ASSUME NEW t \in Threads, Acquire(t) \/ WriteRequest(t) PROVE Goal'
  BY <1>4 DEF Acquire, WriteRequest
<1>5. ASSUME NEW t \in Threads, ReadResponse(t) \/ CallFails(t) PROVE Goal'
  BY <1>5 DEF ReadResponse, CallFails, EndCall
<1>6. ASSUME NEW c \in Channels, Accept(c) \/ ConnectionClosed(c) PROVE Goal'
  BY <1>6 DEF Accept, ConnectionClosed
<1>7. ASSUME NEW c \in Channels, ReadFrame(c) PROVE Goal'
  <2>1. cur'[c] # None
    <3> DEFINE r == Head(toRecv[c])
    <3>1. r \in Requests /\ counter \in Nat
      BY <1>7 DEF ReadFrame, TypeInv, TypeOK
    <3>2. [call |-> r.call, kind |-> r.kind, target |-> r.target, id |-> counter] \in Jobs
      BY <3>1 DEF Requests, Jobs
    <3>3. QED
      BY <1>7, <3>2, NoneAssumption DEF ReadFrame
  <2>2. QED
    BY <1>7, <2>1 DEF ReadFrame
<1>8. ASSUME NEW c \in Channels, Execute(c) \/ BeginStore(c) PROVE Goal'
  BY <1>8 DEF Execute, BeginStore
<1>9. ASSUME NEW c \in Channels, EndStore(c) \/ StoreLost(c) \/ TableHang(c) PROVE Goal'
  BY <1>9 DEF EndStore, StoreLost, TableHang, Storing, UsesTable
<1>10. ASSUME NEW c \in Channels, WriteFrame(c) PROVE Goal'
  BY <1>10 DEF WriteFrame
<1>11. CASE Terminate \/ WrapperExit \/ ReceiverRestart \/ UNCHANGED vars
  BY <1>11 DEF Terminate, WrapperExit, ReceiverRestart
<1>12. QED
  BY <1>2, <1>3, <1>4, <1>5, <1>6, <1>7, <1>8, <1>9, <1>10, <1>11, StepCases

LEMMA TypeInvStep == TypeInv /\ [Next]_vars => TypeInv'
BY TypesStep, SetStep DEF TypeInv

\* Every reachable state is well typed, and requests, jobs and channels are set
\* where sendRequest and process_channel use them.
THEOREM TypeCorrect == Spec => []TypeOK
<1>1. Init => TypeInv
  BY TypeInvInit
<1>2. TypeInv /\ [Next]_vars => TypeInv'
  BY TypeInvStep
<1>3. TypeInv => TypeOK
  BY DEF TypeInv
<1>4. QED
  BY <1>1, <1>2, <1>3, PTL DEF Spec

-----------------------------------------------------------------------------
LEMMA OwnerInvInit == Init => OwnerInv
BY NoneAssumption
DEF Init, OwnerInv, FramingConnected, FramingDistinct, MonitorHeld, ServesConnected,
    OpenAlive, Keys, Using

LEMMA OwnerInvStep == TypeInv /\ OwnerInv /\ [Next]_vars => OwnerInv'
<1> SUFFICES ASSUME TypeInv, OwnerInv, [Next]_vars PROVE OwnerInv'
  OBVIOUS
<1> USE NoneAssumption, ConstantsAssumption
    DEF TypeInv, TypeOK, ChannelSet, OwnerInv, FramingConnected, FramingDistinct,
        MonitorHeld, ServesConnected, OpenAlive, Keys, Using, ChannelOf, Key,
        vars, wrapperVars, socketVars, receiverVars, historyVars
<1>1. ASSUME NEW t \in Threads, StartCall(t) PROVE OwnerInv'
  BY <1>1 DEF StartCall
<1>2. ASSUME NEW t \in Threads, Connect(t) PROVE OwnerInv'
  <2>1. PICK c \in Channels :
           /\ chan[c] = "unused"
           /\ chan' = [chan EXCEPT ![c] = "open"]
           /\ framing' = [framing EXCEPT ![Key(t)] = c]
    BY <1>2 DEF Connect
  <2>2. Key(t) \in Keys /\ framing[Key(t)] = None
    BY <1>2 DEF Connect
  <2>3. ASSUME NEW k \in Keys, framing[k] = c PROVE FALSE
    <3>1. framing[k] # None
      BY <2>3
    <3>2. QED
      BY <2>1, <2>3, <3>1
  <2>4. FramingConnected'
    BY <2>1, <2>2
  <2>5. FramingDistinct'
    BY <2>1, <2>2, <2>3
  <2>6. MonitorHeld' /\ ServesConnected' /\ OpenAlive'
    BY <1>2, <2>1 DEF Connect
  <2>7. QED
    BY <2>4, <2>5, <2>6
<1>3. ASSUME NEW t \in Threads, Acquire(t) PROVE OwnerInv'
  BY <1>3 DEF Acquire
<1>4. ASSUME NEW t \in Threads, WriteRequest(t) PROVE OwnerInv'
  BY <1>4 DEF WriteRequest
<1>5. ASSUME NEW t \in Threads, ReadResponse(t) PROVE OwnerInv'
  BY <1>5 DEF ReadResponse, EndCall
<1>6. ASSUME NEW t \in Threads, CallFails(t) PROVE OwnerInv'
  BY <1>6 DEF CallFails, EndCall
<1>7. ASSUME NEW c \in Channels, Accept(c) PROVE OwnerInv'
  BY <1>7 DEF Accept
<1>8. ASSUME NEW c \in Channels, ReadFrame(c) PROVE OwnerInv'
  BY <1>8 DEF ReadFrame
<1>9. ASSUME NEW c \in Channels, ConnectionClosed(c) PROVE OwnerInv'
  BY <1>9 DEF ConnectionClosed
<1>10. ASSUME NEW c \in Channels, Execute(c) PROVE OwnerInv'
  BY <1>10 DEF Execute
<1>11. ASSUME NEW c \in Channels, BeginStore(c) PROVE OwnerInv'
  BY <1>11 DEF BeginStore
<1>12. ASSUME NEW c \in Channels, EndStore(c) PROVE OwnerInv'
  BY <1>12 DEF EndStore, Storing
<1>13. ASSUME NEW c \in Channels, StoreLost(c) PROVE OwnerInv'
  BY <1>13 DEF StoreLost, Storing
<1>14. ASSUME NEW c \in Channels, TableHang(c) PROVE OwnerInv'
  BY <1>14 DEF TableHang, UsesTable
<1>15. ASSUME NEW c \in Channels, WriteFrame(c) PROVE OwnerInv'
  BY <1>15 DEF WriteFrame
<1>16. CASE Terminate
  <2>1. ASSUME NEW k \in Keys, framing'[k] # None
        PROVE  chan'[framing'[k]] \in {"open", "dead"}
    <3>1. framing'[k] = framing[k] /\ framing[k] \in Channels
      BY <1>16, <2>1 DEF Terminate
    <3>2. chan[framing[k]] # "unused"
      BY <2>1, <3>1
    <3>3. QED
      BY <1>16, <3>1, <3>2 DEF Terminate
  <2>2. FramingDistinct' /\ MonitorHeld'
    BY <1>16 DEF Terminate
  <2>3. \A c \in Channels : spc'[c] = "none" /\ chan'[c] \in {"unused", "dead"}
    BY <1>16 DEF Terminate
  <2>4. QED
    BY <2>1, <2>2, <2>3
<1>17. CASE WrapperExit
  BY <1>17 DEF WrapperExit
<1>18. CASE ReceiverRestart
  BY <1>18 DEF ReceiverRestart
<1>19. CASE UNCHANGED vars
  BY <1>19
<1>20. QED
  BY <1>1, <1>2, <1>3, <1>4, <1>5, <1>6, <1>7, <1>8, <1>9, <1>10, <1>11,
     <1>12, <1>13, <1>14, <1>15, <1>16, <1>17, <1>18, <1>19, StepCases

\* Whoever uses a channel uses it alone: by the monitor, or because the framing
\* is the thread's own.
LEMMA OneUser ==
    ASSUME TypeInv, OwnerInv, NEW t \in Threads, NEW u \in Threads,
           Using(t), Using(u), ChannelOf(t) = ChannelOf(u)
    PROVE  t = u
BY ConstantsAssumption
DEF TypeInv, ChannelSet, OwnerInv, FramingDistinct, MonitorHeld, Keys, ChannelOf, Key

-----------------------------------------------------------------------------
LEMMA SingletonSeq ==
    ASSUME NEW S, NEW q \in Seq(S), q # <<>>
    PROVE  /\ Head(q) = q[1]
           /\ Len(q) = 1 => Tail(q) = <<>>
<1>1. Head(q) = q[1]
  OBVIOUS
<1>2. Tail(q) \in Seq(S) /\ Len(Tail(q)) = Len(q) - 1
  BY HeadTailProperties
<1>3. Tail(q) # <<>> => Len(Tail(q)) \in Nat \ {0}
  BY <1>2, EmptySeq
<1>4. QED
  BY <1>1, <1>2, <1>3

LEMMA AppendToEmpty ==
    ASSUME NEW S, NEW x \in S
    PROVE  Append(<<>>, x) # <<>> /\ Len(Append(<<>>, x)) = 1 /\ Append(<<>>, x)[1] = x
OBVIOUS

LEMMA ExchangeInvInit == Init => ExchangeInv
BY DEF Init, ExchangeInv, OneInFlight, QuietUnlessRead, Matches, MatchesOn, Drained,
       Reads, Busy

\* Opening a channel leaves every waiting thread on the channel it waits on.
LEMMA ConnectKeepsReads ==
    ASSUME TypeInv, NEW t \in Threads, Connect(t),
           NEW u \in Threads, NEW d \in Channels
    PROVE  Reads(u, d)' <=> Reads(u, d)
<1>1. PICK c \in Channels : framing' = [framing EXCEPT ![Key(t)] = c]
  BY DEF Connect, Key
<1>2. framing[Key(t)] = None /\ pc' = pc
  BY DEF Connect, ChannelOf
<1>3. ASSUME pc[u] = "read" PROVE framing'[Key(u)] = framing[Key(u)]
  <2>1. framing[Key(u)] # None
    BY <1>3 DEF TypeInv, ChannelSet, Using, ChannelOf
  <2>2. QED
    BY <1>1, <1>2, <2>1 DEF TypeInv, TypeOK, Key
<1>4. QED
  BY <1>2, <1>3 DEF Reads, ChannelOf, Key

\* A thread about to write finds its channel quiet.
LEMMA WriterFindsQuiet ==
    ASSUME TypeInv, OwnerInv, ExchangeInv, NEW t \in Threads, WriteRequest(t)
    PROVE  LET c == ChannelOf(t) IN
           /\ c \in Channels /\ chan[c] = "open"
           /\ \A u \in Threads : ~Reads(u, c)
           /\ toRecv[c] = <<>> /\ fromRecv[c] = <<>> /\ ~Busy(c)
<1> DEFINE c == ChannelOf(t)
<1>1. c \in Channels /\ chan[c] = "open" /\ pc[t] = "write"
  BY NoneAssumption DEF WriteRequest, TypeInv, TypeOK, ChannelSet, Using, ChannelOf, Key
<1>2. \A u \in Threads : ~Reads(u, c)
  BY <1>1, OneUser DEF Reads, Using
<1>3. QED
  BY <1>1, <1>2 DEF ExchangeInv, QuietUnlessRead

\* A thread that reads a response leaves its channel quiet.
LEMMA ReaderLeavesQuiet ==
    ASSUME TypeInv, OwnerInv, ExchangeInv, NEW t \in Threads, ReadResponse(t)
    PROVE  LET c == ChannelOf(t) IN
           /\ c \in Channels /\ Reads(t, c) /\ chan[c] # "left"
           /\ toRecv[c] = <<>> /\ ~Busy(c)
           /\ Head(fromRecv[c]) = fromRecv[c][1]
           /\ fromRecv' = [fromRecv EXCEPT ![c] = <<>>]
<1> DEFINE c == ChannelOf(t)
<1>1. c \in Channels /\ Reads(t, c) /\ chan[c] # "left"
  BY NoneAssumption
  DEF ReadResponse, TypeInv, TypeOK, ChannelSet, Using, OwnerInv, FramingConnected, Keys,
      Reads, ChannelOf, Key
<1>2. fromRecv[c] # <<>> /\ fromRecv[c] \in Seq(Responses)
  BY <1>1 DEF ReadResponse, TypeInv, TypeOK
<1>3. toRecv[c] = <<>> /\ Len(fromRecv[c]) = 1 /\ ~Busy(c)
  BY <1>1, <1>2 DEF ExchangeInv, OneInFlight
<1>4. Head(fromRecv[c]) = fromRecv[c][1] /\ Tail(fromRecv[c]) = <<>>
  BY <1>2, <1>3, SingletonSeq
<1>5. QED
  BY <1>1, <1>3, <1>4 DEF ReadResponse

LEMMA ExchangeInvStep == TypeInv /\ OwnerInv /\ ExchangeInv /\ [Next]_vars => ExchangeInv'
<1> SUFFICES ASSUME TypeInv, OwnerInv, ExchangeInv, [Next]_vars PROVE ExchangeInv'
  OBVIOUS
<1> USE NoneAssumption, ConstantsAssumption
    DEF TypeInv, TypeOK, RequestSet, JobSet, ChannelSet, ExchangeInv, OneInFlight,
        QuietUnlessRead, Matches, MatchesOn, Drained, Busy,
        vars, wrapperVars, socketVars, receiverVars, historyVars
<1>1. ASSUME NEW t \in Threads, StartCall(t) PROVE ExchangeInv'
  <2>1. /\ pc[t] = "idle"
        /\ pc' = [pc EXCEPT ![t] = "enter"]
        /\ \A u \in Threads \ {t} : req'[u] = req[u]
        /\ UNCHANGED <<framing, chan, toRecv, fromRecv, spc, cur>>
    BY <1>1 DEF StartCall
  <2>2. \A u \in Threads, d \in Channels :
           /\ Reads(u, d)' <=> Reads(u, d)
           /\ Reads(u, d) => u # t
    BY <2>1 DEF Reads, ChannelOf
  <2>3. OneInFlight' /\ Drained'
    BY <2>1
  <2>4. QuietUnlessRead'
    BY <2>1, <2>2
  <2>5. Matches'
    BY <2>1, <2>2
  <2>6. QED
    BY <2>3, <2>4, <2>5
<1>2. ASSUME NEW t \in Threads, Connect(t) PROVE ExchangeInv'
  <2>1. PICK c \in Channels :
           /\ chan[c] = "unused"
           /\ chan' = [chan EXCEPT ![c] = "open"]
    BY <1>2 DEF Connect
  <2>2. UNCHANGED <<pc, req, toRecv, fromRecv, spc, cur>>
    BY <1>2 DEF Connect
  <2>4. \A u \in Threads, d \in Channels : Reads(u, d)' <=> Reads(u, d)
    BY <1>2, ConnectKeepsReads
  <2>5. OneInFlight' /\ Drained'
    BY <2>1, <2>2
  <2>6. QuietUnlessRead'
    BY <2>1, <2>2, <2>4
  <2>7. Matches'
    BY <2>2, <2>4
  <2>8. QED
    BY <2>5, <2>6, <2>7
<1>3. ASSUME NEW t \in Threads, Acquire(t) PROVE ExchangeInv'
  BY <1>3 DEF Acquire, Reads, ChannelOf
<1>4. ASSUME NEW t \in Threads, WriteRequest(t) PROVE ExchangeInv'
  <2> DEFINE c == ChannelOf(t)
  <2>1. /\ c \in Channels /\ chan[c] = "open" /\ pc[t] = "write"
        /\ toRecv' = [toRecv EXCEPT ![c] = Append(@, req[t])]
        /\ pc' = [pc EXCEPT ![t] = "read"]
        /\ UNCHANGED <<req, framing, chan, fromRecv, spc, cur>>
    BY <1>4, WriterFindsQuiet DEF WriteRequest
  <2>2. \A u \in Threads : ~Reads(u, c)
    BY <1>4, WriterFindsQuiet
  <2>3. toRecv[c] = <<>> /\ fromRecv[c] = <<>> /\ ~Busy(c)
    BY <1>4, WriterFindsQuiet
  <2>4. toRecv'[c] # <<>> /\ Len(toRecv'[c]) = 1 /\ toRecv'[c][1] = req[t]
    <3>1. req[t] \in Requests
      BY <2>1
    <3>2. toRecv'[c] = Append(<<>>, req[t])
      BY <2>1, <2>3
    <3>3. QED
      BY <3>1, <3>2, AppendToEmpty
  <2>5. \A d \in Channels \ {c} : toRecv'[d] = toRecv[d]
    BY <2>1
  <2>6. \A u \in Threads, d \in Channels :
           Reads(u, d)' <=> (Reads(u, d) \/ (u = t /\ d = c))
    BY <2>1 DEF Reads, ChannelOf, Key
  <2>7. OneInFlight' /\ Drained'
    BY <2>1, <2>3, <2>4, <2>5
  <2>8. QuietUnlessRead'
    BY <2>1, <2>5, <2>6
  <2>9. Matches'
    BY <2>1, <2>2, <2>3, <2>4, <2>5, <2>6
  <2>10. QED
    BY <2>7, <2>8, <2>9
<1>5. ASSUME NEW t \in Threads, ReadResponse(t) PROVE ExchangeInv'
  <2> DEFINE c == ChannelOf(t)
  <2>1. /\ pc' = [pc EXCEPT ![t] = "idle"]
        /\ req' = [req EXCEPT ![t] = None]
        /\ UNCHANGED <<framing, chan, toRecv, spc, cur>>
    BY <1>5 DEF ReadResponse, EndCall
  <2>2. c \in Channels /\ Reads(t, c)
    BY <1>5, ReaderLeavesQuiet
  <2>3. toRecv[c] = <<>> /\ ~Busy(c)
    BY <1>5, ReaderLeavesQuiet
  <2>4. fromRecv' = [fromRecv EXCEPT ![c] = <<>>]
    BY <1>5, ReaderLeavesQuiet
  <2>5. fromRecv'[c] = <<>> /\ \A d \in Channels \ {c} : fromRecv'[d] = fromRecv[d]
    BY <2>2, <2>4
  <2>6. \A u \in Threads, d \in Channels : Reads(u, d)' <=> (Reads(u, d) /\ u # t)
    BY <2>1 DEF Reads, ChannelOf, Key
  <2>7. OneInFlight' /\ Drained'
    BY <2>1, <2>3, <2>5
  <2>8. QuietUnlessRead'
    <3>1. \A d \in Channels \ {c} : ~Reads(t, d)
      BY DEF Reads
    <3>2. \A d \in Channels \ {c} :
             (\A u \in Threads : ~Reads(u, d)') => \A u \in Threads : ~Reads(u, d)
      BY <2>6, <3>1
    <3>3. QED
      BY <2>1, <2>3, <2>5, <3>2
  <2>9. Matches'
    <3> SUFFICES ASSUME NEW u \in Threads, NEW d \in Channels, Reads(u, d), u # t
                 PROVE  MatchesOn(u, d)'
      BY <2>6
    <3>1. MatchesOn(u, d) /\ req'[u] = req[u]
      BY <2>1
    <3>2. fromRecv'[d] = <<>> \/ fromRecv'[d] = fromRecv[d]
      BY <2>5
    <3>3. QED
      BY <2>1, <3>1, <3>2
  <2>10. QED
    BY <2>7, <2>8, <2>9
<1>6. ASSUME NEW t \in Threads, CallFails(t) PROVE ExchangeInv'
  <2>1. /\ pc' = [pc EXCEPT ![t] = "idle"]
        /\ req' = [req EXCEPT ![t] = None]
        /\ UNCHANGED <<framing, chan, toRecv, fromRecv, spc, cur>>
    BY <1>6 DEF CallFails, EndCall
  <2>2. \A u \in Threads, d \in Channels : Reads(u, d)' <=> (Reads(u, d) /\ u # t)
    BY <2>1 DEF Reads, ChannelOf, Key
  <2>3. ASSUME NEW d \in Channels, Reads(t, d)
        PROVE  chan[d] = "dead" /\ fromRecv[d] = <<>> /\ toRecv[d] = <<>> /\ ~Busy(d)
    <3>1. chan[d] = "dead" /\ fromRecv[d] = <<>>
      BY <1>6, <2>3 DEF CallFails, Reads
    <3>2. spc[d] = "none"
      BY <3>1 DEF OwnerInv, ServesConnected
    <3>3. QED
      BY <3>1, <3>2
  <2>4. OneInFlight' /\ Drained'
    BY <2>1
  <2>5. QuietUnlessRead'
    BY <2>1, <2>2, <2>3
  <2>6. Matches'
    <3> SUFFICES ASSUME NEW u \in Threads, NEW d \in Channels, Reads(u, d), u # t
                 PROVE  MatchesOn(u, d)'
      BY <2>2
    <3>1. MatchesOn(u, d) /\ req'[u] = req[u]
      BY <2>1
    <3>2. QED
      BY <2>1, <3>1
  <2>7. QED
    BY <2>4, <2>5, <2>6
<1>7. ASSUME NEW c \in Channels, Accept(c) PROVE ExchangeInv'
  BY <1>7 DEF Accept, Reads, ChannelOf
<1>8. ASSUME NEW c \in Channels, ReadFrame(c) PROVE ExchangeInv'
  <2> DEFINE r == Head(toRecv[c])
  <2>1. /\ spc[c] = "read_frame" /\ toRecv[c] # <<>>
        /\ toRecv' = [toRecv EXCEPT ![c] = Tail(@)]
        /\ spc' = [spc EXCEPT ![c] = "process_request"]
        /\ cur' = [cur EXCEPT ![c] = [call |-> r.call, kind |-> r.kind,
                                       target |-> r.target, id |-> counter]]
        /\ UNCHANGED <<pc, req, framing, chan, fromRecv>>
    BY <1>8 DEF ReadFrame
  <2>2. r = toRecv[c][1] /\ (Len(toRecv[c]) = 1 => toRecv'[c] = <<>>)
    BY <2>1, SingletonSeq
  <2>3. chan[c] # "left" => toRecv'[c] = <<>> /\ fromRecv[c] = <<>>
    BY <2>1, <2>2
  <2>4. cur'[c].call = r.call /\ cur'[c].kind = r.kind
    BY <2>1
  <2>5. \A d \in Channels \ {c} : toRecv'[d] = toRecv[d] /\ spc'[d] = spc[d] /\ cur'[d] = cur[d]
    BY <2>1
  <2>6. \A u \in Threads, d \in Channels : Reads(u, d)' <=> Reads(u, d)
    BY <2>1 DEF Reads, ChannelOf, Key
  <2>7. chan[c] \in {"open", "left"}
    BY <2>1 DEF OwnerInv, ServesConnected
  <2>8. OneInFlight' /\ Drained'
    <3>1. OneInFlight'
      <4> SUFFICES ASSUME NEW d \in Channels, chan[d] # "left"
                   PROVE  /\ toRecv'[d] = <<>> \/ (Len(toRecv'[d]) = 1 /\ ~Busy(d)')
                          /\ fromRecv'[d] = <<>> \/ (Len(fromRecv'[d]) = 1 /\ ~Busy(d)')
                          /\ toRecv'[d] = <<>> \/ fromRecv'[d] = <<>>
        BY <2>1
      <4>1. CASE d = c
        BY <2>1, <2>3, <4>1
      <4>2. CASE d # c
        BY <2>1, <2>5, <4>2
      <4>3. QED
        BY <4>1, <4>2
    <3>2. Drained'
      BY <2>1, <2>5, <2>7
    <3>3. QED
      BY <3>1, <3>2
  <2>9. QuietUnlessRead'
    BY <2>1, <2>5, <2>6
  <2>10. Matches'
    <3> SUFFICES ASSUME NEW u \in Threads, NEW d \in Channels, Reads(u, d)
                 PROVE  MatchesOn(u, d)'
      BY <2>6
    <3>1. MatchesOn(u, d)
      OBVIOUS
    <3>2. CASE d # c
      BY <2>1, <2>5, <3>1, <3>2
    <3>3. CASE d = c
      <4>1. chan[c] # "left"
        BY <3>3 DEF Reads, Using, OwnerInv, FramingConnected, ChannelOf, Key, Keys
      <4>2. toRecv'[c] = <<>> /\ fromRecv'[c] = <<>> /\ req'[u] = req[u]
        BY <2>1, <2>3, <4>1
      <4>3. r = req[u]
        BY <2>1, <2>2, <3>1, <3>3
      <4>4. QED
        BY <2>4, <3>3, <4>2, <4>3
    <3>4. QED
      BY <3>2, <3>3
  <2>11. QED
    BY <2>8, <2>9, <2>10
<1>9. ASSUME NEW c \in Channels, ConnectionClosed(c) PROVE ExchangeInv'
  BY <1>9 DEF ConnectionClosed, Reads, ChannelOf
<1>10. ASSUME NEW c \in Channels, Execute(c) PROVE ExchangeInv'
  BY <1>10 DEF Execute, Reads, ChannelOf
<1>11. ASSUME NEW c \in Channels, BeginStore(c) PROVE ExchangeInv'
  BY <1>11 DEF BeginStore, Reads, ChannelOf
<1>12. ASSUME NEW c \in Channels, EndStore(c) PROVE ExchangeInv'
  BY <1>12 DEF EndStore, Storing, Reads, ChannelOf
<1>13. ASSUME NEW c \in Channels, StoreLost(c) PROVE ExchangeInv'
  BY <1>13 DEF StoreLost, Storing, Reads, ChannelOf
<1>14. ASSUME NEW c \in Channels, TableHang(c) PROVE ExchangeInv'
  BY <1>14 DEF TableHang, UsesTable, Reads, ChannelOf
<1>15. ASSUME NEW c \in Channels, WriteFrame(c) PROVE ExchangeInv'
  <2> DEFINE f == [call |-> cur[c].call, result |-> Result(cur[c].kind),
                   id |-> cur[c].id, inc |-> incarnation]
  <2>1. /\ Busy(c) /\ chan[c] = "open"
        /\ fromRecv' = [fromRecv EXCEPT ![c] = Append(@, f)]
        /\ spc' = [spc EXCEPT ![c] = "read_frame"]
        /\ \A d \in Channels \ {c} : cur'[d] = cur[d]
        /\ UNCHANGED <<pc, req, framing, chan, toRecv>>
    BY <1>15 DEF WriteFrame
  <2>2. f \in Responses
    BY <2>1 DEF Jobs, Responses, Result
  <2>3. toRecv[c] = <<>> /\ fromRecv[c] = <<>>
    BY <2>1
  <2>4. fromRecv'[c] # <<>> /\ Len(fromRecv'[c]) = 1 /\ fromRecv'[c][1] = f
    BY <2>1, <2>2, <2>3, AppendToEmpty
  <2>5. \A d \in Channels \ {c} : fromRecv'[d] = fromRecv[d] /\ spc'[d] = spc[d]
    BY <2>1
  <2>6. \A u \in Threads, d \in Channels : Reads(u, d)' <=> Reads(u, d)
    BY <2>1 DEF Reads, ChannelOf, Key
  <2>7. ~Busy(c)'
    BY <2>1
  <2>8. OneInFlight'
    <3> SUFFICES ASSUME NEW d \in Channels, chan[d] # "left"
                 PROVE  /\ toRecv'[d] = <<>> \/ (Len(toRecv'[d]) = 1 /\ ~Busy(d)')
                        /\ fromRecv'[d] = <<>> \/ (Len(fromRecv'[d]) = 1 /\ ~Busy(d)')
                        /\ toRecv'[d] = <<>> \/ fromRecv'[d] = <<>>
      BY <2>1
    <3>1. CASE d = c
      BY <2>1, <2>3, <2>4, <2>7, <3>1
    <3>2. CASE d # c
      BY <2>1, <2>5, <3>2
    <3>3. QED
      BY <3>1, <3>2
  <2>9. QuietUnlessRead'
    <3>1. \E u \in Threads : Reads(u, c)
      BY <2>1
    <3>2. QED
      BY <2>1, <2>5, <2>6, <3>1
  <2>10. Drained'
    BY <2>1, <2>5
  <2>11. Matches'
    <3> SUFFICES ASSUME NEW u \in Threads, NEW d \in Channels, Reads(u, d)
                 PROVE  MatchesOn(u, d)'
      BY <2>6
    <3>1. MatchesOn(u, d)
      OBVIOUS
    <3>2. CASE d = c
      BY <2>1, <2>3, <2>4, <2>7, <3>1, <3>2
    <3>3. CASE d # c
      BY <2>1, <2>5, <3>1, <3>3
    <3>4. QED
      BY <3>2, <3>3
  <2>12. QED
    BY <2>8, <2>9, <2>10, <2>11
<1>16. CASE Terminate
  BY <1>16 DEF Terminate, Reads, ChannelOf
<1>17. CASE WrapperExit
  <2>1. /\ pc' = [u \in Threads |-> "idle"]
        /\ chan' = [d \in Channels |-> IF chan[d] = "open" THEN "left" ELSE chan[d]]
        /\ fromRecv' = [d \in Channels |-> <<>>]
        /\ UNCHANGED <<toRecv, spc, cur>>
    BY <1>17 DEF WrapperExit
  <2>2. \A u \in Threads, d \in Channels : ~Reads(u, d)'
    BY <2>1 DEF Reads
  <2>3. \A d \in Channels :
           /\ fromRecv'[d] = <<>>
           /\ chan'[d] # "left" => chan'[d] = chan[d] /\ chan[d] \in {"unused", "dead"}
    BY <2>1
  <2>4. ASSUME NEW d \in Channels, chan'[d] # "left"
        PROVE  toRecv'[d] = <<>> /\ ~Busy(d)'
    <3>1. spc[d] = "none" /\ toRecv[d] = <<>>
      BY <2>3, <2>4 DEF OwnerInv, ServesConnected
    <3>2. QED
      BY <2>1, <3>1
  <2>5. QED
    BY <2>2, <2>3, <2>4
<1>18. CASE ReceiverRestart
  BY <1>18 DEF ReceiverRestart, Reads, ChannelOf
<1>19. CASE UNCHANGED vars
  BY <1>19 DEF Reads, ChannelOf
<1>20. QED
  BY <1>1, <1>2, <1>3, <1>4, <1>5, <1>6, <1>7, <1>8, <1>9, <1>10, <1>11,
     <1>12, <1>13, <1>14, <1>15, <1>16, <1>17, <1>18, <1>19, StepCases

-----------------------------------------------------------------------------
\* The three layers together hold in every reachable state.
ProtocolInv == TypeInv /\ OwnerInv /\ ExchangeInv

LEMMA ProtocolInvariant == Spec => []ProtocolInv
<1>1. Init => ProtocolInv
  BY TypeInvInit, OwnerInvInit, ExchangeInvInit DEF ProtocolInv
<1>2. ProtocolInv /\ [Next]_vars => ProtocolInv'
  BY TypeInvStep, OwnerInvStep, ExchangeInvStep DEF ProtocolInv
<1>3. QED
  BY <1>1, <1>2, PTL DEF Spec

\* A thread that waits for a response finds its own, with the result case its
\* method expects: the frames need no correlation id, because at most one call is
\* in flight on a channel (sendRequest, process_channel).
THEOREM ResponsesMatch == Spec => []ResponseMatches
<1>1. ProtocolInv => ResponseMatches
  <2> SUFFICES ASSUME ProtocolInv,
                      NEW t \in Threads, pc[t] = "read",
                      NEW i \in 1 .. Len(fromRecv[ChannelOf(t)])
               PROVE  /\ fromRecv[ChannelOf(t)][i].call = req[t].call
                      /\ fromRecv[ChannelOf(t)][i].result = Result(req[t].kind)
    BY DEF ResponseMatches
  <2> DEFINE c == ChannelOf(t)
  <2>1. c \in Channels /\ Reads(t, c) /\ chan[c] # "left"
    BY ConstantsAssumption, NoneAssumption
    DEF ProtocolInv, TypeInv, TypeOK, ChannelSet, Using, OwnerInv, FramingConnected,
        Keys, Reads, ChannelOf, Key
  <2>2. fromRecv[c] \in Seq(Responses)
    BY <2>1 DEF ProtocolInv, TypeInv, TypeOK
  <2>3. fromRecv[c] # <<>> /\ Len(fromRecv[c]) = 1
    BY <2>1, <2>2 DEF ProtocolInv, ExchangeInv, OneInFlight
  <2>4. i = 1
    BY <2>3
  <2>5. QED
    BY <2>1, <2>3, <2>4 DEF ProtocolInv, ExchangeInv, Matches, MatchesOn
<1>2. QED
  BY <1>1, ProtocolInvariant, PTL

-----------------------------------------------------------------------------
LEMMA ObjectInvInit == Init => ObjectInv
BY DEF Init, ObjectInv, IdsBelowCounter, JobIdsDistinct, IdFreeUntilStored,
       StoredBeforeWrite, StoredBeforeRead, IncarnationsPast, HandlesLive, Holds, Busy,
       EmptyTable

LEMMA ObjectInvStep == ProtocolInv /\ ObjectInv /\ [Next]_vars => ObjectInv'
<1> SUFFICES ASSUME ProtocolInv, ObjectInv, [Next]_vars PROVE ObjectInv'
  OBVIOUS
<1> USE DEF ObjectInv, IdsBelowCounter, JobIdsDistinct, IdFreeUntilStored,
            StoredBeforeWrite, StoredBeforeRead, IncarnationsPast, HandlesLive, Holds,
            Busy, ProtocolInv, TypeInv, TypeOK,
            vars, wrapperVars, socketVars, receiverVars, historyVars
<1>1. ASSUME NEW t \in Threads, StartCall(t) PROVE ObjectInv'
  BY <1>1 DEF StartCall, Reads, ChannelOf
<1>2. ASSUME NEW t \in Threads, Connect(t) PROVE ObjectInv'
  <2>1. \A u \in Threads, d \in Channels : Reads(u, d)' <=> Reads(u, d)
    BY <1>2, ConnectKeepsReads
  <2>2. QED
    BY <1>2, <2>1 DEF Connect
<1>3. ASSUME NEW t \in Threads, Acquire(t) PROVE ObjectInv'
  BY <1>3 DEF Acquire, Reads, ChannelOf
<1>4. ASSUME NEW t \in Threads, WriteRequest(t) PROVE ObjectInv'
  <2>1. ASSUME NEW u \in Threads, NEW d \in Channels, Reads(u, d)', fromRecv[d] # <<>>
        PROVE  Reads(u, d)
    <3>1. Reads(u, d) \/ d = ChannelOf(t)
      BY <1>4, <2>1 DEF WriteRequest, Reads, ChannelOf
    <3>2. fromRecv[ChannelOf(t)] = <<>>
      BY <1>4, WriterFindsQuiet
    <3>3. QED
      BY <2>1, <3>1, <3>2
  <2>2. QED
    BY <1>4, <2>1 DEF WriteRequest
<1>5. ASSUME NEW t \in Threads, ReadResponse(t) PROVE ObjectInv'
  <2> DEFINE c == ChannelOf(t)
             new == [id |-> fromRecv[c][1].id, obj |-> req[t].call,
                     inc |-> fromRecv[c][1].inc]
  <2>1. /\ c \in Channels /\ Reads(t, c) /\ fromRecv[c] # <<>>
        /\ fromRecv' = [fromRecv EXCEPT ![c] = <<>>]
        /\ handles' = IF req[t].kind = "create" THEN handles \cup {new} ELSE handles
    BY <1>5, ReaderLeavesQuiet DEF ReadResponse
  <2>2. \A u \in Threads, d \in Channels :
           Reads(u, d)' => Reads(u, d) /\ u # t /\ req'[u] = req[u]
    BY <1>5 DEF ReadResponse, EndCall, Reads, ChannelOf
  <2>3. UNCHANGED <<alive, spc, cur, persistence, counter, tableRaced, incarnation>>
    BY <1>5 DEF ReadResponse
  <2>4. \A d \in Channels : fromRecv'[d] = <<>> \/ fromRecv'[d] = fromRecv[d]
    BY <2>1
  <2>5. /\ IdsBelowCounter' /\ JobIdsDistinct' /\ IdFreeUntilStored'
        /\ StoredBeforeWrite'
    BY <2>3
  <2>6. StoredBeforeRead'
    BY <2>2, <2>3, <2>4
  <2>7. IncarnationsPast'
    BY <2>1, <2>3, <2>4
  <2>8. HandlesLive'
    BY <2>1, <2>3
  <2>9. QED
    BY <2>5, <2>6, <2>7, <2>8
<1>6. ASSUME NEW t \in Threads, CallFails(t) PROVE ObjectInv'
  BY <1>6 DEF CallFails, EndCall, Reads, ChannelOf
<1>7. ASSUME NEW c \in Channels, Accept(c) PROVE ObjectInv'
  BY <1>7 DEF Accept, Reads, ChannelOf
<1>8. ASSUME NEW c \in Channels, ReadFrame(c) PROVE ObjectInv'
  <2>1. /\ cur'[c].id = counter
        /\ counter' = counter + 1
        /\ spc' = [spc EXCEPT ![c] = "process_request"]
        /\ \A d \in Channels \ {c} : cur'[d] = cur[d]
        /\ UNCHANGED <<pc, req, framing, handles, fromRecv, alive, persistence,
                       tableRaced, incarnation>>
    BY <1>8 DEF ReadFrame
  <2>2. \A d \in Channels : Busy(d) => cur[d].id \in Nat
    BY DEF JobSet, Jobs
  <2>3. \A u \in Threads, d \in Channels : Reads(u, d)' <=> Reads(u, d)
    BY <2>1 DEF Reads, ChannelOf, Key
  <2>4. IdsBelowCounter'
    <3>1. \A i \in DOMAIN persistence : i < counter + 1
      OBVIOUS
    <3>2. \A d \in Channels : Busy(d)' => cur'[d].id < counter + 1
      BY <2>1, <2>2
    <3>3. QED
      BY <2>1, <3>1, <3>2
  <2>5. JobIdsDistinct'
    <3>1. \A d \in Channels \ {c} : Busy(d) => cur[d].id # counter
      BY <2>2
    <3>2. QED
      BY <2>1, <3>1
  <2>6. IdFreeUntilStored'
    <3>1. counter \notin DOMAIN persistence
      OBVIOUS
    <3>2. QED
      BY <2>1, <3>1
  <2>7. StoredBeforeWrite'
    BY <2>1
  <2>8. StoredBeforeRead' /\ IncarnationsPast' /\ HandlesLive'
    BY <2>1, <2>3
  <2>9. QED
    BY <2>4, <2>5, <2>6, <2>7, <2>8
<1>9. ASSUME NEW c \in Channels, ConnectionClosed(c) PROVE ObjectInv'
  BY <1>9 DEF ConnectionClosed, Reads, ChannelOf
<1>10. ASSUME NEW c \in Channels, Execute(c) PROVE ObjectInv'
  BY <1>10 DEF Execute, Reads, ChannelOf
<1>11. ASSUME NEW c \in Channels, BeginStore(c) PROVE ObjectInv'
  BY <1>11 DEF BeginStore, Reads, ChannelOf
<1>12. ASSUME NEW c \in Channels, EndStore(c) PROVE ObjectInv'
  <2> DEFINE id == cur[c].id
  <2>1. /\ spc[c] = "storing"
        /\ persistence' = Put(persistence, id, cur[c].call)
        /\ spc' = [spc EXCEPT ![c] = "write_frame"]
        /\ UNCHANGED <<pc, req, framing, handles, fromRecv, alive, cur, counter,
                       tableRaced, incarnation>>
    BY <1>12 DEF EndStore, Storing
  <2>2. DOMAIN persistence' = DOMAIN persistence \cup {id} /\ id \notin DOMAIN persistence
    BY <2>1 DEF Put
  <2>3. Holds(id, cur[c].call)'
    BY <2>1 DEF Put
  <2>4. \A i, k : Holds(i, k) => Holds(i, k)'
    BY <2>1, <2>2 DEF Put
  <2>5. \A u \in Threads, d \in Channels : Reads(u, d)' <=> Reads(u, d)
    BY <2>1 DEF Reads, ChannelOf, Key
  <2> HIDE DEF Holds
  <2>6. IdsBelowCounter' /\ JobIdsDistinct' /\ IdFreeUntilStored'
    BY <2>1, <2>2
  <2>7. StoredBeforeWrite'
    BY <2>1, <2>3, <2>4
  <2>8. StoredBeforeRead' /\ IncarnationsPast'
    BY <2>1, <2>4, <2>5
  <2>9. HandlesLive'
    BY <2>1, <2>4 DEF Holds
  <2>10. QED
    BY <2>6, <2>7, <2>8, <2>9
<1>13. ASSUME NEW c \in Channels, StoreLost(c) PROVE ObjectInv'
  BY <1>13 DEF StoreLost, Storing, Reads, ChannelOf
<1>14. ASSUME NEW c \in Channels, TableHang(c) PROVE ObjectInv'
  BY <1>14 DEF TableHang, UsesTable, Reads, ChannelOf
<1>15. ASSUME NEW c \in Channels, WriteFrame(c) PROVE ObjectInv'
  <2> DEFINE f == [call |-> cur[c].call, result |-> Result(cur[c].kind),
                   id |-> cur[c].id, inc |-> incarnation]
  <2>1. /\ spc[c] = "write_frame" /\ chan[c] = "open"
        /\ fromRecv' = [fromRecv EXCEPT ![c] = Append(@, f)]
        /\ spc' = [spc EXCEPT ![c] = "read_frame"]
        /\ \A d \in Channels \ {c} : cur'[d] = cur[d]
        /\ UNCHANGED <<pc, req, framing, handles, alive, persistence, counter,
                       tableRaced, incarnation>>
    BY <1>15 DEF WriteFrame
  <2>2. f \in Responses
    BY <2>1 DEF JobSet, Jobs, Responses, Result
  <2>3. fromRecv[c] = <<>>
    BY <2>1 DEF ExchangeInv, OneInFlight
  <2>4. fromRecv'[c][1] = f /\ \A d \in Channels \ {c} : fromRecv'[d] = fromRecv[d]
    BY <2>1, <2>2, <2>3, AppendToEmpty
  <2>5. \A u \in Threads, d \in Channels : Reads(u, d)' <=> Reads(u, d)
    BY <2>1 DEF Reads, ChannelOf, Key
  <2>6. \A u \in Threads :
           Reads(u, c) => cur[c].call = req[u].call /\ cur[c].kind = req[u].kind
    BY <2>1 DEF ExchangeInv, Matches, MatchesOn
  <2> HIDE DEF Holds
  <2>7. IdsBelowCounter' /\ JobIdsDistinct' /\ IdFreeUntilStored' /\ StoredBeforeWrite'
    <3>1. \A d \in Channels : spc'[d] = IF d = c THEN "read_frame" ELSE spc[d]
      BY <2>1
    <3>2. \A d \in Channels : Busy(d)' => Busy(d) /\ cur'[d] = cur[d]
      BY <2>1, <3>1
    <3>3. IdsBelowCounter' /\ JobIdsDistinct'
      <4>1. IdsBelowCounter'
        BY <2>1, <3>2
      <4>2. JobIdsDistinct'
        BY <3>2
      <4>3. QED
        BY <4>1, <4>2
    <3>4. IdFreeUntilStored'
      BY <2>1, <3>1
    <3>5. StoredBeforeWrite'
      BY <2>1, <3>1 DEF Holds
    <3>6. QED
      BY <3>3, <3>4, <3>5
  <2>8. \A i, k : Holds(i, k)' <=> Holds(i, k)
    BY <2>1 DEF Holds
  <2>9. StoredBeforeRead'
    <3> SUFFICES ASSUME alive, ~tableRaced, NEW u \in Threads, NEW d \in Channels,
                        Reads(u, d), req[u].kind = "create", fromRecv'[d] # <<>>,
                        fromRecv'[d][1].inc = incarnation
                 PROVE  Holds(fromRecv'[d][1].id, req[u].call)
      BY <2>1, <2>5, <2>8
    <3>1. CASE d = c
      BY <2>1, <2>4, <2>6, <3>1
    <3>2. CASE d # c
      BY <2>4, <3>2
    <3>3. QED
      BY <3>1, <3>2
  <2>10. IncarnationsPast'
    BY <2>1, <2>4
  <2>11. HandlesLive'
    BY <2>1
  <2>12. QED
    BY <2>7, <2>9, <2>10, <2>11
<1>16. CASE Terminate
  <2>1. /\ ~alive'
        /\ DOMAIN persistence' = {}
        /\ spc' = [d \in Channels |-> "none"]
        /\ UNCHANGED <<handles, fromRecv, incarnation>>
    BY <1>16 DEF Terminate, EmptyTable
  <2>2. IdsBelowCounter' /\ JobIdsDistinct' /\ IdFreeUntilStored' /\ StoredBeforeWrite'
    BY <2>1
  <2>3. StoredBeforeRead' /\ IncarnationsPast' /\ HandlesLive'
    BY <2>1
  <2>4. QED
    BY <2>2, <2>3
<1>17. CASE WrapperExit
  BY <1>17 DEF WrapperExit, Reads, ChannelOf
<1>18. CASE ReceiverRestart
  <2>1. /\ ~alive /\ incarnation' = incarnation + 1
        /\ UNCHANGED <<handles, fromRecv, spc, cur, persistence, counter>>
    BY <1>18 DEF ReceiverRestart
  <2>2. \A d \in Channels : spc[d] = "none"
    BY <2>1 DEF OwnerInv, ServesConnected
  <2>3. (\A hd \in handles : hd.inc \in Nat)
        /\ \A d \in Channels : fromRecv[d] # <<>> => fromRecv[d][1].inc \in Nat
    <3>1. \A hd \in handles : hd.inc \in Nat
      BY DEF Handles
    <3>2. ASSUME NEW d \in Channels, fromRecv[d] # <<>> PROVE fromRecv[d][1].inc \in Nat
      <4>1. fromRecv[d] \in Seq(Responses)
        OBVIOUS
      <4>2. fromRecv[d][1] \in Responses
        BY <3>2, <4>1
      <4>3. QED
        BY <4>2 DEF Responses
    <3>3. QED
      BY <3>1, <3>2
  <2>4. IdsBelowCounter' /\ JobIdsDistinct' /\ IdFreeUntilStored' /\ StoredBeforeWrite'
    BY <2>1, <2>2
  <2>5. IncarnationsPast'
    BY <2>1, <2>3
  <2>6. StoredBeforeRead' /\ HandlesLive'
    BY <2>1, <2>3
  <2>7. QED
    BY <2>4, <2>5, <2>6
<1>19. CASE UNCHANGED vars
  BY <1>19 DEF Reads, ChannelOf
<1>20. QED
  BY <1>1, <1>2, <1>3, <1>4, <1>5, <1>6, <1>7, <1>8, <1>9, <1>10, <1>11,
     <1>12, <1>13, <1>14, <1>15, <1>16, <1>17, <1>18, <1>19, StepCases

LEMMA ObjectInvariant == Spec => [](ProtocolInv /\ ObjectInv)
<1>1. Init => ObjectInv
  BY ObjectInvInit
<1>2. ProtocolInv /\ ObjectInv /\ [Next]_vars => ObjectInv'
  BY ObjectInvStep
<1>3. QED
  BY <1>1, <1>2, ProtocolInvariant, PTL DEF Spec

\* A wrapper object of the running receiver stays valid on an intact table:
\* however the threads of both sides interleave, its id is in the table and names
\* the object it was bound to (bindTo, process_channel, the handlers).
THEOREM HandlesStayLive == Spec => []HandlesLive
<1>1. ObjectInv => HandlesLive
  BY DEF ObjectInv
<1>2. QED
  BY <1>1, ObjectInvariant, PTL

-----------------------------------------------------------------------------
LEMMA RaceInvInit == Init => RaceInv
BY DEF Init, RaceInv, SoleConnection, SingleConnectionNeverRaces

\* With a sole connection no access to the table meets another one.
LEMMA SoleNeverRaces ==
    ASSUME ProtocolInv, SoleConnection, ~MultiThreaded, exits = 0,
           NEW c \in Channels, spc[c] # "none"
    PROVE  ~Races(c)
<1>1. \A d \in Channels : spc[d] # "none" => framing[Shared] = d
  BY DEF ProtocolInv, OwnerInv, ServesConnected, SoleConnection
<1>2. QED
  BY <1>1 DEF Races, Storing

LEMMA RaceInvStep == ProtocolInv /\ RaceInv /\ [Next]_vars => RaceInv'
<1> SUFFICES ASSUME ProtocolInv, RaceInv, [Next]_vars PROVE RaceInv'
  OBVIOUS
<1> USE DEF RaceInv, SoleConnection, SingleConnectionNeverRaces,
            vars, wrapperVars, socketVars, receiverVars, historyVars
<1>1. ASSUME NEW t \in Threads, StartCall(t) PROVE RaceInv'
  BY <1>1 DEF StartCall
<1>2. ASSUME NEW t \in Threads, Connect(t) PROVE RaceInv'
  <2>1. PICK c \in Channels :
           /\ chan' = [chan EXCEPT ![c] = "open"]
           /\ framing' = [framing EXCEPT ![Key(t)] = c]
    BY <1>2 DEF Connect
  <2>2. framing[Key(t)] = None /\ UNCHANGED <<exits, tableRaced>>
    BY <1>2 DEF Connect, ChannelOf
  <2>3. SoleConnection'
    BY <2>1, <2>2, NoneAssumption DEF Key, ProtocolInv, TypeInv, TypeOK
  <2>4. QED
    BY <2>2, <2>3
<1>3. ASSUME NEW t \in Threads, Acquire(t) PROVE RaceInv'
  BY <1>3 DEF Acquire
<1>4. ASSUME NEW t \in Threads, WriteRequest(t) PROVE RaceInv'
  BY <1>4 DEF WriteRequest
<1>5. ASSUME NEW t \in Threads, ReadResponse(t) PROVE RaceInv'
  BY <1>5 DEF ReadResponse, EndCall
<1>6. ASSUME NEW t \in Threads, CallFails(t) PROVE RaceInv'
  BY <1>6 DEF CallFails, EndCall
<1>7. ASSUME NEW c \in Channels, Accept(c) PROVE RaceInv'
  BY <1>7 DEF Accept
<1>8. ASSUME NEW c \in Channels, ReadFrame(c) PROVE RaceInv'
  BY <1>8 DEF ReadFrame
<1>9. ASSUME NEW c \in Channels, ConnectionClosed(c) PROVE RaceInv'
  BY <1>9 DEF ConnectionClosed
<1>10. ASSUME NEW c \in Channels, Execute(c) PROVE RaceInv'
  <2>1. ~MultiThreaded /\ exits = 0 => ~Races(c)
    BY <1>10, SoleNeverRaces DEF Execute
  <2>2. QED
    BY <1>10, <2>1 DEF Execute
<1>11. ASSUME NEW c \in Channels, BeginStore(c) PROVE RaceInv'
  <2>1. ~MultiThreaded /\ exits = 0 => ~Races(c)
    BY <1>11, SoleNeverRaces DEF BeginStore
  <2>2. QED
    BY <1>11, <2>1 DEF BeginStore
<1>12. ASSUME NEW c \in Channels, EndStore(c) PROVE RaceInv'
  BY <1>12 DEF EndStore, Storing
<1>13. ASSUME NEW c \in Channels, StoreLost(c) PROVE RaceInv'
  BY <1>13 DEF StoreLost, Storing
<1>14. ASSUME NEW c \in Channels, TableHang(c) PROVE RaceInv'
  BY <1>14 DEF TableHang, UsesTable
<1>15. ASSUME NEW c \in Channels, WriteFrame(c) PROVE RaceInv'
  BY <1>15 DEF WriteFrame
<1>16. CASE Terminate
  BY <1>16 DEF Terminate
<1>17. CASE WrapperExit
  <2>1. exits' # 0
    BY <1>17 DEF WrapperExit, ProtocolInv, TypeInv, TypeOK
  <2>2. QED
    BY <2>1
<1>18. CASE ReceiverRestart
  BY <1>18 DEF ReceiverRestart
<1>19. CASE UNCHANGED vars
  BY <1>19
<1>20. QED
  BY <1>1, <1>2, <1>3, <1>4, <1>5, <1>6, <1>7, <1>8, <1>9, <1>10, <1>11,
     <1>12, <1>13, <1>14, <1>15, <1>16, <1>17, <1>18, <1>19, StepCases

\* One wrapper process on one shared channel cannot corrupt the receiver's
\* unlocked table: the monitor of sendRequest serialises the receiver too.
THEOREM SharedChannelNeverRaces == Spec => []SingleConnectionNeverRaces
<1>1. Init => RaceInv
  BY RaceInvInit
<1>2. ProtocolInv /\ RaceInv /\ [Next]_vars => RaceInv'
  BY RaceInvStep
<1>3. RaceInv => SingleConnectionNeverRaces
  BY DEF RaceInv
<1>4. QED
  BY <1>1, <1>2, <1>3, ProtocolInvariant, PTL DEF Spec

-----------------------------------------------------------------------------
LEMMA TargetInvInit == Init => TargetInv
BY DEF Init, TargetInv, TargetsHeld, SentTargetsLive, AllTargetsLive, ServedTargetsLive,
       AnswersCurrent, HandlesOfOpenChannel

LEMMA UnusedIsQuiet ==
    ASSUME ProtocolInv, NEW c \in Channels, chan[c] = "unused"
    PROVE  fromRecv[c] = <<>>
<1>1. ASSUME NEW t \in Threads, Reads(t, c) PROVE FALSE
  <2>1. framing[Key(t)] = c /\ Key(t) \in Keys
    BY <1>1 DEF Reads, ChannelOf, Key, Keys
  <2>2. QED
    BY <2>1, NoneAssumption DEF ProtocolInv, OwnerInv, FramingConnected
<1>2. QED
  BY <1>1 DEF ProtocolInv, ExchangeInv, QuietUnlessRead

LEMMA TargetInvStep == ProtocolInv /\ ObjectInv /\ TargetInv /\ [Next]_vars => TargetInv'
<1> SUFFICES ASSUME ProtocolInv, ObjectInv, TargetInv, [Next]_vars PROVE TargetInv'
  OBVIOUS
<1> USE DEF TargetInv, TargetsHeld, SentTargetsLive, AllTargetsLive, ServedTargetsLive,
            AnswersCurrent, HandlesOfOpenChannel, Intact, Live, Holds, ProtocolInv, TypeInv, TypeOK,
            vars, wrapperVars, socketVars, receiverVars, historyVars
<1>1. ASSUME NEW t \in Threads, StartCall(t) PROVE TargetInv'
  BY <1>1 DEF StartCall
<1>2. ASSUME NEW t \in Threads, Connect(t) PROVE TargetInv'
  <2>1. PICK c \in Channels :
           /\ chan[c] = "unused"
           /\ chan' = [chan EXCEPT ![c] = "open"]
           /\ framing' = [framing EXCEPT ![Key(t)] = c]
    BY <1>2 DEF Connect
  <2>2. /\ framing[Key(t)] = None
        /\ UNCHANGED <<pc, req, handles, toRecv, fromRecv, receiverVars, historyVars>>
    BY <1>2 DEF Connect, ChannelOf
  <2>3. TargetsHeld' /\ SentTargetsLive' /\ ServedTargetsLive'
    <3>1. TargetsHeld'
      BY <2>2
    <3>2. (Intact' <=> Intact) /\ \A x : Live(x)' <=> Live(x)
      BY <2>2
    <3> HIDE DEF Intact, Live
    <3>3. SentTargetsLive' /\ ServedTargetsLive'
      BY <2>2, <3>2
    <3>4. QED
      BY <3>1, <3>3
  <2>4. AnswersCurrent'
    BY <2>1, <2>2, UnusedIsQuiet
  <2>5. HandlesOfOpenChannel'
    <3>1. ~MultiThreaded => handles = {}
      BY <2>2 DEF Key
    <3>2. QED
      BY <2>2, <3>1
  <2>6. QED
    BY <2>3, <2>4, <2>5
<1>3. ASSUME NEW t \in Threads, Acquire(t) PROVE TargetInv'
  BY <1>3 DEF Acquire
<1>4. ASSUME NEW t \in Threads, WriteRequest(t) PROVE TargetInv'
  <2> DEFINE c == ChannelOf(t)
             target == req[t].target
  <2>1. c \in Channels /\ chan[c] = "open" /\ toRecv[c] = <<>>
    BY <1>4, WriterFindsQuiet
  <2>2. /\ pc[t] = "write"
        /\ toRecv' = [toRecv EXCEPT ![c] = Append(@, req[t])]
        /\ pc' = [pc EXCEPT ![t] = "read"]
        /\ UNCHANGED <<req, handles, framing, chan, fromRecv, receiverVars, historyVars>>
    BY <1>4 DEF WriteRequest
  <2>3. req[t] \in Requests
    BY <2>2 DEF RequestSet
  <2>4. toRecv'[c] = <<req[t]>>
    BY <2>1, <2>2, <2>3
  <2>5. Intact /\ target # None => Live(target)
    <3> SUFFICES ASSUME Intact, target # None PROVE Live(target)
      OBVIOUS
    <3>1. target \in handles
      BY <2>2
    <3>2. alive
      BY <2>1 DEF OwnerInv, OpenAlive
    <3>3. CASE MultiThreaded
      <4>1. target.inc \in Nat /\ target.inc <= incarnation
        BY <3>1 DEF Handles, ObjectInv, IncarnationsPast
      <4>2. target.inc = incarnation
        BY <3>3, <4>1
      <4>3. QED
        BY <3>1, <3>2, <4>2 DEF ObjectInv, HandlesLive
    <3>4. CASE ~MultiThreaded
      <4>1. framing[Shared] = c
        BY <3>4 DEF ChannelOf, Key
      <4>2. target.inc = incarnation
        BY <2>1, <3>1, <3>4, <4>1, NoneAssumption
      <4>3. QED
        BY <3>1, <3>2, <4>2 DEF ObjectInv, HandlesLive
    <3>5. QED
      BY <3>3, <3>4
  <2>6. SentTargetsLive'
    <3>1. (Intact' <=> Intact) /\ \A x : Live(x)' <=> Live(x)
      BY <2>2
    <3> HIDE DEF Intact, Live
    <3>2. SUFFICES ASSUME Intact, NEW d \in Channels
                   PROVE  AllTargetsLive(toRecv'[d])
      BY <3>1
    <3>3. AllTargetsLive(<<req[t]>>)
      BY <2>5, <3>2
    <3>4. QED
      BY <2>2, <2>4, <3>2, <3>3
  <2>7. TargetsHeld' /\ ServedTargetsLive' /\ AnswersCurrent' /\ HandlesOfOpenChannel'
    BY <2>2
  <2>8. QED
    BY <2>6, <2>7
<1>5. ASSUME NEW t \in Threads, ReadResponse(t) PROVE TargetInv'
  <2> DEFINE c == ChannelOf(t)
             new == [id |-> fromRecv[c][1].id, obj |-> req[t].call,
                     inc |-> fromRecv[c][1].inc]
  <2>1. /\ c \in Channels /\ fromRecv[c] # <<>>
        /\ fromRecv' = [fromRecv EXCEPT ![c] = <<>>]
        /\ handles' = IF req[t].kind = "create" THEN handles \cup {new} ELSE handles
    BY <1>5, ReaderLeavesQuiet DEF ReadResponse
  <2>2. /\ pc' = [pc EXCEPT ![t] = "idle"]
        /\ req' = [req EXCEPT ![t] = None]
        /\ UNCHANGED <<framing, chan, toRecv, receiverVars, incarnation>>
    BY <1>5 DEF ReadResponse, EndCall
  <2>3. TargetsHeld'
    BY <2>1, <2>2
  <2>4. SentTargetsLive' /\ ServedTargetsLive'
    BY <2>2
  <2>5. AnswersCurrent'
    BY <2>1, <2>2
  <2>6. HandlesOfOpenChannel'
    <3> SUFFICES ASSUME ~MultiThreaded PROVE HandlesOfOpenChannel'
      OBVIOUS
    <3>1. framing[Shared] = c
      BY DEF ChannelOf, Key
    <3>2. chan[c] = "open" => new.inc = incarnation
      BY <2>1
    <3>3. QED
      BY <2>1, <2>2, <3>1, <3>2, NoneAssumption
  <2>7. QED
    BY <2>3, <2>4, <2>5, <2>6
<1>6. ASSUME NEW t \in Threads, CallFails(t) PROVE TargetInv'
  BY <1>6 DEF CallFails, EndCall
<1>7. ASSUME NEW c \in Channels, Accept(c) PROVE TargetInv'
  <2>1. /\ \A d \in Channels : spc'[d] = "process_request" => spc[d] = "process_request"
        /\ UNCHANGED <<cur, persistence, tableRaced, wrapperVars, socketVars, incarnation>>
    BY <1>7 DEF Accept
  <2>2. (Intact' => Intact) /\ \A x : Live(x)' <=> Live(x)
    BY <2>1
  <2>3. TargetsHeld' /\ AnswersCurrent' /\ HandlesOfOpenChannel'
    BY <2>1
  <2> HIDE DEF Intact, Live
  <2>4. SentTargetsLive' /\ ServedTargetsLive'
    BY <2>1, <2>2
  <2>5. QED
    BY <2>3, <2>4
<1>8. ASSUME NEW c \in Channels, ReadFrame(c) PROVE TargetInv'
  <2> DEFINE r == Head(toRecv[c])
  <2>1. /\ toRecv[c] # <<>> /\ toRecv[c] \in Seq(Requests)
        /\ toRecv' = [toRecv EXCEPT ![c] = Tail(@)]
        /\ spc' = [spc EXCEPT ![c] = "process_request"]
        /\ cur'[c].target = r.target
        /\ \A d \in Channels \ {c} : cur'[d] = cur[d]
        /\ UNCHANGED <<chan, fromRecv, persistence, tableRaced, wrapperVars, historyVars>>
    BY <1>8 DEF ReadFrame
  <2>2. r = toRecv[c][1] /\ Len(toRecv[c]) \in Nat \ {0}
    BY <2>1, EmptySeq
  <2>3. ASSUME NEW i \in 1 .. Len(toRecv'[c])
        PROVE  i + 1 \in 1 .. Len(toRecv[c]) /\ toRecv'[c][i] = toRecv[c][i + 1]
    <3>1. toRecv'[c] = Tail(toRecv[c])
      BY <2>1
    <3>2. Len(Tail(toRecv[c])) = Len(toRecv[c]) - 1
      BY <2>1, HeadTailProperties
    <3>3. i + 1 \in 1 .. Len(toRecv[c])
      BY <2>2, <3>1, <3>2
    <3>4. Tail(toRecv[c])[i] = toRecv[c][i + 1]
      BY <2>1, <3>1, HeadTailProperties
    <3>5. QED
      BY <3>1, <3>3, <3>4
  <2>4. (Intact' <=> Intact) /\ \A x : Live(x)' <=> Live(x)
    BY <2>1
  <2> HIDE DEF Intact, Live
  <2>5. SentTargetsLive'
    <3>1. SUFFICES ASSUME Intact, NEW d \in Channels
                   PROVE  AllTargetsLive(toRecv'[d])
      BY <2>4
    <3>2. AllTargetsLive(toRecv[d])
      BY <3>1
    <3>3. CASE d = c
      <4>1. ASSUME NEW i \in 1 .. Len(toRecv'[c]), toRecv'[c][i].target # None
            PROVE  Live(toRecv'[c][i].target)
        <5>1. i + 1 \in 1 .. Len(toRecv[c]) /\ toRecv'[c][i] = toRecv[c][i + 1]
          BY <2>3
        <5>2. QED
          BY <3>2, <3>3, <4>1, <5>1
      <4>2. QED
        BY <3>3, <4>1
    <3>4. CASE d # c
      BY <2>1, <3>2, <3>4
    <3>5. QED
      BY <3>3, <3>4
  <2>6. ServedTargetsLive'
    <3>1. SUFFICES ASSUME Intact, NEW d \in Channels, spc'[d] = "process_request",
                          cur'[d].target # None
                   PROVE  Live(cur'[d].target)
      BY <2>4
    <3>2. CASE d = c
      <4>1. AllTargetsLive(toRecv[c]) /\ 1 \in 1 .. Len(toRecv[c])
        BY <2>2, <3>1
      <4>2. cur'[d].target = toRecv[c][1].target
        BY <2>1, <2>2, <3>2
      <4>3. QED
        BY <3>1, <4>1, <4>2
    <3>3. CASE d # c
      <4>1. spc[d] = "process_request" /\ cur'[d] = cur[d]
        BY <2>1, <3>1, <3>3
      <4>2. QED
        BY <3>1, <4>1
    <3>4. QED
      BY <3>2, <3>3
  <2>7. TargetsHeld' /\ AnswersCurrent' /\ HandlesOfOpenChannel'
    BY <2>1
  <2>8. QED
    BY <2>5, <2>6, <2>7
<1>9. ASSUME NEW c \in Channels, ConnectionClosed(c) PROVE TargetInv'
  <2>1. /\ tableRaced => tableRaced'
        /\ \A d \in Channels : spc'[d] = "process_request" => spc[d] = "process_request"
        /\ UNCHANGED <<cur, persistence, wrapperVars, socketVars, incarnation>>
    BY <1>9 DEF ConnectionClosed
  <2>2. (Intact' => Intact) /\ \A x : Live(x)' <=> Live(x)
    BY <2>1
  <2>3. TargetsHeld' /\ AnswersCurrent' /\ HandlesOfOpenChannel'
    BY <2>1
  <2> HIDE DEF Intact, Live
  <2>4. SentTargetsLive' /\ ServedTargetsLive'
    BY <2>1, <2>2
  <2>5. QED
    BY <2>3, <2>4
<1>10. ASSUME NEW c \in Channels, Execute(c) PROVE TargetInv'
  <2>1. /\ tableRaced => tableRaced'
        /\ \A d \in Channels : spc'[d] = "process_request" => spc[d] = "process_request"
        /\ UNCHANGED <<cur, persistence, wrapperVars, socketVars, incarnation>>
    BY <1>10 DEF Execute
  <2>2. (Intact' => Intact) /\ \A x : Live(x)' <=> Live(x)
    BY <2>1
  <2>3. TargetsHeld' /\ AnswersCurrent' /\ HandlesOfOpenChannel'
    BY <2>1
  <2> HIDE DEF Intact, Live
  <2>4. SentTargetsLive' /\ ServedTargetsLive'
    BY <2>1, <2>2
  <2>5. QED
    BY <2>3, <2>4
<1>11. ASSUME NEW c \in Channels, BeginStore(c) PROVE TargetInv'
  <2>1. /\ tableRaced => tableRaced'
        /\ \A d \in Channels : spc'[d] = "process_request" => spc[d] = "process_request"
        /\ UNCHANGED <<cur, persistence, wrapperVars, socketVars, incarnation>>
    BY <1>11 DEF BeginStore
  <2>2. (Intact' => Intact) /\ \A x : Live(x)' <=> Live(x)
    BY <2>1
  <2>3. TargetsHeld' /\ AnswersCurrent' /\ HandlesOfOpenChannel'
    BY <2>1
  <2> HIDE DEF Intact, Live
  <2>4. SentTargetsLive' /\ ServedTargetsLive'
    BY <2>1, <2>2
  <2>5. QED
    BY <2>3, <2>4
<1>12. ASSUME NEW c \in Channels, EndStore(c) PROVE TargetInv'
  <2>1. /\ spc[c] = "storing"
        /\ persistence' = Put(persistence, cur[c].id, cur[c].call)
        /\ spc' = [spc EXCEPT ![c] = "write_frame"]
        /\ UNCHANGED <<alive, cur, counter, fds, tableRaced,
                       wrapperVars, socketVars, historyVars>>
    BY <1>12 DEF EndStore, Storing
  <2>2. cur[c].id \notin DOMAIN persistence
    BY <2>1 DEF ObjectInv, IdFreeUntilStored
  <2>3. \A i, k : Holds(i, k) => Holds(i, k)'
    BY <2>1, <2>2 DEF Put
  <2> HIDE DEF Holds
  <2>4. \A x : Live(x) => Live(x)'
    BY <2>1, <2>3
  <2> HIDE DEF Live
  <2>5. SentTargetsLive' /\ ServedTargetsLive'
    BY <2>1, <2>4
  <2>6. TargetsHeld' /\ AnswersCurrent' /\ HandlesOfOpenChannel'
    BY <2>1
  <2>7. QED
    BY <2>5, <2>6
<1>13. ASSUME NEW c \in Channels, StoreLost(c) PROVE TargetInv'
  BY <1>13 DEF StoreLost, Storing
<1>14. ASSUME NEW c \in Channels, TableHang(c) PROVE TargetInv'
  BY <1>14 DEF TableHang, UsesTable
<1>15. ASSUME NEW c \in Channels, WriteFrame(c) PROVE TargetInv'
  <2> DEFINE f == [call |-> cur[c].call, result |-> Result(cur[c].kind),
                   id |-> cur[c].id, inc |-> incarnation]
  <2>1. /\ spc[c] = "write_frame" /\ chan[c] = "open"
        /\ fromRecv' = [fromRecv EXCEPT ![c] = Append(@, f)]
        /\ spc' = [spc EXCEPT ![c] = "read_frame"]
        /\ \A d \in Channels \ {c} : cur'[d] = cur[d]
        /\ UNCHANGED <<persistence, tableRaced, chan, toRecv, wrapperVars, historyVars>>
    BY <1>15 DEF WriteFrame
  <2>2. f \in Responses
    BY <2>1 DEF JobSet, Busy, Jobs, Responses, Result
  <2>3. fromRecv[c] = <<>>
    BY <2>1 DEF ExchangeInv, OneInFlight, Busy
  <2>4. fromRecv'[c][1] = f
    BY <2>1, <2>2, <2>3, AppendToEmpty
  <2>5. AnswersCurrent'
    BY <2>1, <2>4
  <2>6. SentTargetsLive' /\ ServedTargetsLive'
    <3>1. (Intact' <=> Intact) /\ \A x : Live(x)' <=> Live(x)
      BY <2>1
    <3>2. \A d \in Channels : spc'[d] = "process_request" => spc[d] = "process_request" /\ d # c
      BY <2>1
    <3> HIDE DEF Intact, Live
    <3>3. SentTargetsLive'
      BY <2>1, <3>1
    <3>4. ServedTargetsLive'
      BY <2>1, <3>1, <3>2
    <3>5. QED
      BY <3>3, <3>4
  <2>7. TargetsHeld' /\ HandlesOfOpenChannel'
    BY <2>1
  <2>8. QED
    BY <2>5, <2>6, <2>7
<1>16. CASE Terminate
  BY <1>16 DEF Terminate
<1>17. CASE WrapperExit
  BY <1>17 DEF WrapperExit
<1>18. CASE ReceiverRestart
  <2>1. ~alive /\ UNCHANGED <<spc, wrapperVars, socketVars>>
    BY <1>18 DEF ReceiverRestart
  <2>2. \A d \in Channels :
           /\ chan[d] \in {"unused", "dead"}
           /\ spc[d] = "none"
           /\ toRecv[d] = <<>>
    BY <2>1 DEF OwnerInv, OpenAlive, ServesConnected, ExchangeInv, Drained
  <2>3. TargetsHeld' /\ AnswersCurrent'
    BY <2>1, <2>2
  <2>4. HandlesOfOpenChannel'
    BY <2>1, <2>2
  <2>5. SentTargetsLive' /\ ServedTargetsLive'
    BY <2>1, <2>2
  <2>6. QED
    BY <2>3, <2>4, <2>5
<1>19. CASE UNCHANGED vars
  BY <1>19
<1>20. QED
  BY <1>1, <1>2, <1>3, <1>4, <1>5, <1>6, <1>7, <1>8, <1>9, <1>10, <1>11,
     <1>12, <1>13, <1>14, <1>15, <1>16, <1>17, <1>18, <1>19, StepCases

CoreInv == ProtocolInv /\ ObjectInv /\ TargetInv

LEMMA CoreInvariant == Spec => []CoreInv
<1>1. Init => TargetInv
  BY TargetInvInit
<1>2. ProtocolInv /\ ObjectInv /\ TargetInv /\ [Next]_vars => TargetInv'
  BY TargetInvStep
<1>3. QED
  BY <1>1, <1>2, ProtocolInvariant, ObjectInvariant, PTL DEF Spec, CoreInv

LEMMA TargetsLive == TargetInv => TargetsResolve
BY DEF TargetInv, ServedTargetsLive, Intact, Live, Holds, TargetsResolve, Resolves

\* A handler's lookup finds the object the caller meant, in every behaviour whose
\* table is intact and, with thread-local channels, whose receiver never restarted.
THEOREM LookupsFindTargets == Spec => []TargetsResolve
BY CoreInvariant, TargetsLive, PTL DEF CoreInv

-----------------------------------------------------------------------------
(* What a step may do.                                                     *)

\* Only the end of a wrapper process leaves a connection without its wrapper.
LeftByExit == \A c \in Channels : chan[c] = "left" => exits > 0

LEMMA LeftByExitInit == Init => LeftByExit
BY DEF Init, LeftByExit

LEMMA LeftByExitStep == TypeInv /\ LeftByExit /\ [Next]_vars => LeftByExit'
<1> SUFFICES ASSUME TypeInv, LeftByExit, [Next]_vars PROVE LeftByExit'
  OBVIOUS
<1>0. /\ chan \in [Channels -> {"unused", "open", "left", "dead"}]
      /\ exits \in Nat
  BY DEF TypeInv, TypeOK
<1> USE <1>0 DEF LeftByExit, vars, wrapperVars, socketVars, receiverVars, historyVars
<1>1. ASSUME NEW t \in Threads,
             \/ StartCall(t) \/ Connect(t) \/ Acquire(t) \/ WriteRequest(t)
             \/ ReadResponse(t) \/ CallFails(t)
      PROVE  LeftByExit'
  BY <1>1 DEF StartCall, Connect, Acquire, WriteRequest, ReadResponse, CallFails
<1>2. ASSUME NEW c \in Channels,
             \/ Accept(c) \/ ReadFrame(c) \/ ConnectionClosed(c) \/ Execute(c)
             \/ BeginStore(c) \/ EndStore(c) \/ StoreLost(c) \/ TableHang(c)
             \/ WriteFrame(c)
      PROVE  LeftByExit'
  BY <1>2 DEF Accept, ReadFrame, ConnectionClosed, Execute, BeginStore, EndStore,
              StoreLost, TableHang, WriteFrame
<1>3. CASE Terminate \/ ReceiverRestart \/ UNCHANGED vars
  BY <1>3 DEF Terminate, ReceiverRestart
<1>4. CASE WrapperExit
  BY <1>4 DEF WrapperExit
<1>5. QED
  BY <1>1, <1>2, <1>3, <1>4, StepCases

LEMMA LeftByExitInvariant == Spec => [](CoreInv /\ LeftByExit)
<1>1. CoreInv => TypeInv
  BY DEF CoreInv, ProtocolInv
<1>2. QED
  BY <1>1, LeftByExitInit, LeftByExitStep, CoreInvariant, PTL DEF Spec

\* The library executes a call only while its caller waits, unless the caller's
\* process has ended: the one request in flight is the waiting thread's.
THEOREM NothingExecutesLate == Spec => NoLateExecution
<1> DEFINE InTime ==
      \A k \in Calls :
          runs'[k] # runs[k] =>
              \/ \E t \in Threads : pc[t] = "read" /\ req[t].call = k
              \/ exits > 0
<1>1. ASSUME CoreInv, LeftByExit, [Next]_vars PROVE InTime
  <2> SUFFICES ASSUME NEW k \in Calls, runs'[k] # runs[k]
               PROVE  \/ \E t \in Threads : pc[t] = "read" /\ req[t].call = k
                      \/ exits > 0
    OBVIOUS
  <2>1. PICK c \in Channels : Execute(c)
    <3>1. ASSUME NEW t \in Threads,
                 \/ StartCall(t) \/ Connect(t) \/ Acquire(t) \/ WriteRequest(t)
                 \/ ReadResponse(t) \/ CallFails(t)
          PROVE  FALSE
      BY <3>1 DEF StartCall, Connect, Acquire, WriteRequest, ReadResponse, CallFails,
                  historyVars
    <3>2. ASSUME NEW c \in Channels,
                 \/ Accept(c) \/ ReadFrame(c) \/ ConnectionClosed(c) \/ BeginStore(c)
                 \/ EndStore(c) \/ StoreLost(c) \/ TableHang(c) \/ WriteFrame(c)
          PROVE  FALSE
      BY <3>2 DEF Accept, ReadFrame, ConnectionClosed, BeginStore, EndStore, StoreLost,
                  TableHang, WriteFrame, historyVars
    <3>3. ~(Terminate \/ WrapperExit \/ ReceiverRestart \/ UNCHANGED vars)
      BY DEF Terminate, WrapperExit, ReceiverRestart, vars, historyVars
    <3>4. QED
      BY <1>1, <3>1, <3>2, <3>3, StepCases
  <2>2. cur[c].call = k /\ Busy(c)
    <3>1. runs' = [runs EXCEPT ![cur[c].call] = @ + 1] /\ spc[c] = "process_request"
      BY <2>1 DEF Execute
    <3>2. runs \in [Calls -> Nat]
      BY <1>1 DEF CoreInv, ProtocolInv, TypeInv, TypeOK
    <3>3. QED
      BY <3>1, <3>2 DEF Busy
  <2>3. chan[c] \in {"open", "left"}
    BY <1>1, <2>2 DEF CoreInv, ProtocolInv, OwnerInv, ServesConnected, Busy
  <2>4. CASE chan[c] = "left"
    BY <1>1, <2>4 DEF LeftByExit
  <2>5. CASE chan[c] = "open"
    <3>1. PICK t \in Threads : Reads(t, c)
      BY <1>1, <2>2, <2>5 DEF CoreInv, ProtocolInv, ExchangeInv, QuietUnlessRead
    <3>2. cur[c].call = req[t].call
      BY <1>1, <2>2, <3>1 DEF CoreInv, ProtocolInv, ExchangeInv, Matches, MatchesOn
    <3>3. QED
      BY <2>2, <3>1, <3>2 DEF Reads
  <2>6. QED
    BY <2>3, <2>4, <2>5
<1>2. CoreInv /\ LeftByExit /\ [Next]_vars => [InTime]_vars
  BY <1>1
<1>3. QED
  BY <1>2, LeftByExitInvariant, PTL DEF Spec, NoLateExecution

\* The receiver ends only where the code throws, dereferences null, runs out of
\* descriptors or writes to a closed socket, and a null pointer is found only after
\* a race on the table or, with thread-local channels, a restart.
THEOREM ReceiverEndsForAReason == Spec => ReceiverSurvives
<1> DEFINE Reason ==
      \/ \E c \in Channels : spc[c] = "process_request" /\ cur[c].kind = "unknown"
      \/ exits > 0
      \/ tableRaced
      \/ fds = FdLimit
      \/ MultiThreaded /\ incarnation > 0
<1>1. ASSUME CoreInv, LeftByExit, Next, alive, ~alive' PROVE Reason
  <2>1. ASSUME NEW t \in Threads, StartCall(t) \/ InCall(t) PROVE FALSE
    BY <1>1, <2>1 DEF StartCall, InCall, Connect, ConnectFails, Acquire, WriteRequest,
                      WriteFails, ReadResponse, ReadFails, receiverVars
  <2>2. ASSUME NEW c \in Channels,
               \/ Accept(c) \/ ReadFrame(c) \/ ConnectionClosed(c) \/ Execute(c)
               \/ BeginStore(c) \/ EndStore(c) \/ StoreLost(c) \/ TableHang(c)
               \/ WriteFrame(c)
        PROVE  FALSE
    BY <1>1, <2>2 DEF Accept, ReadFrame, ConnectionClosed, Execute, BeginStore,
                      EndStore, StoreLost, TableHang, WriteFrame
  <2>3. ASSUME NEW c \in Channels, NoHandler(c) PROVE Reason
    BY <2>3 DEF NoHandler
  <2>4. ASSUME NEW c \in Channels, NullDereference(c) PROVE Reason
    <3>1. spc[c] = "process_request" /\ cur[c].target # None /\ ~Resolves(cur[c].target)
      BY <2>4 DEF NullDereference, Resolves
    <3>2. TargetsResolve
      BY <1>1, TargetsLive DEF CoreInv
    <3>3. tableRaced \/ (MultiThreaded /\ incarnation # 0)
      BY <3>1, <3>2 DEF TargetsResolve
    <3>4. incarnation \in Nat
      BY <1>1 DEF CoreInv, ProtocolInv, TypeInv, TypeOK
    <3>5. QED
      BY <3>3, <3>4
  <2>5. ASSUME NEW c \in Channels, TableCrash(c) PROVE Reason
    BY <2>5 DEF TableCrash
  <2>6. ASSUME NEW c \in Channels, BrokenPipe(c) PROVE Reason
    BY <1>1, <2>6 DEF BrokenPipe, LeftByExit
  <2>7. CASE AcceptFails
    BY <2>7 DEF AcceptFails
  <2>8. ~(WrapperExit \/ ReceiverRestart \/ Quiescent)
    BY <1>1 DEF WrapperExit, ReceiverRestart, Quiescent, vars, receiverVars
  <2>9. QED
    BY <1>1, <2>1, <2>2, <2>3, <2>4, <2>5, <2>6, <2>7, <2>8 DEF Next, Serve
<1>2. CoreInv /\ LeftByExit /\ [Next]_vars => [alive /\ ~alive' => Reason]_vars
  BY <1>1
<1>3. QED
  BY <1>2, LeftByExitInvariant, PTL DEF Spec, ReceiverSurvives

-----------------------------------------------------------------------------
(* Layer 7: a call is in one place, and has run exactly if it is past that. *)

\* Call k is with thread t, which has not written its request.
Preparing(t, k) == pc[t] \in {"enter", "write"} /\ req[t].call = k

\* Call k is on connection c, and the library has not executed it.
Carries(c, k) ==
    \/ toRecv[c] # <<>> /\ toRecv[c][1].call = k
    \/ spc[c] = "process_request" /\ cur[c].call = k

\* Call k is on connection c, and the library has executed it.
Answers(c, k) ==
    \/ spc[c] \in {"store", "storing", "write_frame"} /\ cur[c].call = k
    \/ fromRecv[c] # <<>> /\ fromRecv[c][1].call = k

\* Connections whose wrapper left included.
OneOutstanding == \A c \in Channels : toRecv[c] = <<>> \/ (Len(toRecv[c]) = 1 /\ ~Busy(c))

CallsIssued ==
    /\ \A t \in Threads : pc[t] # "idle" => req[t].call < calls
    /\ \A c \in Channels, k \in Calls : Carries(c, k) => k < calls

OnePlace ==
    /\ \A t, u \in Threads :
          t # u /\ pc[t] # "idle" /\ pc[u] # "idle" => req[t].call # req[u].call
    /\ \A c, d \in Channels, k \in Calls : Carries(c, k) /\ Carries(d, k) => c = d
    /\ \A t \in Threads, c \in Channels, k \in Calls : ~(Preparing(t, k) /\ Carries(c, k))

RunsCounted ==
    /\ \A k \in Calls : k >= calls => runs[k] = 0
    /\ \A t \in Threads, k \in Calls : Preparing(t, k) => runs[k] = 0
    /\ \A c \in Channels, k \in Calls : Carries(c, k) => runs[k] = 0
    /\ \A c \in Channels, k \in Calls : Answers(c, k) => runs[k] = 1

OnceInv == OneOutstanding /\ CallsIssued /\ OnePlace /\ RunsCounted

LEMMA OnceInvInit == Init => OnceInv
BY DEF Init, OnceInv, OneOutstanding, CallsIssued, OnePlace, RunsCounted, Preparing,
       Carries, Answers, Calls

\* A step that issues nothing, executes nothing and puts no call where it was not.
Settles ==
    /\ UNCHANGED <<calls, runs>>
    /\ OneOutstanding'
    /\ \A t \in Threads :
          pc'[t] # "idle" => pc[t] # "idle" /\ req'[t].call = req[t].call
    /\ \A t \in Threads, k \in Calls : Preparing(t, k)' => Preparing(t, k)
    /\ \A c \in Channels, k \in Calls :
          /\ Carries(c, k)' => Carries(c, k)
          /\ Answers(c, k)' => Answers(c, k)

LEMMA SettlesKeeps == OnceInv /\ Settles => OnceInv'
<1> SUFFICES ASSUME OnceInv, Settles PROVE OnceInv'
  OBVIOUS
<1>1. OneOutstanding'
  BY DEF Settles
<1>2. CallsIssued'
  BY DEF Settles, OnceInv, CallsIssued
<1>3. OnePlace'
  BY DEF Settles, OnceInv, OnePlace
<1>4. RunsCounted'
  BY DEF Settles, OnceInv, RunsCounted
<1>5. QED
  BY <1>1, <1>2, <1>3, <1>4 DEF OnceInv

\* Steps of the wrapper that only move a thread.
LEMMA WrapperSettles ==
    ASSUME TypeInv, OnceInv, NEW t \in Threads,
           Connect(t) \/ Acquire(t) \/ CallFails(t)
    PROVE  Settles
<1>0. pc \in [Threads -> {"idle", "enter", "write", "read"}] /\ req \in [Threads -> Requests \cup {None}]
  BY DEF TypeInv, TypeOK
<1>1. /\ UNCHANGED <<calls, runs, toRecv, fromRecv, spc, cur>>
      /\ \A u \in Threads :
            pc'[u] # "idle" =>
                /\ pc[u] # "idle" /\ req'[u] = req[u]
                /\ pc'[u] \in {"enter", "write"} => pc[u] \in {"enter", "write"}
  BY <1>0 DEF Connect, Acquire, CallFails, EndCall, socketVars, receiverVars, historyVars
<1>2. OneOutstanding'
  BY <1>1 DEF OnceInv, OneOutstanding, Busy
<1>3. QED
  BY <1>1, <1>2 DEF Settles, Preparing, Carries, Answers

LEMMA ReadResponseSettles ==
    ASSUME TypeInv, OwnerInv, ExchangeInv, OnceInv, NEW t \in Threads, ReadResponse(t)
    PROVE  Settles
<1> DEFINE c == ChannelOf(t)
<1>0. /\ pc \in [Threads -> {"idle", "enter", "write", "read"}]
      /\ req \in [Threads -> Requests \cup {None}]
      /\ fromRecv \in [Channels -> Seq(Responses)]
  BY DEF TypeInv, TypeOK
<1>1. c \in Channels /\ fromRecv' = [fromRecv EXCEPT ![c] = <<>>]
  BY ReaderLeavesQuiet
<1>2. /\ UNCHANGED <<calls, runs, toRecv, spc, cur>>
      /\ \A u \in Threads :
            pc'[u] # "idle" => pc[u] # "idle" /\ pc'[u] = pc[u] /\ req'[u] = req[u]
  BY <1>0 DEF ReadResponse, EndCall, receiverVars
<1>3. \A d \in Channels : fromRecv'[d] = fromRecv[d] \/ fromRecv'[d] = <<>>
  BY <1>0, <1>1
<1>4. OneOutstanding'
  BY <1>2 DEF OnceInv, OneOutstanding, Busy
<1>5. QED
  BY <1>2, <1>3, <1>4 DEF Settles, Preparing, Carries, Answers

\* Steps of a receiver thread that stay on one side of the execution.
LEMMA ServeSettles ==
    ASSUME TypeInv, OnceInv, NEW c \in Channels,
           \/ Accept(c) \/ ConnectionClosed(c) \/ BeginStore(c) \/ EndStore(c)
           \/ StoreLost(c) \/ TableHang(c)
    PROVE  Settles
<1>0. spc \in [Channels -> ReceiverSteps]
  BY DEF TypeInv, TypeOK
<1>1. UNCHANGED <<calls, runs, pc, req, toRecv, fromRecv, cur>>
  BY DEF Accept, ConnectionClosed, BeginStore, EndStore, StoreLost, TableHang,
         wrapperVars, socketVars, historyVars
<1>2. \A d \in Channels :
         /\ spc'[d] = "process_request" => spc[d] = "process_request"
         /\ spc'[d] \in {"store", "storing", "write_frame"} =>
               spc[d] \in {"store", "storing", "write_frame"}
  BY <1>0 DEF Accept, ConnectionClosed, BeginStore, EndStore, StoreLost, TableHang,
              Storing, UsesTable
<1>3. OneOutstanding'
  BY <1>1, <1>2 DEF OnceInv, OneOutstanding, Busy
<1>4. QED
  BY <1>1, <1>2, <1>3 DEF Settles, Preparing, Carries, Answers

LEMMA ReadFrameSettles ==
    ASSUME TypeInv, OnceInv, NEW c \in Channels, ReadFrame(c)
    PROVE  Settles
<1> DEFINE r == Head(toRecv[c])
<1>1. /\ spc[c] = "read_frame" /\ toRecv[c] # <<>>
      /\ toRecv' = [toRecv EXCEPT ![c] = Tail(@)]
      /\ spc' = [spc EXCEPT ![c] = "process_request"]
      /\ cur' = [cur EXCEPT ![c] = [call |-> r.call, kind |-> r.kind,
                                     target |-> r.target, id |-> counter]]
      /\ UNCHANGED <<calls, runs, pc, req, fromRecv>>
  BY DEF ReadFrame, wrapperVars, historyVars
<1>2. /\ spc \in [Channels -> ReceiverSteps] /\ cur \in [Channels -> Jobs \cup {None}]
      /\ toRecv \in [Channels -> Seq(Requests)]
  BY DEF TypeInv, TypeOK
<1>3. r = toRecv[c][1] /\ Tail(toRecv[c]) = <<>>
  BY <1>1, <1>2, SingletonSeq DEF OnceInv, OneOutstanding
<1>4. toRecv'[c] = <<>> /\ spc'[c] = "process_request" /\ cur'[c].call = toRecv[c][1].call
  BY <1>1, <1>2, <1>3
<1>5. \A d \in Channels \ {c} : toRecv'[d] = toRecv[d] /\ spc'[d] = spc[d] /\ cur'[d] = cur[d]
  BY <1>1, <1>2
<1>6. OneOutstanding'
  BY <1>4, <1>5 DEF OnceInv, OneOutstanding, Busy
<1>7. \A d \in Channels, k \in Calls :
         /\ Carries(d, k)' => Carries(d, k)
         /\ Answers(d, k)' => Answers(d, k)
  <2> TAKE d \in Channels, k \in Calls
  <2>1. CASE d = c
    BY <1>1, <1>4, <2>1 DEF Carries, Answers
  <2>2. CASE d # c
    BY <1>1, <1>5, <2>2 DEF Carries, Answers
  <2>3. QED
    BY <2>1, <2>2
<1>8. QED
  BY <1>1, <1>6, <1>7 DEF Settles, Preparing

LEMMA WriteFrameSettles ==
    ASSUME TypeInv, OwnerInv, ExchangeInv, OnceInv, NEW c \in Channels, WriteFrame(c)
    PROVE  Settles
<1> DEFINE f == [call |-> cur[c].call, result |-> Result(cur[c].kind),
                 id |-> cur[c].id, inc |-> incarnation]
<1>1. /\ spc[c] = "write_frame" /\ chan[c] = "open"
      /\ fromRecv' = [fromRecv EXCEPT ![c] = Append(@, f)]
      /\ cur' = [cur EXCEPT ![c] = None]
      /\ spc' = [spc EXCEPT ![c] = "read_frame"]
      /\ UNCHANGED <<calls, runs, pc, req, toRecv>>
  BY DEF WriteFrame, wrapperVars, historyVars
<1>2. /\ spc \in [Channels -> ReceiverSteps] /\ cur \in [Channels -> Jobs \cup {None}]
      /\ fromRecv \in [Channels -> Seq(Responses)] /\ incarnation \in Nat
  BY DEF TypeInv, TypeOK
<1>3. f \in Responses
  BY <1>1, <1>2 DEF TypeInv, JobSet, Busy, Jobs, Responses, Result
<1>4. fromRecv[c] = <<>>
  BY <1>1 DEF ExchangeInv, OneInFlight, Busy
<1>5. fromRecv'[c][1].call = cur[c].call /\ spc'[c] = "read_frame"
  BY <1>1, <1>2, <1>3, <1>4, AppendToEmpty
<1>6. \A d \in Channels \ {c} : fromRecv'[d] = fromRecv[d] /\ spc'[d] = spc[d] /\ cur'[d] = cur[d]
  BY <1>1, <1>2
<1>7. OneOutstanding'
  BY <1>1, <1>5, <1>6 DEF OnceInv, OneOutstanding, Busy
<1>8. \A d \in Channels, k \in Calls :
         /\ Carries(d, k)' => Carries(d, k)
         /\ Answers(d, k)' => Answers(d, k)
  <2> TAKE d \in Channels, k \in Calls
  <2>1. CASE d = c
    BY <1>1, <1>5, <2>1 DEF Carries, Answers
  <2>2. CASE d # c
    BY <1>1, <1>6, <2>2 DEF Carries, Answers
  <2>3. QED
    BY <2>1, <2>2
<1>9. QED
  BY <1>1, <1>7, <1>8 DEF Settles, Preparing

\* The end and the start of a process.
LEMMA ProcessSettles ==
    ASSUME TypeInv, OnceInv, Terminate \/ WrapperExit \/ ReceiverRestart \/ UNCHANGED vars
    PROVE  Settles
<1>1. CASE Terminate
  <2>1. /\ UNCHANGED <<calls, runs, pc, req, fromRecv>>
        /\ \A c \in Channels : spc'[c] = "none" /\ toRecv'[c] = <<>>
    BY <1>1 DEF Terminate, wrapperVars, historyVars
  <2>2. OneOutstanding'
    BY <2>1 DEF OneOutstanding
  <2>3. QED
    BY <2>1, <2>2 DEF Settles, Preparing, Carries, Answers
<1>2. CASE WrapperExit
  <2>1. /\ UNCHANGED <<calls, runs, toRecv, spc, cur>>
        /\ \A t \in Threads : pc'[t] = "idle"
        /\ \A c \in Channels : fromRecv'[c] = <<>>
    BY <1>2 DEF WrapperExit, receiverVars
  <2>2. OneOutstanding'
    BY <2>1 DEF OnceInv, OneOutstanding, Busy
  <2>3. QED
    BY <2>1, <2>2 DEF Settles, Preparing, Carries, Answers
<1>3. CASE ReceiverRestart \/ UNCHANGED vars
  <2>1. UNCHANGED <<calls, runs, pc, req, toRecv, fromRecv, spc, cur>>
    BY <1>3 DEF ReceiverRestart, vars, wrapperVars, socketVars, receiverVars, historyVars
  <2>2. OneOutstanding'
    BY <2>1 DEF OnceInv, OneOutstanding, Busy
  <2>3. QED
    BY <2>1, <2>2 DEF Settles, Preparing, Carries, Answers
<1>4. QED
  BY <1>1, <1>2, <1>3

LEMMA StartCallOnce ==
    ASSUME TypeInv, OnceInv, NEW t \in Threads, StartCall(t)
    PROVE  OnceInv'
<1>0. /\ pc \in [Threads -> {"idle", "enter", "write", "read"}]
      /\ req \in [Threads -> Requests \cup {None}] /\ calls \in Nat
  BY DEF TypeInv, TypeOK
<1>1. /\ pc[t] = "idle" /\ calls < MaxCalls /\ calls' = calls + 1
      /\ pc'[t] = "enter" /\ req'[t].call = calls
      /\ \A u \in Threads \ {t} : pc'[u] = pc[u] /\ req'[u] = req[u]
      /\ UNCHANGED <<runs, toRecv, fromRecv, spc, cur>>
  BY <1>0 DEF StartCall, socketVars, receiverVars
<1>2. calls \in Calls /\ \A k \in Calls : k \in Nat
  BY <1>0, <1>1, ConstantsAssumption DEF Calls
<1>3. \A u \in Threads : pc[u] # "idle" => req[u].call \in Calls
  <2> SUFFICES ASSUME NEW u \in Threads, pc[u] # "idle" PROVE req[u].call \in Calls
    OBVIOUS
  <2>1. req[u] \in Requests
    BY <1>0 DEF TypeInv, RequestSet
  <2>2. QED
    BY <2>1 DEF Requests
<1>4. \A c \in Channels, k \in Calls :
         /\ Carries(c, k)' <=> Carries(c, k)
         /\ Answers(c, k)' <=> Answers(c, k)
  BY <1>1 DEF Carries, Answers
<1>5. \A u \in Threads, k \in Calls :
         Preparing(u, k)' => (u = t /\ k = calls) \/ Preparing(u, k)
  BY <1>1 DEF Preparing
<1>6. \A c \in Channels, k \in Calls : Carries(c, k) => k < calls
  BY DEF OnceInv, CallsIssued
<1>7. \A u \in Threads : pc[u] # "idle" => req[u].call < calls
  BY DEF OnceInv, CallsIssued
<1>8. OneOutstanding'
  BY <1>1 DEF OnceInv, OneOutstanding, Busy
<1>9. CallsIssued'
  <2>1. \A k \in Calls : k < calls => k < calls'
    BY <1>0, <1>1, <1>2
  <2>2. \A u \in Threads : pc'[u] # "idle" => req'[u].call < calls'
    <3> SUFFICES ASSUME NEW u \in Threads, pc'[u] # "idle" PROVE req'[u].call < calls'
      OBVIOUS
    <3>1. CASE u = t
      BY <1>0, <1>1, <3>1
    <3>2. CASE u # t
      BY <1>1, <1>3, <1>7, <2>1, <3>2
    <3>3. QED
      BY <3>1, <3>2
  <2>3. QED
    BY <1>4, <1>6, <2>1, <2>2 DEF CallsIssued
<1>10. OnePlace'
  <2>1. ASSUME NEW u \in Threads, u # t, pc[u] # "idle" PROVE req[u].call # calls
    BY <1>0, <1>2, <1>3, <1>7, <2>1
  <2>2. ASSUME NEW c \in Channels PROVE ~Carries(c, calls)
    BY <1>0, <1>2, <1>6
  <2>3. \A u, v \in Threads :
           u # v /\ pc'[u] # "idle" /\ pc'[v] # "idle" => req'[u].call # req'[v].call
    BY <1>1, <2>1 DEF OnceInv, OnePlace
  <2>4. \A u \in Threads, c \in Channels, k \in Calls : ~(Preparing(u, k)' /\ Carries(c, k)')
    BY <1>4, <1>5, <2>2 DEF OnceInv, OnePlace
  <2>5. QED
    BY <1>4, <2>3, <2>4 DEF OnceInv, OnePlace
<1>11. RunsCounted'
  <2>1. \A k \in Calls : k >= calls' => k >= calls
    BY <1>0, <1>1, <1>2
  <2>2. runs[calls] = 0
    BY <1>0, <1>2 DEF OnceInv, RunsCounted
  <2>3. QED
    BY <1>1, <1>4, <1>5, <2>1, <2>2 DEF OnceInv, RunsCounted
<1>12. QED
  BY <1>8, <1>9, <1>10, <1>11 DEF OnceInv

LEMMA WriteRequestOnce ==
    ASSUME TypeInv, OwnerInv, ExchangeInv, OnceInv, NEW t \in Threads, WriteRequest(t)
    PROVE  OnceInv'
<1> DEFINE c == ChannelOf(t)
<1>0. /\ pc \in [Threads -> {"idle", "enter", "write", "read"}]
      /\ req \in [Threads -> Requests \cup {None}]
      /\ toRecv \in [Channels -> Seq(Requests)]
  BY DEF TypeInv, TypeOK
<1>1. c \in Channels /\ toRecv[c] = <<>> /\ fromRecv[c] = <<>> /\ ~Busy(c)
  BY WriterFindsQuiet
<1>2. /\ pc[t] = "write" /\ pc'[t] = "read"
      /\ \A u \in Threads \ {t} : pc'[u] = pc[u]
      /\ toRecv' = [toRecv EXCEPT ![c] = Append(@, req[t])]
      /\ UNCHANGED <<req, calls, runs, fromRecv, spc, cur>>
  BY <1>0 DEF WriteRequest, receiverVars, historyVars
<1>3. req[t] \in Requests
  BY <1>0, <1>2 DEF TypeInv, RequestSet
<1>4. toRecv'[c] # <<>> /\ Len(toRecv'[c]) = 1 /\ toRecv'[c][1] = req[t]
  BY <1>0, <1>1, <1>2, <1>3, AppendToEmpty
<1>5. \A d \in Channels \ {c} : toRecv'[d] = toRecv[d]
  BY <1>0, <1>2
<1>6. OneOutstanding'
  BY <1>1, <1>2, <1>4, <1>5 DEF OnceInv, OneOutstanding, Busy
<1>7. \A d \in Channels, k \in Calls :
         /\ Carries(d, k)' => Carries(d, k) \/ (d = c /\ k = req[t].call)
         /\ Answers(d, k)' <=> Answers(d, k)
  BY <1>1, <1>2, <1>4, <1>5 DEF Carries, Answers, Busy
<1>8. \A u \in Threads, k \in Calls : Preparing(u, k)' => Preparing(u, k) /\ u # t
  BY <1>2 DEF Preparing
<1>9. req[t].call \in Calls /\ Preparing(t, req[t].call)
  BY <1>2, <1>3 DEF Requests, Preparing
<1>10. CallsIssued'
  BY <1>2, <1>7 DEF OnceInv, CallsIssued
<1>11. OnePlace'
  <2>1. \A d \in Channels : ~Carries(d, req[t].call)
    BY <1>9 DEF OnceInv, OnePlace
  <2>2. \A u \in Threads \ {t} : ~Preparing(u, req[t].call)
    BY <1>2 DEF OnceInv, OnePlace, Preparing
  <2>3. \A d, e \in Channels, k \in Calls : Carries(d, k)' /\ Carries(e, k)' => d = e
    BY <1>7, <2>1 DEF OnceInv, OnePlace
  <2>4. \A u \in Threads, d \in Channels, k \in Calls : ~(Preparing(u, k)' /\ Carries(d, k)')
    BY <1>7, <1>8, <2>2 DEF OnceInv, OnePlace
  <2>5. \A u, v \in Threads :
           u # v /\ pc'[u] # "idle" /\ pc'[v] # "idle" => req'[u].call # req'[v].call
    BY <1>2 DEF OnceInv, OnePlace
  <2>6. QED
    BY <2>3, <2>4, <2>5 DEF OnePlace
<1>12. RunsCounted'
  <2>1. runs[req[t].call] = 0
    BY <1>9 DEF OnceInv, RunsCounted
  <2>2. QED
    BY <1>2, <1>7, <1>8, <2>1 DEF OnceInv, RunsCounted
<1>13. QED
  BY <1>6, <1>10, <1>11, <1>12 DEF OnceInv

\* What an execution does to the count, and to the place of the call.
LEMMA ExecuteCounts ==
    ASSUME TypeInv, OnceInv, NEW c \in Channels, Execute(c)
    PROVE  LET k == cur[c].call IN
           /\ k \in Calls /\ k < calls /\ Carries(c, k)
           /\ runs[k] = 0 /\ runs' = [runs EXCEPT ![k] = 1]
<1> DEFINE k == cur[c].call
<1>1. spc[c] = "process_request" /\ runs' = [runs EXCEPT ![k] = @ + 1]
  BY DEF Execute
<1>2. k \in Calls /\ runs \in [Calls -> Nat]
  BY <1>1 DEF TypeInv, TypeOK, JobSet, Busy, Jobs
<1>3. Carries(c, k)
  BY <1>1 DEF Carries
<1>4. k < calls /\ runs[k] = 0
  BY <1>2, <1>3 DEF OnceInv, CallsIssued, RunsCounted
<1>5. QED
  BY <1>1, <1>2, <1>3, <1>4

LEMMA ExecuteOnce ==
    ASSUME TypeInv, OnceInv, NEW c \in Channels, Execute(c)
    PROVE  OnceInv'
<1> DEFINE k == cur[c].call
<1>0. spc \in [Channels -> ReceiverSteps] /\ runs \in [Calls -> Nat] /\ calls \in Nat
  BY DEF TypeInv, TypeOK
<1>1. /\ k \in Calls /\ k < calls /\ Carries(c, k)
      /\ runs[k] = 0 /\ runs' = [runs EXCEPT ![k] = 1]
  BY ExecuteCounts
<1>2. /\ spc[c] = "process_request" /\ spc'[c] \in {"store", "write_frame"}
      /\ \A d \in Channels \ {c} : spc'[d] = spc[d]
      /\ UNCHANGED <<calls, pc, req, toRecv, fromRecv, cur>>
  BY <1>0 DEF Execute, wrapperVars, socketVars
<1>3. toRecv[c] = <<>>
  BY <1>2 DEF OnceInv, OneOutstanding, Busy
<1>4. \A d \in Channels, j \in Calls :
         /\ Carries(d, j)' => Carries(d, j) /\ d # c
         /\ Answers(d, j)' => Answers(d, j) \/ j = k
  BY <1>2, <1>3 DEF Carries, Answers
<1>5. \A u \in Threads, j \in Calls : Preparing(u, j)' <=> Preparing(u, j)
  BY <1>2 DEF Preparing
<1>6. OneOutstanding'
  BY <1>2 DEF OnceInv, OneOutstanding, Busy
<1>7. CallsIssued'
  BY <1>2, <1>4 DEF OnceInv, CallsIssued
<1>8. OnePlace'
  BY <1>2, <1>4, <1>5 DEF OnceInv, OnePlace
<1>9. RunsCounted'
  <2>1. \A j \in Calls : j # k => runs'[j] = runs[j]
    BY <1>0, <1>1
  <2>2. runs'[k] = 1 /\ k \in Nat
    BY <1>0, <1>1 DEF Calls
  <2>3. \A j \in Calls : j >= calls => j # k
    BY <1>0, <1>1, <2>2
  <2>4. \A u \in Threads, j \in Calls : Preparing(u, j) => j # k
    BY <1>1 DEF OnceInv, OnePlace
  <2>5. \A d \in Channels, j \in Calls : Carries(d, j) /\ d # c => j # k
    BY <1>1 DEF OnceInv, OnePlace
  <2>6. \A j \in Calls : j >= calls' => runs'[j] = 0
    BY <1>2, <2>1, <2>3 DEF OnceInv, RunsCounted
  <2>7. \A u \in Threads, j \in Calls : Preparing(u, j)' => runs'[j] = 0
    BY <1>5, <2>1, <2>4 DEF OnceInv, RunsCounted
  <2>8. \A d \in Channels, j \in Calls : Carries(d, j)' => runs'[j] = 0
    BY <1>4, <2>1, <2>5 DEF OnceInv, RunsCounted
  <2>9. \A d \in Channels, j \in Calls : Answers(d, j)' => runs'[j] = 1
    BY <1>4, <2>1, <2>2 DEF OnceInv, RunsCounted
  <2>10. QED
    BY <2>6, <2>7, <2>8, <2>9 DEF RunsCounted
<1>10. QED
  BY <1>6, <1>7, <1>8, <1>9 DEF OnceInv

LEMMA OnceInvStep == ProtocolInv /\ OnceInv /\ [Next]_vars => OnceInv'
<1> SUFFICES ASSUME ProtocolInv, OnceInv, [Next]_vars PROVE OnceInv'
  OBVIOUS
<1>0. TypeInv /\ OwnerInv /\ ExchangeInv
  BY DEF ProtocolInv
<1>1. ASSUME NEW t \in Threads,
             \/ StartCall(t) \/ Connect(t) \/ Acquire(t) \/ WriteRequest(t)
             \/ ReadResponse(t) \/ CallFails(t)
      PROVE  OnceInv'
  BY <1>0, <1>1, StartCallOnce, WriteRequestOnce, WrapperSettles, ReadResponseSettles,
     SettlesKeeps
<1>2. ASSUME NEW c \in Channels,
             \/ Accept(c) \/ ReadFrame(c) \/ ConnectionClosed(c) \/ Execute(c)
             \/ BeginStore(c) \/ EndStore(c) \/ StoreLost(c) \/ TableHang(c)
             \/ WriteFrame(c)
      PROVE  OnceInv'
  BY <1>0, <1>2, ExecuteOnce, ServeSettles, ReadFrameSettles, WriteFrameSettles, SettlesKeeps
<1>3. CASE Terminate \/ WrapperExit \/ ReceiverRestart \/ UNCHANGED vars
  BY <1>0, <1>3, ProcessSettles, SettlesKeeps
<1>4. QED
  BY <1>1, <1>2, <1>3, StepCases

LEMMA OnceInvariant == Spec => [](ProtocolInv /\ OnceInv)
BY OnceInvInit, OnceInvStep, ProtocolInvariant, PTL DEF Spec

-----------------------------------------------------------------------------
(* Every step of RequestExchange is a step of RemoteCalls, or none.        *)

LEMMA WaitingNow == \A k : k \in Waiting <=> \E t \in Threads : pc[t] # "idle" /\ req[t].call = k
BY DEF Waiting

LEMMA WaitingNext ==
    \A k : k \in Waiting' <=> \E t \in Threads : pc'[t] # "idle" /\ req'[t].call = k
BY DEF Waiting

\* Thread t comes out of makeRequest: its call, and no other, stops waiting.
LEMMA EndsOneCall ==
    ASSUME TypeInv, OnceInv, NEW t \in Threads, pc[t] # "idle", EndCall(t)
    PROVE  req[t].call \in Waiting /\ Waiting' = Waiting \ {req[t].call}
<1>1. /\ pc \in [Threads -> {"idle", "enter", "write", "read"}]
      /\ req \in [Threads -> Requests \cup {None}]
  BY DEF TypeInv, TypeOK
<1>2. pc'[t] = "idle" /\ \A u \in Threads \ {t} : pc'[u] = pc[u] /\ req'[u] = req[u]
  BY <1>1 DEF EndCall
<1>3. \A u \in Threads \ {t} : pc[u] # "idle" => req[u].call # req[t].call
  BY DEF OnceInv, OnePlace
<1>4. \A k : k \in Waiting' <=> k \in Waiting /\ k # req[t].call
  BY <1>2, <1>3, WaitingNow, WaitingNext
<1>5. QED
  BY <1>4, WaitingNow

LEMMA StepRefines == ProtocolInv /\ OnceInv /\ [Next]_vars => [Promise!Next]_(Promise!vars)
<1> SUFFICES ASSUME ProtocolInv, OnceInv, [Next]_vars
             PROVE  Promise!Next \/ UNCHANGED Promise!vars
  OBVIOUS
<1>0. /\ TypeInv /\ OwnerInv /\ ExchangeInv
      /\ pc \in [Threads -> {"idle", "enter", "write", "read"}]
      /\ req \in [Threads -> Requests \cup {None}]
  BY DEF ProtocolInv, TypeInv, TypeOK
<1>1. ASSUME NEW t \in Threads, StartCall(t) PROVE Promise!Next
  <2>1. /\ pc[t] = "idle" /\ pc'[t] # "idle" /\ req'[t].call = calls
        /\ \A u \in Threads \ {t} : pc'[u] = pc[u] /\ req'[u] = req[u]
    BY <1>0, <1>1 DEF StartCall
  <2>2. \A k : k \in Waiting' <=> k \in Waiting \/ k = calls
    BY <2>1, WaitingNow, WaitingNext
  <2>3. Promise!Issue
    BY <1>1, <2>2 DEF StartCall, Promise!Issue
  <2>4. QED
    BY <2>3 DEF Promise!Next
<1>2. ASSUME NEW t \in Threads, Connect(t) \/ Acquire(t) \/ WriteRequest(t)
      PROVE  UNCHANGED Promise!vars
  <2>1. /\ \A u \in Threads : (pc'[u] # "idle" <=> pc[u] # "idle") /\ req'[u] = req[u]
        /\ UNCHANGED <<calls, runs, returned>>
    BY <1>0, <1>2 DEF Connect, Acquire, WriteRequest, historyVars
  <2>2. \A k : k \in Waiting' <=> k \in Waiting
    BY <2>1, WaitingNow, WaitingNext
  <2>3. QED
    BY <2>1, <2>2 DEF Promise!vars
<1>3. ASSUME NEW t \in Threads, ReadResponse(t) PROVE Promise!Next
  <2> DEFINE k == req[t].call
             c == ChannelOf(t)
  <2>1. c \in Channels /\ Reads(t, c)
    BY <1>0, <1>3, ReaderLeavesQuiet
  <2>2. pc[t] # "idle" /\ EndCall(t) /\ fromRecv[c] # <<>>
        /\ returned' = returned \cup {k} /\ UNCHANGED <<calls, runs>>
    BY <1>3 DEF ReadResponse
  <2>3. k \in Calls
    BY <1>0, <2>2 DEF TypeInv, RequestSet, Requests
  <2>4. fromRecv[c][1].call = k
    BY <1>0, <2>1, <2>2 DEF ExchangeInv, Matches, MatchesOn
  <2>5. runs[k] = 1
    BY <2>1, <2>2, <2>3, <2>4 DEF OnceInv, RunsCounted, Answers
  <2>6. Promise!Return(k)
    BY <1>0, <2>2, <2>5, EndsOneCall DEF Promise!Return
  <2>7. QED
    BY <2>3, <2>6 DEF Promise!Next, Promise!Calls, Calls
<1>4. ASSUME NEW t \in Threads, CallFails(t) PROVE Promise!Next
  <2>1. pc[t] # "idle" /\ EndCall(t) /\ UNCHANGED <<calls, runs, returned>>
    BY <1>4 DEF CallFails, historyVars
  <2>2. Promise!Lose({req[t].call}) /\ {req[t].call} \in SUBSET Waiting
    BY <1>0, <2>1, EndsOneCall DEF Promise!Lose
  <2>3. QED
    BY <2>2 DEF Promise!Next
<1>5. ASSUME NEW c \in Channels, Execute(c) PROVE Promise!Next
  <2> DEFINE k == cur[c].call
  <2>1. k \in Calls /\ k < calls /\ runs[k] = 0 /\ runs' = [runs EXCEPT ![k] = 1]
    BY <1>0, <1>5, ExecuteCounts
  <2>2. UNCHANGED <<pc, req, calls, returned>>
    BY <1>5 DEF Execute, wrapperVars
  <2>3. Waiting' = Waiting
    BY <2>2, WaitingNow, WaitingNext
  <2>4. Promise!Execute(k)
    BY <2>1, <2>2, <2>3 DEF Promise!Execute
  <2>5. QED
    BY <2>1, <2>4 DEF Promise!Next, Promise!Calls, Calls
<1>6. ASSUME NEW c \in Channels,
             \/ Accept(c) \/ ReadFrame(c) \/ ConnectionClosed(c) \/ BeginStore(c)
             \/ EndStore(c) \/ StoreLost(c) \/ TableHang(c) \/ WriteFrame(c)
      PROVE  UNCHANGED Promise!vars
  <2>1. UNCHANGED <<pc, req, calls, runs, returned>>
    BY <1>6 DEF Accept, ReadFrame, ConnectionClosed, BeginStore, EndStore, StoreLost,
                TableHang, WriteFrame, wrapperVars, historyVars
  <2>2. Waiting' = Waiting
    BY <2>1, WaitingNow, WaitingNext
  <2>3. QED
    BY <2>1, <2>2 DEF Promise!vars
<1>7. CASE Terminate \/ ReceiverRestart \/ UNCHANGED vars
  <2>1. UNCHANGED <<pc, req, calls, runs, returned>>
    BY <1>7 DEF Terminate, ReceiverRestart, vars, wrapperVars, historyVars
  <2>2. Waiting' = Waiting
    BY <2>1, WaitingNow, WaitingNext
  <2>3. QED
    BY <2>1, <2>2 DEF Promise!vars
<1>8. CASE WrapperExit
  <2>1. (\A t \in Threads : pc'[t] = "idle") /\ UNCHANGED <<calls, runs, returned>>
    BY <1>8 DEF WrapperExit
  <2>2. Waiting' = {}
    BY <2>1, WaitingNext
  <2>3. CASE Waiting = {}
    BY <2>1, <2>2, <2>3 DEF Promise!vars
  <2>4. CASE Waiting # {}
    <3>1. Promise!Lose(Waiting)
      BY <2>1, <2>2, <2>4 DEF Promise!Lose
    <3>2. QED
      BY <3>1 DEF Promise!Next
  <2>5. QED
    BY <2>3, <2>4
<1>9. QED
  BY <1>1, <1>2, <1>3, <1>4, <1>5, <1>6, <1>7, <1>8, StepCases

\* The exchange is an at-most-once call, whatever dies, is restarted or races: a
\* call is executed at most once, and returns only after it was (makeRequest,
\* sendRequest, process_channel).
THEOREM ExchangeImplementsCalls == Spec => Implements
<1>1. Init => Promise!Init
  BY WaitingNow DEF Init, Promise!Init, Promise!Calls, Calls, Waiting
<1>2. QED
  BY <1>1, StepRefines, OnceInvariant, PTL DEF Spec, Implements, Promise!Spec

=============================================================================
