--------------------------- MODULE RequestTransfer ---------------------------
(***************************************************************************)
(* A request's way from the wrapper's call through its bytes to a handler  *)
(* of the C++ receiver, and the way of the result back.  read_block takes  *)
(* one read() for the frame, so any number of its bytes may arrive; the    *)
(* rest of the array is zeros, and ParseFromArray's result is not looked   *)
(* at.  One wrapper thread; what threads do to each other is in            *)
(* RequestExchange, what a reader out of step does next in ByteFraming.    *)
(***************************************************************************)
EXTENDS WireMessages

CONSTANTS
    Methods,      \* what the receiver has handlers for
    Names,        \* names that can be imported
    Numbers,      \* values of primitive arguments and results
    Strings,      \* strings passed in place
    FirstId,      \* assigned_id_counter in the beginning
    FirstObjects, \* ids of the objects that were created before
    MaxRequests   \* bound: requests of the wrapper

Kinds == {"object", "number", "string", "boolean"}
Results == {"object", "number", "void"}

Parameters == [kind : Kinds, key : ByteStrings]

\* Each type and method that the receiver's handlers name, and each id, is a text.  The
\* one handler that is found by its name alone takes no arguments but its object.
ASSUME TransferAssumption ==
    /\ Methods \subseteq
            [name : Texts, type : Texts, object : BOOLEAN, static : BOOLEAN,
             params : Seq(Parameters), returns : BOOLEAN, result : Results, byName : BOOLEAN]
    /\ \A m \in Methods : m.byName => m.object /\ m.params = <<>>
    /\ Numbers \subseteq Int64s
    /\ Names \cup Strings \subseteq ByteStrings
    /\ FirstObjects \subseteq Texts
    /\ FirstId \in 0 .. 99
    /\ MaxRequests \in 0 .. 99 - FirstId

\* No request fits two handlers.
ASSUME HandlersDiffer ==
    \A m, l \in Methods : m.name = l.name /\ (m.byName \/ m.type = l.type) => m = l

VARIABLES
    phase,        \* where the request is
    calls,        \* requests made so far
    call,         \* the wrapper's request
    bytes,        \* the frame on the way
    cut,          \* history: the frame was cut
    rq,           \* the request as the receiver read it
    id,           \* the id of the response
    counter,      \* assigned_id_counter
    persistence,  \* ids of stored objects
    resp,         \* the response
    outcome,      \* history: what the handler did
    result        \* what the wrapper got

wrapperVars == <<calls, call>>
receiverVars == <<cut, rq, id, counter, persistence, resp, outcome>>
vars == <<phase, wrapperVars, bytes, receiverVars, result>>

Phases == {"idle", "sent", "read", "executed", "responded", "out of step", "ended"}

Nothing == [kind |-> "nothing", number |-> 0, id |-> <<>>]

\* std::to_string of the counter.
Decimal(n) ==
    IF n < 10 THEN <<48 + n>> ELSE <<48 + (n \div 10), 48 + (n % 10)>>

\* The counter has not reached the id of an object that was created before.
ASSUME FirstIdAssumption == \A n \in FirstId .. 99 : Decimal(n) \notin FirstObjects

TypeOK ==
    /\ phase \in Phases
    /\ calls \in 0 .. MaxRequests
    /\ call.kind \in {"nothing", "method", "import"}
    /\ bytes \in Seq(Nat)
    /\ cut \in BOOLEAN
    /\ counter \in FirstId .. FirstId + MaxRequests
    /\ persistence \subseteq FirstObjects \cup {Decimal(n) : n \in FirstId .. counter - 1}
    /\ outcome.kind \in Results \cup {"nothing"}
    /\ result.kind \in {"object", "number", "nothing", "illegal"}

Init ==
    /\ phase = "idle" /\ calls = 0 /\ call = Nothing
    /\ bytes = <<>> /\ cut = FALSE
    /\ rq = EmptyRequest /\ id = <<>>
    /\ counter = FirstId /\ persistence = FirstObjects
    /\ resp = EmptyChannelResponse
    /\ outcome = Nothing /\ result = Nothing

-----------------------------------------------------------------------------
(* The wrapper: makeRequest and toProtobuf.                                *)

\* The arguments that a parameter can be given.
Arguments(p) ==
    LET Some(numbers, strings) ==
            {[kind |-> p.kind, key |-> p.key, number |-> n, string |-> s] :
                n \in numbers, s \in strings}
    IN  CASE p.kind = "object" -> Some({0}, persistence)
          [] p.kind = "number" -> Some(Numbers, {<<>>})
          [] p.kind = "string" -> Some({0}, Strings)
          [] p.kind = "boolean" -> Some({0, 1}, {<<>>})

\* Mutant: a number is sent as its absolute value.
ValueProtoUnsigned(a) ==
    CASE a.kind = "number" ->
            set_int_value(EmptyValue, IF a.number < 0 THEN -a.number ELSE a.number)
      [] a.kind \in {"string", "object"} -> set_string_value(EmptyValue, a.string)
      [] OTHER -> EmptyValue

\* Number, Char and String have a branch, Boolean has none.
ValueProto(a) ==
    CASE a.kind = "number" -> set_int_value(EmptyValue, a.number)
      [] a.kind \in {"string", "object"} -> set_string_value(EmptyValue, a.string)
      [] OTHER -> EmptyValue

ArgumentProto(a) ==
    [set_value(EmptyArgument, ValueProto(a)) EXCEPT
        !.type = IF a.kind = "object" THEN PERSISTENCE ELSE INPLACE,
        !.key = a.key]

MethodCallProto(c) ==
    [methodname |-> c.method.name, type |-> c.method.type, object_id |-> c.objectID,
     arg |-> [i \in DOMAIN c.args |-> ArgumentProto(c.args[i])],
     static |-> c.method.static, do_get_return_value |-> c.method.returns,
     property |-> FALSE]

\* Nothing calls withID: assignedID is "".
RequestProto(c) ==
    IF c.kind = "method" THEN set_method_call(EmptyRequest, MethodCallProto(c))
    ELSE set_importation(EmptyRequest, [imported_name |-> c.name])

\* sendRequest writes the whole frame (how, is the subject of ByteFraming).
MakeRequest(c) ==
    /\ phase = "idle"
    /\ calls < MaxRequests
    /\ calls' = calls + 1
    /\ call' = c
    /\ bytes' = RequestBytes(RequestProto(c))
    /\ phase' = "sent"
    /\ outcome' = Nothing /\ result' = Nothing
    /\ UNCHANGED <<cut, rq, id, counter, persistence, resp>>

-----------------------------------------------------------------------------
(* The receiver: process_channel.                                          *)

\* A frame of which n bytes arrived.
Received(n) == [i \in DOMAIN bytes |-> IF i <= n THEN bytes[i] ELSE 0]

\* Mutant: the counter is not incremented.
ChooseIdAgain ==
    /\ id' = IF rq'.assigned_id # <<>> THEN rq'.assigned_id ELSE Decimal(counter)
    /\ UNCHANGED counter

\* The id that the request names, or the next one.
ChooseId ==
    IF rq'.assigned_id # <<>>
    THEN id' = rq'.assigned_id /\ UNCHANGED counter
    ELSE id' = Decimal(counter) /\ counter' = counter + 1

\* read_frame, ParseFromArray, and the choice of the id.
ReadFrame(n) ==
    /\ phase = "sent"
    /\ cut' = (n < Len(bytes))
    /\ rq' = ParseRequest(Received(n)).message
    /\ ChooseId
    /\ resp' = [EmptyChannelResponse EXCEPT !.assigned_id = id']
    /\ phase' = "read"
    /\ bytes' = <<>>
    /\ UNCHANGED <<wrapperVars, persistence, outcome, result>>

\* auto request = rq.method_call() copies.
Request == MergeMethodCallRequest(EmptyMethodCallRequest, method_call(rq))

\* The handlers compare type and name; only strlen is found by its name alone.
Handlers(r) == {m \in Methods : r.methodname = m.name /\ (m.byName \/ r.type = m.type)}

\* The ids that a handler looks up in persistence.
Lookups(m, r) ==
    {r.object_id : o \in {TRUE} \cap {m.object}}
        \cup {string_value(r.arg[i].value) :
                i \in {j \in DOMAIN m.params \cap DOMAIN r.arg :
                            m.params[j].kind = "object"}}

Found(m) ==
    /\ phase = "read"
    /\ rq.case = "method_call"
    /\ m \in Handlers(Request)

\* No case but kMethodCall is handled; the response has only its id.
SkipRequest ==
    /\ phase = "read"
    /\ rq.case # "method_call"
    /\ phase' = "executed"
    /\ UNCHANGED <<wrapperVars, bytes, receiverVars, result>>

\* "No handler found": a string literal is thrown, which nothing catches.
NoHandler ==
    /\ phase = "read"
    /\ rq.case = "method_call"
    /\ Handlers(Request) = {}
    /\ phase' = "ended"
    /\ UNCHANGED <<wrapperVars, bytes, receiverVars, result>>

\* operator[] gives a null pointer for an id that is not in the table, and the
\* handler dereferences it.
NullDereference(m) ==
    /\ Found(m)
    /\ ~(Lookups(m, Request) \subseteq persistence)
    /\ phase' = "ended"
    /\ UNCHANGED <<wrapperVars, bytes, receiverVars, result>>

\* Mutant: the number 0 is not put into the response.
ResponseOfNonZero(m, n) ==
    MergeChannelResponse(EmptyChannelResponse,
        IF m.result = "number" /\ n # 0
        THEN set_return_value(resp, set_int_value(return_value(resp), n)) ELSE resp)

\* An object is stored under the id of the response, a number is put into it.
\* process_request returns a copy of the response.
ResponseOf(m, n) ==
    MergeChannelResponse(EmptyChannelResponse,
        IF m.result = "number"
        THEN set_return_value(resp, set_int_value(return_value(resp), n)) ELSE resp)

\* The library is called, and returns n if it returns a number.
Execute(m, n) ==
    /\ Found(m)
    /\ Lookups(m, Request) \subseteq persistence
    /\ persistence' = persistence \cup {id : o \in {m.result} \cap {"object"}}
    /\ resp' = ResponseOf(m, n)
    /\ outcome' = CASE m.result = "number" -> [kind |-> "number", number |-> n, id |-> id]
                    [] OTHER -> [kind |-> m.result, number |-> 0, id |-> id]
    /\ phase' = "executed"
    /\ UNCHANGED <<wrapperVars, bytes, cut, rq, id, counter, result>>

\* SerializeToString and write_frame.
Respond ==
    /\ phase = "executed"
    /\ bytes' = ChannelResponseBytes(resp)
    /\ phase' = "responded"
    /\ UNCHANGED <<wrapperVars, receiverVars, result>>

-----------------------------------------------------------------------------
\* toProcessExchangeResponse, then bindTo, which takes the id, or asInstanceOf.
Converted(r) ==
    CASE r.case = "none" -> [kind |-> "object", number |-> 0, id |-> r.assigned_id]
      [] r.case = "return_value" /\ has_int_value(r.return_value) ->
            [kind |-> "number", number |-> int_value(r.return_value), id |-> r.assigned_id]
      [] OTHER -> [Nothing EXCEPT !.kind = "illegal"]

\* The wrapper reads the response.  If the receiver has read only a part of the
\* request, it takes the rest of it for the next frame.
ReadResponse ==
    /\ phase = "responded"
    /\ result' = Converted(ParseChannelResponse(bytes).message)
    /\ bytes' = <<>>
    /\ phase' = IF cut THEN "out of step" ELSE "idle"
    /\ UNCHANGED <<wrapperVars, receiverVars>>

\* The wrapper passes ids that it was given for objects.
CallMethod ==
    \E m \in Methods :
        \E object \in IF m.object THEN persistence ELSE {<<>>} :
            \E args \in [DOMAIN m.params ->
                            UNION {Arguments(m.params[i]) : i \in DOMAIN m.params}] :
                /\ \A i \in DOMAIN m.params : args[i] \in Arguments(m.params[i])
                /\ MakeRequest([kind |-> "method", method |-> m, objectID |-> object,
                                args |-> args])

Import == \E name \in Names : MakeRequest([kind |-> "import", name |-> name])

Next ==
    \/ CallMethod
    \/ Import
    \/ \E n \in DOMAIN bytes : ReadFrame(n)
    \/ SkipRequest
    \/ NoHandler
    \/ \E m \in Methods : NullDereference(m)
    \/ \E m \in Methods, n \in Numbers : Execute(m, n)
    \/ Respond
    \/ ReadResponse

Spec == Init /\ [][Next]_vars

-----------------------------------------------------------------------------
\* What a handler reads of an argument is what the wrapper passed.
ArgumentArrives(a, v) ==
    IF a.kind \in {"number", "boolean"} THEN int_value(v) = a.number
    ELSE string_value(v) = a.string

\* The request leads to the handler that was meant, its object and its arguments.
Faithful(r) ==
    /\ Handlers(r) = {call.method}
    /\ r.object_id = call.objectID
    /\ DOMAIN r.arg = DOMAIN call.args
    /\ \A i \in DOMAIN r.arg : ArgumentArrives(call.args[i], r.arg[i].value)

(***************************************************************************)
(* A method call that arrives whole leads to the handler of the method,    *)
(* and this reads the object and the arguments that the wrapper passed,    *)
(* through toProtobuf, the bytes, ParseFromArray and the copy of           *)
(* process_channel.                                                        *)
(***************************************************************************)
CallArrives == phase = "read" /\ ~cut /\ call.kind = "method" => Faithful(Request)

(***************************************************************************)
(* If only a part of a frame arrives and a handler runs and returns all    *)
(* the same, it is the handler of the method that was called, with the     *)
(* object and the arguments of the call: the zeros that read_block leaves  *)
(* never become another call, although nothing checks ParseFromArray.      *)
(***************************************************************************)
CutCallsUnchanged == cut /\ outcome.kind # "nothing" => Faithful(Request)

(***************************************************************************)
(* The wrapper gets the number that the handler returned, or the id of the *)
(* object that it stored; what has no result gives a handle whose id names *)
(* no object.                                                              *)
(***************************************************************************)
ResultArrives ==
    phase \in {"idle", "out of step"} /\ calls > 0 =>
        CASE outcome.kind = "number" ->
                result.kind = "number" /\ result.number = outcome.number
          [] outcome.kind = "object" ->
                result.kind = "object" /\ result.id = outcome.id /\ result.id \in persistence
          [] OTHER -> result.kind = "object" /\ result.id \notin persistence

(***************************************************************************)
(* The id that the receiver chooses for a request names no object: nothing *)
(* that is in persistence is replaced by another request's result.         *)
(***************************************************************************)
IdsFresh == phase = "read" => id \notin persistence

(***************************************************************************)
(* A Boolean argument arrives.                                             *)
(***************************************************************************)
BooleansArrive ==
    phase = "read" /\ ~cut /\ call.kind = "method" =>
        \A i \in DOMAIN call.args :
            call.args[i].kind = "boolean" =>
                ArgumentArrives(call.args[i], Request.arg[i].value)

=============================================================================
