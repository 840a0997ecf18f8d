------------------------------- MODULE Callbacks -------------------------------
(***************************************************************************)
(* Calls during which the receiver calls the wrapper back, on one channel. *)
(* The wrapper serves callbacks while it waits for the response, on the    *)
(* same thread, so that calls and callbacks are nested.  The receiver does *)
(* not wait for the response to a callback, and reads it later as if it    *)
(* were a request: by MessageCodec, one for a method without a name.       *)
(*                                                                         *)
(* do_callback is what a handler calls when the library calls a function   *)
(* that the handler gave to it; such handlers are not in the repository.   *)
(***************************************************************************)
EXTENDS Integers, Sequences, FiniteSets, SequencesExt

CONSTANTS
    Methods,      \* names of callbacks
    MaxCalls,     \* bound: calls in a behaviour
    MaxCallbacks  \* bound: callbacks in a behaviour

ASSUME CallbacksAssumption == MaxCalls \in Nat /\ MaxCallbacks \in Nat

Calls == 0 .. MaxCalls - 1

\* What the function that is registered for a callback does: it returns, uses the
\* object that the callback is for, or makes calls of its own.
Functions == {"returns", "uses object", "calls"}

VARIABLES
    \* the wrapper
    receivers,         \* the function registered for each method, or "none"
    constructor,       \* whether a constructor is registered for the empty name
    localPersistence,  \* whether the wrapper has an object under the empty id
    stack,             \* the calls and callbacks that the thread is in
    calls,             \* calls made
    answer,            \* the call whose response each call returned
    \* the channel
    toReceiver, toWrapper,
    \* the receiver
    serving,           \* the calls, at most one, whose handler runs
    counter,           \* assigned_id_counter
    persistence,       \* what each id names
    ended,             \* whether the process has ended
    callbacks,         \* callbacks made
    \* history
    broken,            \* whether a call ended by an exception or was made in a callback
    firstAfter         \* calls made when the first callback was answered

wrapperVars == <<receivers, constructor, localPersistence, stack, calls, answer>>
receiverVars == <<serving, counter, persistence, ended, callbacks>>
vars == <<wrapperVars, toReceiver, toWrapper, receiverVars, broken, firstAfter>>

Init ==
    /\ receivers = [m \in Methods |-> "none"]
    /\ constructor = FALSE
    /\ localPersistence = FALSE
    /\ stack = <<>>
    /\ calls = 0
    /\ answer = [k \in {} |-> 0]
    /\ toReceiver = <<>> /\ toWrapper = <<>>
    /\ serving = {}
    /\ counter = 0
    /\ persistence = [id \in {} |-> "result"]
    /\ ended = FALSE
    /\ callbacks = 0
    /\ broken = FALSE
    /\ firstAfter = MaxCalls

Put(table, key, value) ==
    [k \in DOMAIN table \cup {key} |-> IF k = key THEN value ELSE table[k]]

-----------------------------------------------------------------------------
(* The wrapper.                                                            *)

Top(what) == stack # <<>> /\ Last(stack).is = what

RegisterCallback(m, function) ==
    /\ receivers' = [receivers EXCEPT ![m] = function]
    /\ UNCHANGED <<constructor, localPersistence, stack, calls, answer, toReceiver,
                   toWrapper, receiverVars, broken, firstAfter>>

RegisterConstructor ==
    /\ constructor' = TRUE
    /\ UNCHANGED <<receivers, localPersistence, stack, calls, answer, toReceiver,
                   toWrapper, receiverVars, broken, firstAfter>>

\* An exception ends all calls and callbacks that the thread is in.  What the
\* receiver sends for them stays in the channel.
Unwind ==
    /\ stack' = <<>>
    /\ broken' = TRUE

\* A request is written; nobody reads it if the receiver has ended.
Call ==
    /\ calls < MaxCalls
    /\ stack = <<>> \/ (Top("callback") /\ Last(stack).function = "calls")
    /\ calls' = calls + 1
    /\ IF ended
       THEN Unwind /\ UNCHANGED toReceiver
       ELSE /\ stack' = Append(stack, [is |-> "call", call |-> calls])
            /\ toReceiver' = Append(toReceiver, [tag |-> "request", call |-> calls])
            /\ broken' = (broken \/ stack # <<>>)
    /\ UNCHANGED <<receivers, constructor, localPersistence, answer, toWrapper,
                   receiverVars, firstAfter>>

\* readResponse returns the first frame that is not a callback.
ReturnResponse ==
    /\ Top("call")
    /\ toWrapper # <<>> /\ Head(toWrapper).tag = "response"
    /\ toWrapper' = Tail(toWrapper)
    /\ answer' = Put(answer, Last(stack).call, Head(toWrapper).call)
    /\ stack' = Front(stack)
    /\ UNCHANGED <<receivers, constructor, localPersistence, calls, toReceiver,
                   receiverVars, broken, firstAfter>>

\* Mutant of ReadCallback: the call returns without a response.
ReadCallbackReturns ==
    /\ Top("call")
    /\ toWrapper # <<>> /\ Head(toWrapper).tag = "callback"
    /\ toWrapper' = Tail(toWrapper)
    /\ localPersistence' = (localPersistence \/ constructor)
    /\ LET function == receivers[Head(toWrapper).method]
       IN  IF function = "none" \/ (function = "uses object" /\ ~localPersistence')
           THEN stack' = Front(stack) /\ UNCHANGED broken
           ELSE /\ stack' = Append(stack, [is |-> "callback", function |-> function])
                /\ UNCHANGED broken
    /\ UNCHANGED <<receivers, constructor, calls, answer, toReceiver, receiverVars,
                   firstAfter>>

\* Mutant of ReadCallback: it waits until the callback is registered.
ReadCallbackWaits ==
    /\ Top("call")
    /\ toWrapper # <<>> /\ Head(toWrapper).tag = "callback"
    /\ receivers[Head(toWrapper).method] # "none"
    /\ toWrapper' = Tail(toWrapper)
    /\ localPersistence' = (localPersistence \/ constructor)
    /\ LET function == receivers[Head(toWrapper).method]
       IN  IF function = "none" \/ (function = "uses object" /\ ~localPersistence')
           THEN Unwind
           ELSE /\ stack' = Append(stack, [is |-> "callback", function |-> function])
                /\ UNCHANGED broken
    /\ UNCHANGED <<receivers, constructor, calls, answer, toReceiver, receiverVars,
                   firstAfter>>

\* readResponse calls handleRequest.  The object of the callback is looked up, made
\* and kept under the empty id; the function that needs it has none if there is no
\* constructor for the empty name.
ReadCallback ==
    /\ Top("call")
    /\ toWrapper # <<>> /\ Head(toWrapper).tag = "callback"
    /\ toWrapper' = Tail(toWrapper)
    /\ localPersistence' = (localPersistence \/ constructor)
    /\ LET function == receivers[Head(toWrapper).method]
       IN  IF function = "none" \/ (function = "uses object" /\ ~localPersistence')
           THEN Unwind
           ELSE /\ stack' = Append(stack, [is |-> "callback", function |-> function])
                /\ UNCHANGED broken
    /\ UNCHANGED <<receivers, constructor, calls, answer, toReceiver, receiverVars,
                   firstAfter>>

\* The function returns and the wrapper writes CALLBACK_RESPONSE.
FinishCallback ==
    /\ Top("callback")
    /\ IF ended
       THEN Unwind /\ UNCHANGED <<toReceiver, firstAfter>>
       ELSE /\ stack' = Front(stack)
            /\ toReceiver' = Append(toReceiver, [tag |-> "callback response"])
            /\ firstAfter' = Min({firstAfter, calls})
            /\ UNCHANGED broken
    /\ UNCHANGED <<receivers, constructor, localPersistence, calls, answer, toWrapper,
                   receiverVars>>

\* The channel is closed: read gets less than a field, which check does not accept.
ReadFails ==
    /\ Top("call")
    /\ ended /\ toWrapper = <<>>
    /\ Unwind
    /\ UNCHANGED <<receivers, constructor, localPersistence, calls, answer,
                   toReceiver, toWrapper, receiverVars, firstAfter>>

-----------------------------------------------------------------------------
(* The receiver.                                                           *)

\* Mutant of ReadFrame: the answer to a callback is skipped.
ReadFrameSkips ==
    /\ ~ended /\ serving = {}
    /\ toReceiver # <<>>
    /\ toReceiver' = Tail(toReceiver)
    /\ counter' = counter + 1
    /\ IF Head(toReceiver).tag = "request"
       THEN /\ serving' = {[call |-> Head(toReceiver).call, id |-> counter]}
            /\ UNCHANGED ended
       ELSE UNCHANGED <<serving, ended>>
    /\ UNCHANGED <<wrapperVars, toWrapper, persistence, callbacks, broken, firstAfter>>

\* Every frame is read as a request.  There is no handler for a method without a
\* name: the exception ends the process.
ReadFrame ==
    /\ ~ended /\ serving = {}
    /\ toReceiver # <<>>
    /\ toReceiver' = Tail(toReceiver)
    /\ counter' = counter + 1
    /\ IF Head(toReceiver).tag = "request"
       THEN /\ serving' = {[call |-> Head(toReceiver).call, id |-> counter]}
            /\ UNCHANGED ended
       ELSE ended' = TRUE /\ UNCHANGED serving
    /\ UNCHANGED <<wrapperVars, toWrapper, persistence, callbacks, broken, firstAfter>>

\* Mutant of DoCallback: the counter is incremented first.
DoCallbackPreIncrement(m, withObject) ==
    /\ callbacks < MaxCallbacks
    /\ \E job \in serving :
          toWrapper' = Append(toWrapper, [tag |-> "callback", method |-> m,
                                          call |-> job.call])
    /\ IF withObject
       THEN /\ counter' = counter + 1
            /\ persistence' = Put(persistence, counter + 1, "argument")
       ELSE UNCHANGED <<counter, persistence>>
    /\ callbacks' = callbacks + 1
    /\ UNCHANGED <<wrapperVars, toReceiver, serving, ended, broken, firstAfter>>

\* Mutant of DoCallback: the counter is not incremented.
DoCallbackSameId(m, withObject) ==
    /\ callbacks < MaxCallbacks
    /\ \E job \in serving :
          toWrapper' = Append(toWrapper, [tag |-> "callback", method |-> m,
                                          call |-> job.call])
    /\ IF withObject
       THEN /\ UNCHANGED counter
            /\ persistence' = Put(persistence, counter, "argument")
       ELSE UNCHANGED <<counter, persistence>>
    /\ callbacks' = callbacks + 1
    /\ UNCHANGED <<wrapperVars, toReceiver, serving, ended, broken, firstAfter>>

\* do_callback, with an object among its arguments or without.
DoCallback(m, withObject) ==
    /\ callbacks < MaxCallbacks
    /\ \E job \in serving :
          toWrapper' = Append(toWrapper, [tag |-> "callback", method |-> m,
                                          call |-> job.call])
    /\ IF withObject
       THEN /\ counter' = counter + 1
            /\ persistence' = Put(persistence, counter, "argument")
       ELSE UNCHANGED <<counter, persistence>>
    /\ callbacks' = callbacks + 1
    /\ UNCHANGED <<wrapperVars, toReceiver, serving, ended, broken, firstAfter>>

\* Mutant of Respond: the callbacks are written later than the response.
RespondOvertakes ==
    /\ \E job \in serving :
          /\ persistence' = Put(persistence, job.id, "result")
          /\ toWrapper' = <<[tag |-> "response", call |-> job.call]>> \o toWrapper
    /\ serving' = {}
    /\ UNCHANGED <<wrapperVars, toReceiver, counter, ended, callbacks, broken,
                   firstAfter>>

\* The handler has stored its result, and the response is written.
Respond ==
    /\ \E job \in serving :
          /\ persistence' = Put(persistence, job.id, "result")
          /\ toWrapper' = Append(toWrapper, [tag |-> "response", call |-> job.call])
    /\ serving' = {}
    /\ UNCHANGED <<wrapperVars, toReceiver, counter, ended, callbacks, broken,
                   firstAfter>>

-----------------------------------------------------------------------------
Register ==
    \/ \E m \in Methods, function \in Functions : RegisterCallback(m, function)
    \/ RegisterConstructor

ReceiverNext ==
    \/ ReadFrame
    \/ \E m \in Methods, withObject \in BOOLEAN : DoCallback(m, withObject)
    \/ Respond

Next ==
    \/ Register
    \/ Call \/ ReturnResponse \/ ReadCallback \/ FinishCallback \/ ReadFails
    \/ ReceiverNext

\* Threads run on; the library's function and those of the wrapper return.
Fairness ==
    /\ WF_vars(ReadFrame) /\ WF_vars(Respond)
    /\ WF_vars(ReturnResponse \/ ReadCallback \/ ReadFails)
    /\ WF_vars(FinishCallback)

Spec == Init /\ [][Next]_vars /\ Fairness

-----------------------------------------------------------------------------
TypeOK ==
    /\ receivers \in [Methods -> Functions \cup {"none"}]
    /\ constructor \in BOOLEAN /\ localPersistence \in BOOLEAN
    /\ stack \in Seq([is : {"call"}, call : Calls]
                        \cup [is : {"callback"}, function : Functions])
    /\ calls \in 0 .. MaxCalls
    /\ DOMAIN answer \subseteq Calls /\ \A k \in DOMAIN answer : answer[k] \in Calls
    /\ toReceiver \in Seq([tag : {"request"}, call : Calls]
                             \cup [tag : {"callback response"}])
    /\ toWrapper \in Seq([tag : {"response"}, call : Calls]
                            \cup [tag : {"callback"}, method : Methods, call : Calls])
    /\ serving \subseteq [call : Calls, id : Nat] /\ Cardinality(serving) <= 1
    /\ counter \in Nat
    /\ DOMAIN persistence \subseteq 0 .. counter - 1
    /\ ended \in BOOLEAN /\ broken \in BOOLEAN
    /\ callbacks \in 0 .. MaxCallbacks
    /\ firstAfter \in 0 .. MaxCalls

(***************************************************************************)
(* A call returns the response to its own request, also when callbacks are *)
(* served in between, as long as none of them failed or made a call.       *)
(***************************************************************************)
OwnResponse == ~broken => \A k \in DOMAIN answer : answer[k] = k

(***************************************************************************)
(* When the response to a request has been returned by some call, all      *)
(* callbacks that the handler made have been read by the wrapper.          *)
(***************************************************************************)
CallbacksFirst ==
    \A k \in DOMAIN answer, i \in DOMAIN toWrapper :
        toWrapper[i].tag = "callback" => toWrapper[i].call # answer[k]

(***************************************************************************)
(* The answer to a callback ends the receiver when it is read: no call     *)
(* made after a callback was answered returns its own response.            *)
(***************************************************************************)
NoneServedAfterAnswer == \A k \in DOMAIN answer : k >= firstAfter => answer[k] # k

(***************************************************************************)
(* An id names one thing: the id of a call, taken when its request is      *)
(* read, is not that of an object that its callbacks pass.                 *)
(***************************************************************************)
IdsNotShared ==
    [][\A id \in DOMAIN persistence : persistence'[id] = persistence[id]]_vars

\* The thread is in call k.
Within(k) == \E i \in DOMAIN stack : stack[i].is = "call" /\ stack[i].call = k

(***************************************************************************)
(* A call returns or fails, whatever callbacks are made in it, registered  *)
(* or not, and also if one of them has ended the receiver.                 *)
(***************************************************************************)
CallEnds == \A k \in Calls : Within(k) ~> ~Within(k)

=============================================================================
