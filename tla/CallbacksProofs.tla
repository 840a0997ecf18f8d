--------------------------- MODULE CallbacksProofs ---------------------------
(***************************************************************************)
(* Proofs about Callbacks, for every set of methods and any number of      *)
(* calls and callbacks.  The inductive invariant has five parts: types;    *)
(* the id of a call in service is unused; a request is in one place, its   *)
(* callbacks before its response; what was sent after the answer to a      *)
(* callback is behind that answer; and, as long as no callback failed or   *)
(* made a call, all that is under way belongs to the one call.             *)
(***************************************************************************)
EXTENDS Callbacks, FiniteSetTheorems, TLAPS

-----------------------------------------------------------------------------
(* The inductive invariant.                                                *)

Entries == [is : {"call"}, call : Calls] \cup [is : {"callback"}, function : Functions]

Sent == [tag : {"request"}, call : Calls] \cup [tag : {"callback response"}]

Received ==
    [tag : {"response"}, call : Calls]
        \cup [tag : {"callback"}, method : Methods, call : Calls]

\* The id of the call that is served is taken, and nothing is stored under it.
IdInv ==
    \A job \in serving :
        /\ job.id < counter
        /\ job.id \notin DOMAIN persistence
        /\ \A other \in serving : other = job

\* Where the request of call k, or its response, is.
Asked(k, i) ==
    i \in DOMAIN toReceiver /\ toReceiver[i].tag = "request" /\ toReceiver[i].call = k

InService(k) == \E job \in serving : job.call = k

Responded(k, i) ==
    i \in DOMAIN toWrapper /\ toWrapper[i].tag = "response" /\ toWrapper[i].call = k

CalledBack(k, i) ==
    i \in DOMAIN toWrapper /\ toWrapper[i].tag = "callback" /\ toWrapper[i].call = k

Answered(k) == \E l \in DOMAIN answer : answer[l] = k

\* Nothing is known of a call that was not made.
OnlyMade ==
    \A k \in Calls :
        (\E i \in Nat : Asked(k, i) \/ Responded(k, i) \/ CalledBack(k, i))
            \/ InService(k) \/ Answered(k) => k < calls

\* A request that waits is in the channel once, and nothing has come of it.
AskedOnce ==
    \A k \in Calls, i \in Nat :
        Asked(k, i) =>
            /\ \A j \in Nat : Asked(k, j) => j = i
            /\ ~InService(k) /\ ~Answered(k)
            /\ \A j \in Nat : ~Responded(k, j) /\ ~CalledBack(k, j)

ServedOnce ==
    \A k \in Calls :
        InService(k) => ~Answered(k) /\ \A j \in Nat : ~Responded(k, j)

RespondedOnce ==
    \A k \in Calls, i \in Nat :
        Responded(k, i) => ~Answered(k) /\ \A j \in Nat : Responded(k, j) => j = i

\* A callback that waits is of a call in service, or before the response.
CallbackBefore ==
    \A k \in Calls, i \in Nat :
        CalledBack(k, i) => InService(k) \/ \E j \in Nat : j > i /\ Responded(k, j)

PlaceInv == OnlyMade /\ AskedOnce /\ ServedOnce /\ RespondedOnce /\ CallbackBefore

AnswerAt(i) == i \in DOMAIN toReceiver /\ toReceiver[i].tag = "callback response"

\* Once a callback was answered, the answer waits, or the receiver has read it.
AnswerWaits == firstAfter = MaxCalls \/ ended \/ \E i \in Nat : AnswerAt(i)

\* Requests made since wait behind it, and are not served.
LateAreBehind ==
    \A k \in Calls, i \in Nat :
        Asked(k, i) /\ k >= firstAfter => ended \/ \E j \in Nat : j < i /\ AnswerAt(j)

LateNotServed ==
    \A k \in Calls :
        InService(k) \/ Answered(k) \/ (\E i \in Nat : Responded(k, i)) => k < firstAfter

LateInv == AnswerWaits /\ LateAreBehind /\ LateNotServed

\* All that is under way belongs to the call that the thread is in.
OneCall ==
    /\ Len(stack) <= 2
    /\ Len(stack) >= 1 => stack[1].is = "call"
    /\ Len(stack) = 2 => stack[2].is = "callback"
    /\ \A l \in DOMAIN answer : answer[l] = l
    /\ \A k \in Calls :
          InService(k) \/ (\E i \in Nat : Asked(k, i) \/ Responded(k, i)) =>
              stack # <<>> /\ stack[1].call = k

OwnInv == ~broken => OneCall

IInv == TypeOK /\ IdInv /\ PlaceInv /\ LateInv /\ OwnInv

-----------------------------------------------------------------------------
(* Sequences.                                                              *)

LEMMA AppendAt ==
    ASSUME NEW S, NEW q \in Seq(S), NEW e \in S
    PROVE  /\ Append(q, e) \in Seq(S)
           /\ Len(q) + 1 \in Nat /\ Len(q) + 1 \notin DOMAIN q
           /\ \A i \in Nat : i \in DOMAIN Append(q, e) <=> i \in DOMAIN q \/ i = Len(q) + 1
           /\ \A i \in DOMAIN q : i \in Nat /\ i < Len(q) + 1 /\ Append(q, e)[i] = q[i]
           /\ Append(q, e)[Len(q) + 1] = e
  OBVIOUS

LEMMA AppendLen ==
    ASSUME NEW S, NEW q \in Seq(S), NEW e \in S
    PROVE  Len(Append(q, e)) = Len(q) + 1
  OBVIOUS

LEMMA TailAt ==
    ASSUME NEW S, NEW q \in Seq(S), q # <<>>
    PROVE  /\ Tail(q) \in Seq(S)
           /\ 1 \in DOMAIN q /\ Head(q) = q[1] /\ Head(q) \in S
           /\ \A i \in Nat : i \in DOMAIN Tail(q) <=> i > 0 /\ i + 1 \in DOMAIN q
           /\ \A i \in DOMAIN Tail(q) : Tail(q)[i] = q[i + 1]
  OBVIOUS

LEMMA FrontAt ==
    ASSUME NEW S, NEW q \in Seq(S), q # <<>>
    PROVE  /\ Front(q) \in Seq(S)
           /\ Len(Front(q)) = Len(q) - 1
           /\ \A i \in 1 .. Len(q) - 1 : Front(q)[i] = q[i]
           /\ Last(q) = q[Len(q)] /\ Last(q) \in S
  <1>1. Len(q) \in Nat /\ Len(q) > 0
    OBVIOUS
  <1>2. Front(q) = [i \in 1 .. Len(q) - 1 |-> q[i]]
    BY <1>1 DEF Front
  <1>3. Front(q) \in Seq(S) /\ Len(Front(q)) = Len(q) - 1
    BY <1>1, <1>2
  <1>4. Last(q) = q[Len(q)] /\ Last(q) \in S
    BY <1>1 DEF Last
  <1> QED
    BY <1>2, <1>3, <1>4

\* The smaller of two numbers.
LEMMA MinOfTwo ==
    ASSUME NEW a \in Int, NEW b \in Int
    PROVE  Min({a, b}) = IF a <= b THEN a ELSE b
  <1>1. \E x \in {a, b} : \A y \in {a, b} : x <= y
    OBVIOUS
  <1>2. Min({a, b}) \in {a, b} /\ \A y \in {a, b} : Min({a, b}) <= y
    BY <1>1 DEF Min
  <1> QED
    BY <1>2

LEMMA StepCases ==
    ASSUME [Next]_vars
    PROVE  \/ \E m \in Methods, function \in Functions : RegisterCallback(m, function)
           \/ RegisterConstructor
           \/ Call \/ ReturnResponse \/ ReadCallback \/ FinishCallback \/ ReadFails
           \/ ReadFrame
           \/ \E m \in Methods, withObject \in BOOLEAN : DoCallback(m, withObject)
           \/ Respond
           \/ UNCHANGED vars
  BY DEF Next, Register, ReceiverNext

-----------------------------------------------------------------------------
(* Types.                                                                  *)

LEMMA TypesInit == Init => TypeOK
  <1> SUFFICES ASSUME Init PROVE TypeOK
    OBVIOUS
  <1>1. Cardinality(serving) <= 1
    <2>1. Cardinality({}) = 0
      BY FS_EmptySet, Zenon
    <2> QED
      BY <2>1 DEF Init
  <1>2. receivers \in [Methods -> Functions \cup {"none"}]
    BY DEF Init
  <1>3. calls \in 0 .. MaxCalls /\ callbacks \in 0 .. MaxCallbacks
        /\ firstAfter \in 0 .. MaxCalls /\ counter \in Nat
        /\ DOMAIN persistence \subseteq 0 .. counter - 1
    BY CallbacksAssumption DEF Init
  <1>4. DOMAIN answer = {} /\ serving = {} /\ stack = <<>> /\ toReceiver = <<>>
        /\ toWrapper = <<>>
    BY DEF Init
  <1>5. constructor \in BOOLEAN /\ localPersistence \in BOOLEAN /\ ended \in BOOLEAN
        /\ broken \in BOOLEAN
    BY DEF Init
  <1> QED
    BY <1>1, <1>2, <1>3, <1>4, <1>5 DEF TypeOK

LEMMA SingleJob ==
    ASSUME NEW job
    PROVE  Cardinality({job}) <= 1
  <1>1. Cardinality({job}) = 1
    BY FS_Singleton, Zenon
  <1> QED
    BY <1>1

LEMMA TypesStep == TypeOK /\ IdInv /\ [Next]_vars => TypeOK'
  <1> SUFFICES ASSUME TypeOK, IdInv, [Next]_vars PROVE TypeOK'
    OBVIOUS
  <1>t. stack \in Seq(Entries) /\ toReceiver \in Seq(Sent) /\ toWrapper \in Seq(Received)
    BY DEF TypeOK, Entries, Sent, Received
  <1>n. /\ calls \in Nat /\ calls <= MaxCalls /\ MaxCalls \in Nat
        /\ callbacks \in Nat /\ callbacks <= MaxCallbacks /\ MaxCallbacks \in Nat
        /\ counter \in Nat /\ firstAfter \in Nat /\ firstAfter <= MaxCalls
        /\ DOMAIN persistence \subseteq 0 .. counter - 1
    <2>1. MaxCalls \in Nat /\ MaxCallbacks \in Nat
      BY CallbacksAssumption
    <2>2. calls \in 0 .. MaxCalls /\ callbacks \in 0 .. MaxCallbacks
          /\ firstAfter \in 0 .. MaxCalls /\ counter \in Nat
          /\ DOMAIN persistence \subseteq 0 .. counter - 1
      BY DEF TypeOK
    <2> QED
      BY <2>1, <2>2
  <1>s. SUFFICES /\ receivers' \in [Methods -> Functions \cup {"none"}]
                 /\ constructor' \in BOOLEAN /\ localPersistence' \in BOOLEAN
                 /\ stack' \in Seq(Entries)
                 /\ calls' \in 0 .. MaxCalls
                 /\ DOMAIN answer' \subseteq Calls
                 /\ \A k \in DOMAIN answer' : answer'[k] \in Calls
                 /\ toReceiver' \in Seq(Sent)
                 /\ toWrapper' \in Seq(Received)
                 /\ serving' \subseteq [call : Calls, id : Nat]
                 /\ Cardinality(serving') <= 1
                 /\ counter' \in Nat
                 /\ DOMAIN persistence' \subseteq 0 .. counter' - 1
                 /\ ended' \in BOOLEAN /\ broken' \in BOOLEAN
                 /\ callbacks' \in 0 .. MaxCallbacks
                 /\ firstAfter' \in 0 .. MaxCalls
    BY DEF TypeOK, Entries, Sent, Received
  <1>e. <<>> \in Seq(Entries)
    OBVIOUS
  <1>1. CASE \E m \in Methods, function \in Functions : RegisterCallback(m, function)
    BY <1>1, <1>t DEF RegisterCallback, TypeOK, receiverVars
  <1>2. CASE RegisterConstructor
    BY <1>2, <1>t DEF RegisterConstructor, TypeOK, receiverVars
  <1>3. CASE Call
    <2>1. calls \in Calls
      BY <1>3, <1>n DEF Call, Calls
    <2>2. /\ [is |-> "call", call |-> calls] \in Entries
          /\ [tag |-> "request", call |-> calls] \in Sent
      BY <2>1 DEF Entries, Sent
    <2>3. stack' \in Seq(Entries) /\ toReceiver' \in Seq(Sent)
      <3>1. CASE ended
        BY <1>3, <3>1, <1>t, <1>e DEF Call, Unwind
      <3>2. CASE ~ended
        <4>1. Append(stack, [is |-> "call", call |-> calls]) \in Seq(Entries)
          BY <1>t, <2>2, AppendAt
        <4>2. Append(toReceiver, [tag |-> "request", call |-> calls]) \in Seq(Sent)
          BY <1>t, <2>2, AppendAt
        <4> QED
          BY <1>3, <3>2, <4>1, <4>2 DEF Call
      <3> QED
        BY <3>1, <3>2
    <2>5. calls' \in 0 .. MaxCalls
      BY <1>3, <1>n DEF Call
    <2>4. broken' \in BOOLEAN
      BY <1>3, Zenon DEF Call, Unwind, TypeOK
    <2> QED
      <3>1. UNCHANGED <<receivers, constructor, localPersistence, answer, toWrapper,
                        serving, counter, persistence, ended, callbacks, firstAfter>>
        BY <1>3 DEF Call, receiverVars
      <3> QED
        BY <3>1, <1>t, <2>3, <2>4, <2>5 DEF TypeOK
  <1>4. CASE ReturnResponse
    <2>1. stack # <<>> /\ toWrapper # <<>>
      BY <1>4 DEF ReturnResponse, Top
    <2>2. Last(stack) \in Entries /\ Last(stack).is = "call" /\ Head(toWrapper) \in Received
          /\ Head(toWrapper).tag = "response"
      BY <1>4, <2>1, <1>t, FrontAt, TailAt DEF ReturnResponse, Top
    <2>3. Last(stack).call \in Calls /\ Head(toWrapper).call \in Calls
      BY <2>2 DEF Entries, Received
    <2>4. stack' \in Seq(Entries) /\ toWrapper' \in Seq(Received)
      BY <1>4, <2>1, <1>t, FrontAt, TailAt DEF ReturnResponse
    <2>5. DOMAIN answer' \subseteq Calls /\ \A k \in DOMAIN answer' : answer'[k] \in Calls
      BY <1>4, <2>3 DEF ReturnResponse, Put, TypeOK
    <2> QED
      BY <1>4, <1>t, <2>4, <2>5 DEF ReturnResponse, TypeOK, receiverVars
  <1>5. CASE ReadCallback
    <2> DEFINE function == receivers[Head(toWrapper).method]
    <2>1. toWrapper # <<>> /\ Head(toWrapper).tag = "callback"
      BY <1>5 DEF ReadCallback
    <2>2. Head(toWrapper) \in Received /\ toWrapper' \in Seq(Received)
      BY <1>5, <1>t, <2>1, TailAt DEF ReadCallback
    <2>3. function \in Functions \cup {"none"}
      BY <2>1, <2>2 DEF Received, TypeOK
    <2>4. function # "none" => [is |-> "callback", function |-> function] \in Entries
      BY <2>3 DEF Entries
    <2>5. stack' \in Seq(Entries)
      <3>1. stack' = <<>> \/ (/\ function # "none"
                              /\ stack' = Append(stack, [is |-> "callback",
                                                         function |-> function]))
        BY <1>5 DEF ReadCallback, Unwind
      <3>2. CASE function # "none"
        <4>1. Append(stack, [is |-> "callback", function |-> function]) \in Seq(Entries)
          BY <3>2, <1>t, <2>4, AppendAt
        <4> QED
          BY <3>1, <4>1, <1>e
      <3> QED
        BY <3>1, <3>2, <1>e
    <2>6. broken' \in BOOLEAN /\ localPersistence' \in BOOLEAN
      BY <1>5, Zenon DEF ReadCallback, Unwind, TypeOK
    <2> QED
      BY <1>5, <1>t, <2>2, <2>5, <2>6 DEF ReadCallback, TypeOK, receiverVars
  <1>6. CASE FinishCallback
    <2>1. stack # <<>>
      BY <1>6 DEF FinishCallback, Top
    <2>2. [tag |-> "callback response"] \in Sent
      BY DEF Sent
    <2>3. stack' \in Seq(Entries) /\ toReceiver' \in Seq(Sent)
      <3>1. CASE ended
        BY <1>6, <3>1, <1>t, <1>e DEF FinishCallback, Unwind
      <3>2. CASE ~ended
        <4>1. Front(stack) \in Seq(Entries)
          BY <1>t, <2>1, FrontAt
        <4>2. Append(toReceiver, [tag |-> "callback response"]) \in Seq(Sent)
          BY <1>t, <2>2, AppendAt
        <4> QED
          BY <1>6, <3>2, <4>1, <4>2 DEF FinishCallback
      <3> QED
        BY <3>1, <3>2
    <2>4. firstAfter' \in 0 .. MaxCalls
      <3>1. Min({firstAfter, calls}) \in 0 .. MaxCalls
        BY <1>n, MinOfTwo
      <3> QED
        BY <1>6, <3>1 DEF FinishCallback, TypeOK
    <2>5. broken' \in BOOLEAN
      BY <1>6, Zenon DEF FinishCallback, Unwind, TypeOK
    <2> QED
      BY <1>6, <1>t, <2>3, <2>4, <2>5 DEF FinishCallback, TypeOK, receiverVars
  <1>7. CASE ReadFails
    BY <1>7, <1>t, <1>e DEF ReadFails, Unwind, TypeOK, receiverVars
  <1>8. CASE ReadFrame
    <2>1. toReceiver # <<>> /\ Head(toReceiver) \in Sent /\ toReceiver' \in Seq(Sent)
      BY <1>8, <1>t, TailAt DEF ReadFrame
    <2>2. Head(toReceiver).tag = "request" => Head(toReceiver).call \in Calls
      BY <2>1 DEF Sent
    <2>3. serving' \subseteq [call : Calls, id : Nat]
      <3>1. counter \in Nat /\ serving \subseteq [call : Calls, id : Nat]
        BY DEF TypeOK
      <3> QED
        BY <1>8, <3>1, <2>2 DEF ReadFrame
    <2>4. Cardinality(serving') <= 1
      BY <1>8, SingleJob DEF ReadFrame, TypeOK
    <2>5. ended' \in BOOLEAN
      BY <1>8 DEF ReadFrame, TypeOK
    <2>6. counter' \in Nat /\ DOMAIN persistence' \subseteq 0 .. counter' - 1
      BY <1>8, <1>n DEF ReadFrame
    <2> QED
      BY <1>8, <1>t, <2>1, <2>3, <2>4, <2>5, <2>6 DEF ReadFrame, TypeOK, wrapperVars
  <1>9. CASE \E m \in Methods, withObject \in BOOLEAN : DoCallback(m, withObject)
    <2> PICK m \in Methods, withObject \in BOOLEAN : DoCallback(m, withObject)
      BY <1>9
    <2> PICK job \in serving :
           toWrapper' = Append(toWrapper, [tag |-> "callback", method |-> m,
                                           call |-> job.call])
      BY DEF DoCallback
    <2>1. [tag |-> "callback", method |-> m, call |-> job.call] \in Received
      BY DEF Received, TypeOK
    <2>2. toWrapper' \in Seq(Received)
      BY <1>t, <2>1, AppendAt
    <2>3. counter' \in Nat /\ DOMAIN persistence' \subseteq 0 .. counter' - 1
      <3>1. CASE withObject
        <4>1. counter' = counter + 1 /\ DOMAIN persistence' = DOMAIN persistence \cup {counter}
          BY <3>1 DEF DoCallback, Put
        <4> QED
          BY <1>n, <4>1
      <3>2. CASE ~withObject
        BY <1>n, <3>2 DEF DoCallback
      <3> QED
        BY <3>1, <3>2
    <2>4. callbacks' \in 0 .. MaxCallbacks
      BY <1>n DEF DoCallback
    <2> QED
      BY <1>t, <2>2, <2>3, <2>4 DEF DoCallback, TypeOK, wrapperVars
  <1>10. CASE Respond
    <2> PICK job \in serving :
           /\ persistence' = Put(persistence, job.id, "result")
           /\ toWrapper' = Append(toWrapper, [tag |-> "response", call |-> job.call])
      BY <1>10 DEF Respond
    <2>0. job.id \in Nat /\ job.call \in Calls
      BY DEF TypeOK
    <2>1. job.id \in 0 .. counter - 1 /\ [tag |-> "response", call |-> job.call] \in Received
      BY <1>n, <2>0 DEF Received, IdInv
    <2>2. toWrapper' \in Seq(Received)
      BY <1>t, <2>1, AppendAt
    <2>3. DOMAIN persistence' \subseteq 0 .. counter - 1
      BY <2>1, <1>n DEF Put
    <2>4. serving' = {} /\ Cardinality(serving') <= 1
      <3>1. Cardinality({}) = 0
        BY FS_EmptySet, Zenon
      <3> QED
        BY <1>10, <3>1 DEF Respond
    <2> QED
      BY <1>10, <1>t, <2>2, <2>3, <2>4 DEF Respond, TypeOK, wrapperVars
  <1>11. CASE UNCHANGED vars
    BY <1>11, <1>t DEF vars, wrapperVars, receiverVars, TypeOK
  <1> QED
    BY <1>1, <1>2, <1>3, <1>4, <1>5, <1>6, <1>7, <1>8, <1>9, <1>10, <1>11, StepCases

-----------------------------------------------------------------------------
(* Ids.                                                                    *)

LEMMA IdsInit == Init => IdInv
  BY DEF Init, IdInv

LEMMA IdsStep == TypeOK /\ IdInv /\ [Next]_vars => IdInv'
  <1> SUFFICES ASSUME TypeOK, IdInv, [Next]_vars PROVE IdInv'
    OBVIOUS
  <1>t. counter \in Nat /\ DOMAIN persistence \subseteq 0 .. counter - 1
        /\ \A job \in serving : job.id \in Nat
    BY DEF TypeOK
  <1>1. CASE ReadFrame
    BY <1>1, <1>t DEF ReadFrame, IdInv
  <1>2. CASE \E m \in Methods, withObject \in BOOLEAN : DoCallback(m, withObject)
    BY <1>2, <1>t DEF DoCallback, Put, IdInv
  <1>3. CASE Respond
    BY <1>3 DEF Respond, IdInv
  <1>4. CASE UNCHANGED receiverVars
    BY <1>4 DEF receiverVars, IdInv
  <1>5. \/ ReadFrame
        \/ \E m \in Methods, withObject \in BOOLEAN : DoCallback(m, withObject)
        \/ Respond
        \/ UNCHANGED receiverVars
    BY StepCases DEF RegisterCallback, RegisterConstructor, Call, ReturnResponse,
        ReadCallback, FinishCallback, ReadFails, vars
  <1> QED
    BY <1>1, <1>2, <1>3, <1>4, <1>5

-----------------------------------------------------------------------------
(* What each step does to the places of requests, callbacks and responses. *)

SameRequests ==
    /\ \A k \in Calls, i \in Nat : Asked(k, i)' <=> Asked(k, i)
    /\ \A i \in Nat : AnswerAt(i)' <=> AnswerAt(i)

LEMMA RequestsKept == UNCHANGED toReceiver => SameRequests
  BY DEF SameRequests, Asked, AnswerAt

SameResponses ==
    \A k \in Calls, i \in Nat :
        (Responded(k, i)' <=> Responded(k, i)) /\ (CalledBack(k, i)' <=> CalledBack(k, i))

LEMMA ResponsesKept == UNCHANGED toWrapper => SameResponses
  BY DEF SameResponses, Responded, CalledBack

\* The places behind the last frame are free.
LEMMA PlacesAreTyped ==
    ASSUME TypeOK
    PROVE  /\ Len(toReceiver) + 1 \in Nat
           /\ \A i \in DOMAIN toReceiver : i \in Nat /\ i > 0 /\ i < Len(toReceiver) + 1
           /\ Len(toWrapper) + 1 \in Nat
           /\ \A i \in DOMAIN toWrapper : i \in Nat /\ i > 0 /\ i < Len(toWrapper) + 1
  <1>1. toReceiver \in Seq(Sent) /\ toWrapper \in Seq(Received)
    BY DEF TypeOK, Sent, Received
  <1> QED
    BY <1>1

LEMMA FrameSent ==
    ASSUME TypeOK, NEW frame \in Sent, toReceiver' = Append(toReceiver, frame)
    PROVE  /\ \A k \in Calls, i \in Nat :
                 Asked(k, i)' <=>
                    \/ Asked(k, i)
                    \/ i = Len(toReceiver) + 1 /\ frame.tag = "request" /\ frame.call = k
           /\ \A i \in Nat :
                 AnswerAt(i)' <=>
                    \/ AnswerAt(i)
                    \/ i = Len(toReceiver) + 1 /\ frame.tag = "callback response"
  <1>1. toReceiver \in Seq(Sent)
    BY DEF TypeOK, Sent
  <1>2. /\ \A i \in Nat : i \in DOMAIN toReceiver' <=>
                              i \in DOMAIN toReceiver \/ i = Len(toReceiver) + 1
        /\ \A i \in DOMAIN toReceiver : toReceiver'[i] = toReceiver[i]
        /\ toReceiver'[Len(toReceiver) + 1] = frame
        /\ Len(toReceiver) + 1 \notin DOMAIN toReceiver
    BY <1>1, AppendAt
  <1> QED
    BY <1>2 DEF Asked, AnswerAt

LEMMA RequestSent ==
    ASSUME TypeOK, calls \in Calls,
           toReceiver' = Append(toReceiver, [tag |-> "request", call |-> calls])
    PROVE  /\ \A k \in Calls, i \in Nat :
                 Asked(k, i)' <=> Asked(k, i) \/ (i = Len(toReceiver) + 1 /\ k = calls)
           /\ \A i \in Nat : AnswerAt(i)' <=> AnswerAt(i)
  <1> DEFINE frame == [tag |-> "request", call |-> calls]
  <1>1. frame \in Sent /\ frame.tag = "request" /\ frame.call = calls
    BY DEF Sent
  <1>2. toReceiver' = Append(toReceiver, frame)
    OBVIOUS
  <1> HIDE DEF frame
  <1> QED
    BY <1>1, <1>2, FrameSent

LEMMA AnswerSent ==
    ASSUME TypeOK,
           toReceiver' = Append(toReceiver, [tag |-> "callback response"])
    PROVE  /\ \A k \in Calls, i \in Nat : Asked(k, i)' <=> Asked(k, i)
           /\ \A i \in Nat : AnswerAt(i)' <=> AnswerAt(i) \/ i = Len(toReceiver) + 1
  <1> DEFINE frame == [tag |-> "callback response"]
  <1>1. frame \in Sent /\ frame.tag = "callback response"
    BY DEF Sent
  <1>2. toReceiver' = Append(toReceiver, frame)
    OBVIOUS
  <1> HIDE DEF frame
  <1> QED
    BY <1>1, <1>2, FrameSent

LEMMA RequestTaken ==
    ASSUME TypeOK, toReceiver # <<>>, toReceiver' = Tail(toReceiver)
    PROVE  /\ \A k \in Calls, i \in Nat : Asked(k, i)' <=> i > 0 /\ Asked(k, i + 1)
           /\ \A i \in Nat : AnswerAt(i)' <=> i > 0 /\ AnswerAt(i + 1)
           /\ Head(toReceiver) = toReceiver[1] /\ 1 \in DOMAIN toReceiver
           /\ Head(toReceiver) \in Sent
  <1>1. toReceiver \in Seq(Sent)
    BY DEF TypeOK, Sent
  <1>2. /\ Head(toReceiver) = toReceiver[1] /\ 1 \in DOMAIN toReceiver
        /\ Head(toReceiver) \in Sent
        /\ \A i \in Nat : i \in DOMAIN toReceiver' <=> i > 0 /\ i + 1 \in DOMAIN toReceiver
        /\ \A i \in DOMAIN toReceiver' : toReceiver'[i] = toReceiver[i + 1]
    BY <1>1, TailAt
  <1> QED
    BY <1>2 DEF Asked, AnswerAt

LEMMA FrameReturned ==
    ASSUME TypeOK, NEW frame \in Received, toWrapper' = Append(toWrapper, frame)
    PROVE  \A k \in Calls, i \in Nat :
              /\ Responded(k, i)' <=>
                    \/ Responded(k, i)
                    \/ i = Len(toWrapper) + 1 /\ frame.tag = "response" /\ frame.call = k
              /\ CalledBack(k, i)' <=>
                    \/ CalledBack(k, i)
                    \/ i = Len(toWrapper) + 1 /\ frame.tag = "callback" /\ frame.call = k
  <1>1. toWrapper \in Seq(Received)
    BY DEF TypeOK, Received
  <1>3. /\ \A i \in Nat : i \in DOMAIN toWrapper' <=>
                              i \in DOMAIN toWrapper \/ i = Len(toWrapper) + 1
        /\ \A i \in DOMAIN toWrapper : toWrapper'[i] = toWrapper[i]
        /\ toWrapper'[Len(toWrapper) + 1] = frame
        /\ Len(toWrapper) + 1 \notin DOMAIN toWrapper
    BY <1>1, AppendAt
  <1> QED
    BY <1>3 DEF Responded, CalledBack

LEMMA FrameTaken ==
    ASSUME TypeOK, toWrapper # <<>>, toWrapper' = Tail(toWrapper)
    PROVE  /\ \A k \in Calls, i \in Nat :
                 /\ Responded(k, i)' <=> i > 0 /\ Responded(k, i + 1)
                 /\ CalledBack(k, i)' <=> i > 0 /\ CalledBack(k, i + 1)
           /\ Head(toWrapper) = toWrapper[1] /\ 1 \in DOMAIN toWrapper
           /\ Head(toWrapper) \in Received
  <1>1. toWrapper \in Seq(Received)
    BY DEF TypeOK, Received
  <1>2. /\ Head(toWrapper) = toWrapper[1] /\ 1 \in DOMAIN toWrapper
        /\ Head(toWrapper) \in Received
        /\ \A i \in Nat : i \in DOMAIN toWrapper' <=> i > 0 /\ i + 1 \in DOMAIN toWrapper
        /\ \A i \in DOMAIN toWrapper' : toWrapper'[i] = toWrapper[i + 1]
    BY <1>1, TailAt
  <1> QED
    BY <1>2 DEF Responded, CalledBack

-----------------------------------------------------------------------------
(* A request, its callbacks and its response are in one place.             *)

LEMMA PlacesInit == Init => PlaceInv
  <1> SUFFICES ASSUME Init PROVE PlaceInv
    OBVIOUS
  <1>1. /\ \A k \in Calls, i \in Nat : ~Asked(k, i) /\ ~Responded(k, i) /\ ~CalledBack(k, i)
        /\ \A k \in Calls : ~InService(k) /\ ~Answered(k)
    BY DEF Init, Asked, Responded, CalledBack, InService, Answered
  <1> QED
    BY <1>1 DEF PlaceInv, OnlyMade, AskedOnce, ServedOnce, RespondedOnce, CallbackBefore

\* Steps that move nothing.
SamePlaces ==
    /\ SameRequests /\ SameResponses
    /\ \A k \in Calls : (InService(k)' <=> InService(k)) /\ (Answered(k)' <=> Answered(k))

LEMMA PlacesKept ==
    UNCHANGED <<toReceiver, toWrapper, serving, answer>> => SamePlaces
  <1> SUFFICES ASSUME UNCHANGED <<toReceiver, toWrapper, serving, answer>> PROVE SamePlaces
    OBVIOUS
  <1>1. SameRequests /\ SameResponses
    BY RequestsKept, ResponsesKept
  <1>2. \A k \in Calls : InService(k)' <=> InService(k)
    BY DEF InService
  <1>3. \A k \in Calls : Answered(k)' <=> Answered(k)
    BY DEF Answered
  <1> QED
    BY <1>1, <1>2, <1>3 DEF SamePlaces

LEMMA ServiceKept == UNCHANGED serving => \A k \in Calls : InService(k)' <=> InService(k)
  BY DEF InService

LEMMA AnswersKept == UNCHANGED answer => \A k \in Calls : Answered(k)' <=> Answered(k)
  BY DEF Answered

LEMMA CallNumbers ==
    ASSUME TypeOK
    PROVE  /\ MaxCalls \in Nat /\ calls \in Nat /\ calls <= MaxCalls
           /\ firstAfter \in Nat /\ firstAfter <= MaxCalls
           /\ calls < MaxCalls => calls \in Calls
           /\ \A k \in Calls : k \in Nat /\ k < MaxCalls
  <1>1. MaxCalls \in Nat
    BY CallbacksAssumption
  <1>2. calls \in 0 .. MaxCalls /\ firstAfter \in 0 .. MaxCalls
    BY DEF TypeOK
  <1>3. \A k \in Calls : k \in Nat /\ k < MaxCalls
    BY <1>1 DEF Calls
  <1> QED
    BY <1>1, <1>2, <1>3 DEF Calls

LEMMA PlacesOfSame ==
    ASSUME TypeOK, PlaceInv, SamePlaces, calls' \in Nat, calls <= calls'
    PROVE  PlaceInv'
  <1> USE DEF SamePlaces, SameRequests, SameResponses
  <1>n. calls \in Nat /\ \A k \in Calls : k \in Int
    BY CallNumbers
  <1>1. OnlyMade'
    BY <1>n DEF PlaceInv, OnlyMade
  <1>2. AskedOnce'
    BY DEF PlaceInv, AskedOnce
  <1>3. ServedOnce'
    BY DEF PlaceInv, ServedOnce
  <1>4. RespondedOnce'
    BY DEF PlaceInv, RespondedOnce
  <1>5. CallbackBefore'
    BY DEF PlaceInv, CallbackBefore
  <1> QED
    BY <1>1, <1>2, <1>3, <1>4, <1>5 DEF PlaceInv

LEMMA PlacesCall ==
    ASSUME TypeOK, PlaceInv, Call
    PROVE  PlaceInv'
  <1>n. calls \in Nat /\ calls' = calls + 1 /\ calls \in Calls /\ \A k \in Calls : k \in Int
    BY CallNumbers DEF Call
  <1>1. CASE ended
    <2>1. SamePlaces
      BY <1>1, PlacesKept DEF Call, receiverVars
    <2> QED
      BY <1>n, <2>1, PlacesOfSame
  <1>2. CASE ~ended
    <2>1. \A k \in Calls, i \in Nat :
             Asked(k, i)' <=> Asked(k, i) \/ (i = Len(toReceiver) + 1 /\ k = calls)
      BY <1>2, <1>n, RequestSent DEF Call
    <2>2. /\ SameResponses
          /\ \A k \in Calls : (InService(k)' <=> InService(k)) /\ (Answered(k)' <=> Answered(k))
      BY ResponsesKept, ServiceKept, AnswersKept DEF Call, receiverVars
    <2>3. /\ \A i \in Nat : ~Asked(calls, i) /\ ~Responded(calls, i) /\ ~CalledBack(calls, i)
          /\ ~InService(calls) /\ ~Answered(calls)
      BY <1>n DEF PlaceInv, OnlyMade
    <2> USE DEF SameResponses
    <2>4. OnlyMade'
      BY <1>n, <2>1, <2>2 DEF PlaceInv, OnlyMade
    <2>5. AskedOnce'
      BY <2>1, <2>2, <2>3 DEF PlaceInv, AskedOnce
    <2>6. ServedOnce' /\ RespondedOnce' /\ CallbackBefore'
      BY <2>2 DEF PlaceInv, ServedOnce, RespondedOnce, CallbackBefore
    <2> QED
      BY <2>4, <2>5, <2>6 DEF PlaceInv
  <1> QED
    BY <1>1, <1>2

LEMMA PlacesReturn ==
    ASSUME TypeOK, PlaceInv, ReturnResponse
    PROVE  PlaceInv'
  <1> DEFINE r == Head(toWrapper).call
  <1>1. toWrapper # <<>> /\ toWrapper' = Tail(toWrapper) /\ Head(toWrapper).tag = "response"
        /\ UNCHANGED <<calls, toReceiver, serving>>
    BY DEF ReturnResponse, receiverVars
  <1>2. /\ \A k \in Calls, i \in Nat :
              /\ Responded(k, i)' <=> i > 0 /\ Responded(k, i + 1)
              /\ CalledBack(k, i)' <=> i > 0 /\ CalledBack(k, i + 1)
        /\ Head(toWrapper) = toWrapper[1] /\ 1 \in DOMAIN toWrapper
        /\ Head(toWrapper) \in Received
    BY <1>1, FrameTaken
  <1>3. r \in Calls /\ Responded(r, 1)
    BY <1>1, <1>2 DEF Received, Responded
  <1>4. \A k \in Calls : Answered(k)' => Answered(k) \/ k = r
    <2>1. answer' = Put(answer, Last(stack).call, r)
      BY DEF ReturnResponse
    <2> QED
      BY <2>1 DEF Answered, Put
  <1>5. SameRequests /\ \A k \in Calls : InService(k)' <=> InService(k)
    BY <1>1, RequestsKept, ServiceKept
  <1> HIDE DEF r
  <1> USE DEF SameRequests
  <1>6. /\ \A i \in Nat : ~Asked(r, i)
        /\ ~InService(r) /\ r < calls
        /\ \A i \in Nat : Responded(r, i) => i = 1
    BY <1>3 DEF PlaceInv, OnlyMade, AskedOnce, ServedOnce, RespondedOnce
  <1>7. OnlyMade'
    BY <1>1, <1>2, <1>4, <1>5, <1>6 DEF PlaceInv, OnlyMade
  <1>8. AskedOnce'
    BY <1>2, <1>4, <1>5, <1>6 DEF PlaceInv, AskedOnce
  <1>9. ServedOnce'
    BY <1>2, <1>4, <1>5, <1>6 DEF PlaceInv, ServedOnce
  <1>10. RespondedOnce'
    <2> SUFFICES ASSUME NEW k \in Calls, NEW i \in Nat, Responded(k, i)'
                 PROVE  ~Answered(k)' /\ \A j \in Nat : Responded(k, j)' => j = i
      BY DEF RespondedOnce
    <2>1. i > 0 /\ Responded(k, i + 1) /\ i + 1 # 1
      BY <1>2
    <2>2. k # r
      BY <1>6, <2>1
    <2>3. ~Answered(k) /\ \A j \in Nat : Responded(k, j) => j = i + 1
      BY <2>1 DEF PlaceInv, RespondedOnce
    <2> QED
      BY <1>2, <1>4, <2>2, <2>3
  <1>11. CallbackBefore'
    <2> SUFFICES ASSUME NEW k \in Calls, NEW i \in Nat, CalledBack(k, i)'
                 PROVE  InService(k)' \/ \E j \in Nat : j > i /\ Responded(k, j)'
      BY DEF CallbackBefore
    <2>1. i > 0 /\ CalledBack(k, i + 1)
      BY <1>2
    <2>2. InService(k) \/ \E j \in Nat : j > i + 1 /\ Responded(k, j)
      BY <2>1 DEF PlaceInv, CallbackBefore
    <2>3. ASSUME NEW j \in Nat, j > i + 1, Responded(k, j)
          PROVE  j - 1 \in Nat /\ j - 1 > i /\ Responded(k, j - 1)'
      BY <1>2, <2>3
    <2> QED
      BY <1>5, <2>2, <2>3
  <1> QED
    BY <1>7, <1>8, <1>9, <1>10, <1>11 DEF PlaceInv

LEMMA PlacesReadCallback ==
    ASSUME TypeOK, PlaceInv, ReadCallback
    PROVE  PlaceInv'
  <1>1. toWrapper # <<>> /\ toWrapper' = Tail(toWrapper) /\ Head(toWrapper).tag = "callback"
        /\ UNCHANGED <<calls, toReceiver, serving, answer>>
    BY DEF ReadCallback, receiverVars
  <1>2. \A k \in Calls, i \in Nat :
              /\ Responded(k, i)' <=> i > 0 /\ Responded(k, i + 1)
              /\ CalledBack(k, i)' <=> i > 0 /\ CalledBack(k, i + 1)
    BY <1>1, FrameTaken
  <1>5. /\ SameRequests
        /\ \A k \in Calls : (InService(k)' <=> InService(k)) /\ (Answered(k)' <=> Answered(k))
    BY <1>1, RequestsKept, ServiceKept, AnswersKept
  <1> USE DEF SameRequests
  <1>7. OnlyMade'
    BY <1>1, <1>2, <1>5 DEF PlaceInv, OnlyMade
  <1>8. AskedOnce' /\ ServedOnce'
    BY <1>2, <1>5 DEF PlaceInv, AskedOnce, ServedOnce
  <1>10. RespondedOnce'
    <2> SUFFICES ASSUME NEW k \in Calls, NEW i \in Nat, Responded(k, i)'
                 PROVE  ~Answered(k)' /\ \A j \in Nat : Responded(k, j)' => j = i
      BY DEF RespondedOnce
    <2>1. Responded(k, i + 1)
      BY <1>2
    <2>3. ~Answered(k) /\ \A j \in Nat : Responded(k, j) => j = i + 1
      BY <2>1 DEF PlaceInv, RespondedOnce
    <2> QED
      BY <1>2, <1>5, <2>3
  <1>11. CallbackBefore'
    <2> SUFFICES ASSUME NEW k \in Calls, NEW i \in Nat, CalledBack(k, i)'
                 PROVE  InService(k)' \/ \E j \in Nat : j > i /\ Responded(k, j)'
      BY DEF CallbackBefore
    <2>1. i > 0 /\ CalledBack(k, i + 1)
      BY <1>2
    <2>2. InService(k) \/ \E j \in Nat : j > i + 1 /\ Responded(k, j)
      BY <2>1 DEF PlaceInv, CallbackBefore
    <2>3. ASSUME NEW j \in Nat, j > i + 1, Responded(k, j)
          PROVE  j - 1 \in Nat /\ j - 1 > i /\ Responded(k, j - 1)'
      BY <1>2, <2>3
    <2> QED
      BY <1>5, <2>2, <2>3
  <1> QED
    BY <1>7, <1>8, <1>10, <1>11 DEF PlaceInv

LEMMA PlacesFinish ==
    ASSUME TypeOK, PlaceInv, FinishCallback
    PROVE  PlaceInv'
  <1>1. UNCHANGED <<toWrapper, serving, answer, calls>>
    BY DEF FinishCallback, receiverVars
  <1>2. \A k \in Calls, i \in Nat : Asked(k, i)' <=> Asked(k, i)
    <2>1. CASE ended
      BY <2>1, RequestsKept DEF FinishCallback, SameRequests
    <2>2. CASE ~ended
      BY <2>2, AnswerSent DEF FinishCallback
    <2> QED
      BY <2>1, <2>2
  <1>3. /\ SameResponses
        /\ \A k \in Calls : (InService(k)' <=> InService(k)) /\ (Answered(k)' <=> Answered(k))
    BY <1>1, ResponsesKept, ServiceKept, AnswersKept
  <1> USE DEF SameResponses
  <1>4. OnlyMade'
    BY <1>1, <1>2, <1>3 DEF PlaceInv, OnlyMade
  <1>5. AskedOnce' /\ ServedOnce' /\ RespondedOnce' /\ CallbackBefore'
    BY <1>2, <1>3 DEF PlaceInv, AskedOnce, ServedOnce, RespondedOnce, CallbackBefore
  <1> QED
    BY <1>4, <1>5 DEF PlaceInv

LEMMA PlacesReadFrame ==
    ASSUME TypeOK, PlaceInv, ReadFrame
    PROVE  PlaceInv'
  <1>1. toReceiver # <<>> /\ toReceiver' = Tail(toReceiver) /\ serving = {}
        /\ UNCHANGED <<toWrapper, answer, calls>>
    BY DEF ReadFrame, wrapperVars
  <1>2. /\ \A k \in Calls, i \in Nat : Asked(k, i)' <=> i > 0 /\ Asked(k, i + 1)
        /\ Head(toReceiver) = toReceiver[1] /\ 1 \in DOMAIN toReceiver
        /\ Head(toReceiver) \in Sent
    BY <1>1, RequestTaken
  <1>3. SameResponses /\ \A k \in Calls : Answered(k)' <=> Answered(k)
    BY <1>1, ResponsesKept, AnswersKept
  <1>4. \A k \in Calls : InService(k)' => Asked(k, 1)
    BY <1>1, <1>2 DEF ReadFrame, InService, Asked
  <1>5. \A k \in Calls : ~InService(k)
    BY <1>1 DEF InService
  <1> USE DEF SameResponses
  <1>6. OnlyMade'
    BY <1>1, <1>2, <1>3, <1>4 DEF PlaceInv, OnlyMade
  <1>7. AskedOnce'
    <2> SUFFICES ASSUME NEW k \in Calls, NEW i \in Nat, Asked(k, i)'
                 PROVE  /\ \A j \in Nat : Asked(k, j)' => j = i
                        /\ ~InService(k)' /\ ~Answered(k)'
                        /\ \A j \in Nat : ~Responded(k, j)' /\ ~CalledBack(k, j)'
      BY DEF AskedOnce
    <2>1. i > 0 /\ Asked(k, i + 1)
      BY <1>2
    <2>2. /\ \A j \in Nat : Asked(k, j) => j = i + 1
          /\ ~Answered(k) /\ \A j \in Nat : ~Responded(k, j) /\ ~CalledBack(k, j)
      BY <2>1 DEF PlaceInv, AskedOnce
    <2>3. ~Asked(k, 1)
      BY <2>1, <2>2
    <2>4. \A j \in Nat : Asked(k, j)' => j = i
      BY <1>2, <2>2
    <2> QED
      BY <1>3, <1>4, <2>2, <2>3, <2>4
  <1>8. ServedOnce'
    BY <1>3, <1>4 DEF PlaceInv, AskedOnce, ServedOnce
  <1>9. RespondedOnce' /\ CallbackBefore'
    BY <1>3, <1>5 DEF PlaceInv, RespondedOnce, CallbackBefore
  <1> QED
    BY <1>6, <1>7, <1>8, <1>9 DEF PlaceInv

LEMMA PlacesDoCallback ==
    ASSUME TypeOK, PlaceInv, NEW m \in Methods, NEW withObject, DoCallback(m, withObject)
    PROVE  PlaceInv'
  <1> PICK job \in serving :
         toWrapper' = Append(toWrapper, [tag |-> "callback", method |-> m,
                                         call |-> job.call])
    BY DEF DoCallback
  <1> DEFINE frame == [tag |-> "callback", method |-> m, call |-> job.call]
  <1>1. UNCHANGED <<toReceiver, serving, answer, calls>>
    BY DEF DoCallback, wrapperVars
  <1>2. job.call \in Calls /\ frame \in Received
    BY DEF TypeOK, Received
  <1>3. frame.tag = "callback" /\ frame.call = job.call
    OBVIOUS
  <1>4. InService(job.call)
    BY DEF InService
  <1> HIDE DEF frame
  <1>5. \A k \in Calls, i \in Nat :
           /\ Responded(k, i)' <=> Responded(k, i)
           /\ CalledBack(k, i)' =>
                 CalledBack(k, i) \/ (i = Len(toWrapper) + 1 /\ k = job.call)
    BY <1>2, <1>3, FrameReturned DEF frame
  <1>6. /\ SameRequests
        /\ \A k \in Calls : (InService(k)' <=> InService(k)) /\ (Answered(k)' <=> Answered(k))
    BY <1>1, RequestsKept, ServiceKept, AnswersKept
  <1> USE DEF SameRequests
  <1>7. OnlyMade'
    BY <1>1, <1>2, <1>4, <1>5, <1>6 DEF PlaceInv, OnlyMade
  <1>8. AskedOnce'
    BY <1>2, <1>4, <1>5, <1>6 DEF PlaceInv, AskedOnce
  <1>9. ServedOnce' /\ RespondedOnce' /\ CallbackBefore'
    BY <1>2, <1>4, <1>5, <1>6 DEF PlaceInv, ServedOnce, RespondedOnce, CallbackBefore
  <1> QED
    BY <1>7, <1>8, <1>9 DEF PlaceInv

LEMMA PlacesRespond ==
    ASSUME TypeOK, IdInv, PlaceInv, Respond
    PROVE  PlaceInv'
  <1> PICK job \in serving :
         toWrapper' = Append(toWrapper, [tag |-> "response", call |-> job.call])
    BY DEF Respond
  <1> DEFINE frame == [tag |-> "response", call |-> job.call]
  <1>1. UNCHANGED <<toReceiver, answer, calls>> /\ serving' = {}
    BY DEF Respond, wrapperVars
  <1>2. job.call \in Calls /\ frame \in Received
    BY DEF TypeOK, Received
  <1>3. frame.tag = "response" /\ frame.call = job.call
    OBVIOUS
  <1>4. /\ InService(job.call)
        /\ \A k \in Calls : InService(k) => k = job.call
        /\ \A k \in Calls : ~InService(k)'
    BY <1>1 DEF InService, IdInv
  <1> HIDE DEF frame
  <1>5. \A k \in Calls, i \in Nat :
           /\ Responded(k, i)' <=>
                 Responded(k, i) \/ (i = Len(toWrapper) + 1 /\ k = job.call)
           /\ CalledBack(k, i)' <=> CalledBack(k, i)
    BY <1>2, <1>3, FrameReturned DEF frame
  <1>6. SameRequests /\ \A k \in Calls : Answered(k)' <=> Answered(k)
    BY <1>1, RequestsKept, AnswersKept
  <1>n. Len(toWrapper) + 1 \in Nat
        /\ \A k \in Calls, i \in Nat : CalledBack(k, i) => i < Len(toWrapper) + 1
    BY PlacesAreTyped DEF CalledBack
  <1> USE DEF SameRequests
  <1>7. OnlyMade'
    BY <1>1, <1>2, <1>4, <1>5, <1>6 DEF PlaceInv, OnlyMade
  <1>8. AskedOnce'
    BY <1>2, <1>4, <1>5, <1>6 DEF PlaceInv, AskedOnce
  <1>9. ServedOnce'
    BY <1>4 DEF ServedOnce
  <1>10. RespondedOnce'
    BY <1>2, <1>4, <1>5, <1>6 DEF PlaceInv, ServedOnce, RespondedOnce
  <1>11. CallbackBefore'
    BY <1>n, <1>2, <1>4, <1>5 DEF PlaceInv, CallbackBefore
  <1> QED
    BY <1>7, <1>8, <1>9, <1>10, <1>11 DEF PlaceInv

LEMMA PlacesStep == TypeOK /\ IdInv /\ PlaceInv /\ [Next]_vars => PlaceInv'
  <1> SUFFICES ASSUME TypeOK, IdInv, PlaceInv, [Next]_vars PROVE PlaceInv'
    OBVIOUS
  <1>1. CASE UNCHANGED <<toReceiver, toWrapper, serving, answer, calls>>
    <2>1. SamePlaces
      BY <1>1, PlacesKept
    <2>2. calls \in Nat
      BY CallNumbers
    <2> QED
      BY <1>1, <2>1, <2>2, PlacesOfSame
  <1>2. \/ Call \/ ReturnResponse \/ ReadCallback \/ FinishCallback
        \/ ReadFrame
        \/ \E m \in Methods, withObject \in BOOLEAN : DoCallback(m, withObject)
        \/ Respond
        \/ UNCHANGED <<toReceiver, toWrapper, serving, answer, calls>>
    BY StepCases DEF RegisterCallback, RegisterConstructor, ReadFails, vars, wrapperVars,
        receiverVars
  <1> QED
    BY <1>1, <1>2, PlacesCall, PlacesReturn, PlacesReadCallback, PlacesFinish,
       PlacesReadFrame, PlacesDoCallback, PlacesRespond

-----------------------------------------------------------------------------
(* What comes after the answer to a callback.                              *)

LEMMA LateInit == Init => LateInv
  <1> SUFFICES ASSUME Init PROVE LateInv
    OBVIOUS
  <1>1. /\ \A k \in Calls, i \in Nat : ~Asked(k, i) /\ ~Responded(k, i)
        /\ \A k \in Calls : ~InService(k) /\ ~Answered(k)
        /\ firstAfter = MaxCalls
    BY DEF Init, Asked, Responded, InService, Answered
  <1> QED
    BY <1>1 DEF LateInv, AnswerWaits, LateAreBehind, LateNotServed

LEMMA LateCall ==
    ASSUME TypeOK, LateInv, Call
    PROVE  LateInv'
  <1>n. /\ MaxCalls \in Nat /\ calls \in Calls /\ calls \in Nat /\ calls < MaxCalls
        /\ firstAfter \in Nat /\ \A k \in Calls : k \in Nat
    BY CallNumbers DEF Call
  <1>1. UNCHANGED <<ended, firstAfter>>
    BY DEF Call, receiverVars
  <1>2. /\ SameResponses
        /\ \A k \in Calls : (InService(k)' <=> InService(k)) /\ (Answered(k)' <=> Answered(k))
    BY ResponsesKept, ServiceKept, AnswersKept DEF Call, receiverVars
  <1>3. /\ \A i \in Nat : AnswerAt(i)' <=> AnswerAt(i)
        /\ \A k \in Calls, i \in Nat :
              Asked(k, i)' => Asked(k, i) \/ (i = Len(toReceiver) + 1 /\ k = calls)
    <2>1. CASE ended
      BY <2>1, RequestsKept DEF Call, SameRequests
    <2>2. CASE ~ended
      BY <2>2, <1>n, RequestSent DEF Call
    <2> QED
      BY <2>1, <2>2
  <1>4. \A j \in Nat : AnswerAt(j) => j < Len(toReceiver) + 1
    BY PlacesAreTyped DEF AnswerAt
  <1>5. AnswerWaits'
    BY <1>1, <1>3 DEF LateInv, AnswerWaits
  <1>6. LateAreBehind'
    <2> SUFFICES ASSUME NEW k \in Calls, NEW i \in Nat, Asked(k, i)', k >= firstAfter, ~ended
                 PROVE  \E j \in Nat : j < i /\ AnswerAt(j)
      BY <1>1, <1>3 DEF LateAreBehind
    <2>1. CASE Asked(k, i)
      BY <2>1 DEF LateInv, LateAreBehind
    <2>2. CASE i = Len(toReceiver) + 1 /\ k = calls
      <3>1. firstAfter # MaxCalls
        BY <2>2, <1>n
      <3> QED
        BY <2>2, <3>1, <1>4 DEF LateInv, AnswerWaits
    <2> QED
      BY <1>3, <2>1, <2>2
  <1>7. LateNotServed'
    BY <1>1, <1>2 DEF LateInv, LateNotServed, SameResponses
  <1> QED
    BY <1>5, <1>6, <1>7 DEF LateInv

\* The wrapper takes a frame out of the channel.
LEMMA LateTake ==
    ASSUME TypeOK, LateInv, ReturnResponse \/ ReadCallback
    PROVE  LateInv'
  <1>1. /\ toWrapper # <<>> /\ toWrapper' = Tail(toWrapper)
        /\ UNCHANGED <<toReceiver, serving, ended, firstAfter>>
    BY DEF ReturnResponse, ReadCallback, receiverVars
  <1>2. /\ \A k \in Calls, i \in Nat : Responded(k, i)' <=> i > 0 /\ Responded(k, i + 1)
        /\ Head(toWrapper) = toWrapper[1] /\ 1 \in DOMAIN toWrapper
        /\ Head(toWrapper) \in Received
    BY <1>1, FrameTaken
  <1>3. SameRequests /\ \A k \in Calls : InService(k)' <=> InService(k)
    BY <1>1, RequestsKept, ServiceKept
  <1>4. \A k \in Calls : Answered(k)' => Answered(k) \/ Responded(k, 1)
    <2>1. CASE ReturnResponse
      <3>1. answer' = Put(answer, Last(stack).call, Head(toWrapper).call)
            /\ Head(toWrapper).tag = "response"
        BY <2>1 DEF ReturnResponse
      <3> QED
        BY <3>1, <1>2 DEF Answered, Put, Responded
    <2>2. CASE ReadCallback
      BY <2>2, AnswersKept DEF ReadCallback
    <2> QED
      BY <2>1, <2>2
  <1>5. AnswerWaits' /\ LateAreBehind'
    BY <1>1, <1>3 DEF LateInv, AnswerWaits, LateAreBehind, SameRequests
  <1>6. LateNotServed'
    BY <1>1, <1>2, <1>3, <1>4 DEF LateInv, LateNotServed
  <1> QED
    BY <1>5, <1>6 DEF LateInv

LEMMA LateFinish ==
    ASSUME TypeOK, PlaceInv, LateInv, FinishCallback
    PROVE  LateInv'
  <1>n. /\ calls \in Nat /\ firstAfter \in Nat /\ \A k \in Calls : k \in Nat
    BY CallNumbers
  <1>1. UNCHANGED <<toWrapper, serving, answer, ended>>
    BY DEF FinishCallback, receiverVars
  <1>2. /\ SameResponses
        /\ \A k \in Calls : (InService(k)' <=> InService(k)) /\ (Answered(k)' <=> Answered(k))
    BY <1>1, ResponsesKept, ServiceKept, AnswersKept
  <1>3. CASE ended
    <2>1. SameRequests /\ UNCHANGED firstAfter
      BY <1>3, RequestsKept DEF FinishCallback
    <2> QED
      BY <1>1, <1>2, <2>1 DEF LateInv, AnswerWaits, LateAreBehind, LateNotServed,
          SameRequests, SameResponses
  <1>4. CASE ~ended
    <2>1. /\ \A k \in Calls, i \in Nat : Asked(k, i)' <=> Asked(k, i)
          /\ \A i \in Nat : AnswerAt(i)' <=> AnswerAt(i) \/ i = Len(toReceiver) + 1
      BY <1>4, AnswerSent DEF FinishCallback
    <2>2. firstAfter' = IF firstAfter <= calls THEN firstAfter ELSE calls
      <3>1. Min({firstAfter, calls}) = IF firstAfter <= calls THEN firstAfter ELSE calls
        BY <1>n, MinOfTwo
      <3> QED
        BY <1>4, <3>1 DEF FinishCallback
    <2>3. Len(toReceiver) + 1 \in Nat
      BY PlacesAreTyped
    <2>4. AnswerWaits'
      BY <2>1, <2>3 DEF AnswerWaits
    <2>5. LateAreBehind'
      <3> SUFFICES ASSUME NEW k \in Calls, NEW i \in Nat, Asked(k, i), k >= firstAfter'
                   PROVE  \E j \in Nat : j < i /\ AnswerAt(j)'
        BY <2>1 DEF LateAreBehind
      <3>1. k < calls
        BY DEF PlaceInv, OnlyMade
      <3>2. k >= firstAfter
        BY <3>1, <2>2, <1>n
      <3>3. PICK j \in Nat : j < i /\ AnswerAt(j)
        BY <3>2, <1>4 DEF LateInv, LateAreBehind
      <3> QED
        BY <3>3, <2>1
    <2>6. LateNotServed'
      <3> SUFFICES ASSUME NEW k \in Calls,
                          InService(k) \/ Answered(k) \/ \E i \in Nat : Responded(k, i)
                   PROVE  k < firstAfter'
        BY <1>2 DEF LateNotServed, SameResponses
      <3>1. k < calls /\ k < firstAfter
        BY DEF PlaceInv, OnlyMade, LateInv, LateNotServed
      <3> QED
        BY <3>1, <2>2, <1>n
    <2> QED
      BY <2>4, <2>5, <2>6 DEF LateInv
  <1> QED
    BY <1>3, <1>4

LEMMA LateReadFrame ==
    ASSUME TypeOK, LateInv, ReadFrame
    PROVE  LateInv'
  <1>n. firstAfter \in Nat /\ \A k \in Calls : k \in Nat
    BY CallNumbers
  <1>1. /\ toReceiver # <<>> /\ toReceiver' = Tail(toReceiver) /\ ~ended /\ serving = {}
        /\ UNCHANGED <<toWrapper, answer, firstAfter>>
    BY DEF ReadFrame, wrapperVars
  <1>2. /\ \A k \in Calls, i \in Nat : Asked(k, i)' <=> i > 0 /\ Asked(k, i + 1)
        /\ \A i \in Nat : AnswerAt(i)' <=> i > 0 /\ AnswerAt(i + 1)
        /\ Head(toReceiver) = toReceiver[1] /\ 1 \in DOMAIN toReceiver
    BY <1>1, RequestTaken
  <1>3. SameResponses /\ \A k \in Calls : Answered(k)' <=> Answered(k)
    BY <1>1, ResponsesKept, AnswersKept
  <1>4. \A k \in Calls : InService(k)' => Asked(k, 1)
    BY <1>1, <1>2 DEF ReadFrame, InService, Asked
  <1>5. AnswerAt(1) => ended'
    BY <1>1, <1>2 DEF ReadFrame, AnswerAt
  <1>6. \A j \in Nat : AnswerAt(j) => j > 0
    BY PlacesAreTyped DEF AnswerAt
  <1>7. ASSUME NEW j \in Nat, AnswerAt(j), ~ended'
        PROVE  j - 1 \in Nat /\ AnswerAt(j - 1)'
    <2>1. j > 0 /\ j # 1
      BY <1>5, <1>6, <1>7
    <2>2. j - 1 \in Nat /\ j - 1 > 0 /\ (j - 1) + 1 = j
      BY <2>1
    <2> QED
      BY <2>2, <1>2, <1>7
  <1>8. AnswerWaits'
    BY <1>1, <1>7 DEF LateInv, AnswerWaits
  <1>9. LateAreBehind'
    <2> SUFFICES ASSUME NEW k \in Calls, NEW i \in Nat, Asked(k, i)', k >= firstAfter, ~ended'
                 PROVE  \E j \in Nat : j < i /\ AnswerAt(j)'
      BY <1>1 DEF LateAreBehind
    <2>1. PICK j \in Nat : j < i + 1 /\ AnswerAt(j)
      BY <1>1, <1>2 DEF LateInv, LateAreBehind
    <2>2. j - 1 \in Nat /\ AnswerAt(j - 1)' /\ j - 1 < i
      BY <1>7, <2>1
    <2> QED
      BY <2>2
  <1>10. LateNotServed'
    <2>1. ASSUME NEW k \in Calls, Asked(k, 1)
          PROVE  k < firstAfter
      BY <2>1, <1>1, <1>6, <1>n DEF LateInv, LateAreBehind
    <2> QED
      BY <1>1, <1>3, <1>4, <2>1 DEF LateInv, LateNotServed, SameResponses
  <1> QED
    BY <1>8, <1>9, <1>10 DEF LateInv

\* The receiver puts a frame into the channel.
LEMMA LateReturn ==
    ASSUME TypeOK, LateInv,
           (\E m \in Methods, withObject \in BOOLEAN : DoCallback(m, withObject)) \/ Respond
    PROVE  LateInv'
  <1>1. UNCHANGED <<toReceiver, answer, ended, firstAfter>> /\ serving' \subseteq serving
    BY DEF DoCallback, Respond, wrapperVars
  <1>2. PICK frame \in Received :
           /\ toWrapper' = Append(toWrapper, frame)
           /\ InService(frame.call)
    <2>1. CASE \E m \in Methods, withObject \in BOOLEAN : DoCallback(m, withObject)
      <3> PICK m \in Methods, withObject \in BOOLEAN : DoCallback(m, withObject)
        BY <2>1
      <3> PICK job \in serving :
             toWrapper' = Append(toWrapper, [tag |-> "callback", method |-> m,
                                             call |-> job.call])
        BY DEF DoCallback
      <3> DEFINE sent == [tag |-> "callback", method |-> m, call |-> job.call]
      <3>1. job.call \in Calls
        BY DEF TypeOK
      <3>2. sent \in Received /\ sent.call = job.call
        BY <3>1 DEF Received
      <3>3. InService(sent.call)
        BY <3>2 DEF InService
      <3> QED
        BY <3>2, <3>3
    <2>2. CASE Respond
      <3> PICK job \in serving :
             toWrapper' = Append(toWrapper, [tag |-> "response", call |-> job.call])
        BY <2>2 DEF Respond
      <3> DEFINE sent == [tag |-> "response", call |-> job.call]
      <3>1. job.call \in Calls
        BY DEF TypeOK
      <3>2. sent \in Received /\ sent.call = job.call
        BY <3>1 DEF Received
      <3>3. InService(sent.call)
        BY <3>2 DEF InService
      <3> QED
        BY <3>2, <3>3
    <2> QED
      BY <2>1, <2>2
  <1>3. \A k \in Calls, i \in Nat : Responded(k, i)' => Responded(k, i) \/ InService(k)
    BY <1>2, FrameReturned
  <1>4. /\ SameRequests
        /\ \A k \in Calls : (InService(k)' => InService(k)) /\ (Answered(k)' <=> Answered(k))
    BY <1>1, RequestsKept, AnswersKept DEF InService
  <1>5. AnswerWaits' /\ LateAreBehind'
    BY <1>1, <1>4 DEF LateInv, AnswerWaits, LateAreBehind, SameRequests
  <1>6. LateNotServed'
    BY <1>1, <1>3, <1>4 DEF LateInv, LateNotServed
  <1> QED
    BY <1>5, <1>6 DEF LateInv

LEMMA LateStep == TypeOK /\ PlaceInv /\ LateInv /\ [Next]_vars => LateInv'
  <1> SUFFICES ASSUME TypeOK, PlaceInv, LateInv, [Next]_vars PROVE LateInv'
    OBVIOUS
  <1>1. CASE UNCHANGED <<toReceiver, toWrapper, serving, answer, ended, firstAfter>>
    <2>1. SamePlaces
      BY <1>1, PlacesKept
    <2> QED
      BY <1>1, <2>1 DEF LateInv, AnswerWaits, LateAreBehind, LateNotServed, SamePlaces,
          SameRequests, SameResponses
  <1>2. \/ Call \/ ReturnResponse \/ ReadCallback \/ FinishCallback
        \/ ReadFrame
        \/ \E m \in Methods, withObject \in BOOLEAN : DoCallback(m, withObject)
        \/ Respond
        \/ UNCHANGED <<toReceiver, toWrapper, serving, answer, ended, firstAfter>>
    BY StepCases DEF RegisterCallback, RegisterConstructor, ReadFails, vars, wrapperVars,
        receiverVars
  <1> QED
    BY <1>1, <1>2, LateCall, LateTake, LateFinish, LateReadFrame, LateReturn

-----------------------------------------------------------------------------
(* Without exceptions and nested calls, one call is under way.             *)

LEMMA OwnInit == Init => OwnInv
  <1> SUFFICES ASSUME Init PROVE OwnInv
    OBVIOUS
  <1>1. /\ \A k \in Calls, i \in Nat : ~Asked(k, i) /\ ~Responded(k, i)
        /\ \A k \in Calls : ~InService(k)
        /\ stack = <<>> /\ DOMAIN answer = {}
    BY DEF Init, Asked, Responded, InService
  <1> QED
    BY <1>1 DEF OwnInv, OneCall

\* Nothing new of a call that is not under way.
NoneNew ==
    \A k \in Calls :
        InService(k)' \/ (\E i \in Nat : Asked(k, i)' \/ Responded(k, i)') =>
            InService(k) \/ \E i \in Nat : Asked(k, i) \/ Responded(k, i)

LEMMA OwnKept ==
    ASSUME OneCall, NoneNew, UNCHANGED <<stack, answer>>
    PROVE  OneCall'
  BY DEF OneCall, NoneNew

LEMMA OneOrTwo ==
    ASSUME NEW n \in Nat, n > 0, n <= 2
    PROVE  n = 1 \/ n = 2
  OBVIOUS

LEMMA StackSplits ==
    ASSUME TypeOK, OneCall, stack # <<>>
    PROVE  /\ stack \in Seq(Entries) /\ Len(stack) \in Nat
           /\ stack[1].is = "call"
           /\ Last(stack).is = "call" => Len(stack) = 1 /\ Last(stack) = stack[1]
           /\ Last(stack).is = "callback" => Len(stack) = 2
  <1>1. stack \in Seq(Entries)
    BY DEF TypeOK, Entries
  <1>2. Len(stack) \in Nat /\ Len(stack) > 0
    BY <1>1
  <1>3. Last(stack) = stack[Len(stack)]
    BY DEF Last
  <1>4. /\ Len(stack) <= 2
        /\ Len(stack) >= 1 => stack[1].is = "call"
        /\ Len(stack) = 2 => stack[2].is = "callback"
    BY DEF OneCall
  <1>5. Len(stack) = 1 \/ Len(stack) = 2
    <2>1. Len(stack) <= 2
      BY <1>4
    <2> QED
      BY <1>2, <2>1, OneOrTwo
  <1>6. stack[1].is = "call"
    BY <1>4, <1>5
  <1>7. CASE Len(stack) = 1
    BY <1>1, <1>3, <1>6, <1>7
  <1>8. CASE Len(stack) = 2
    BY <1>1, <1>3, <1>4, <1>6, <1>8
  <1> QED
    BY <1>5, <1>7, <1>8

LEMMA OwnCall ==
    ASSUME TypeOK, OneCall, Call, ~broken'
    PROVE  OneCall'
  <1>n. calls \in Calls
    BY CallNumbers DEF Call
  <1>1. ~ended /\ stack = <<>>
    BY DEF Call, Unwind
  <1>2. stack' = <<[is |-> "call", call |-> calls]>>
    BY <1>1 DEF Call
  <1>3. /\ stack' # <<>> /\ Len(stack') = 1
        /\ stack'[1].is = "call" /\ stack'[1].call = calls
    BY <1>2
  <1>4. \A k \in Calls, i \in Nat :
           Asked(k, i)' <=> Asked(k, i) \/ (i = Len(toReceiver) + 1 /\ k = calls)
    BY <1>1, <1>n, RequestSent DEF Call
  <1>5. SameResponses /\ \A k \in Calls : InService(k)' <=> InService(k)
    BY ResponsesKept, ServiceKept DEF Call, receiverVars
  <1>6. \A k \in Calls : ~InService(k) /\ \A i \in Nat : ~Asked(k, i) /\ ~Responded(k, i)
    BY <1>1 DEF OneCall
  <1>7. \A k \in Calls :
           InService(k)' \/ (\E i \in Nat : Asked(k, i)' \/ Responded(k, i)') => k = calls
    BY <1>4, <1>5, <1>6 DEF SameResponses
  <1>8. \A l \in DOMAIN answer' : answer'[l] = l
    BY DEF Call, OneCall
  <1> QED
    BY <1>3, <1>7, <1>8 DEF OneCall

LEMMA OwnReturn ==
    ASSUME TypeOK, PlaceInv, OneCall, ReturnResponse
    PROVE  OneCall'
  <1> DEFINE r == Head(toWrapper).call
  <1>1. /\ toWrapper # <<>> /\ toWrapper' = Tail(toWrapper) /\ Head(toWrapper).tag = "response"
        /\ stack # <<>> /\ Last(stack).is = "call" /\ stack' = Front(stack)
        /\ answer' = Put(answer, Last(stack).call, r)
        /\ UNCHANGED <<toReceiver, serving>>
    BY DEF ReturnResponse, Top, receiverVars
  <1>2. /\ \A k \in Calls, i \in Nat : Responded(k, i)' <=> i > 0 /\ Responded(k, i + 1)
        /\ Head(toWrapper) = toWrapper[1] /\ 1 \in DOMAIN toWrapper
        /\ Head(toWrapper) \in Received
    BY <1>1, FrameTaken
  <1>3. r \in Calls /\ Responded(r, 1)
    BY <1>1, <1>2 DEF Received, Responded
  <1>4. Len(stack) = 1 /\ Last(stack) = stack[1] /\ stack \in Seq(Entries)
    BY <1>1, StackSplits
  <1>5. Len(stack') = 0
    BY <1>1, <1>4, FrontAt
  <1>6. stack[1].call = r
    BY <1>3 DEF OneCall
  <1>7. SameRequests /\ \A k \in Calls : InService(k)' <=> InService(k)
    BY <1>1, RequestsKept, ServiceKept
  <1>8. \A l \in DOMAIN answer' : answer'[l] = l
    BY <1>1, <1>4, <1>6 DEF OneCall, Put
  <1> HIDE DEF r
  <1>9. \A k \in Calls : InService(k) \/ (\E i \in Nat : Asked(k, i) \/ Responded(k, i)) => k = r
    BY <1>6 DEF OneCall
  <1>10. ~InService(r) /\ \A i \in Nat : ~Asked(r, i) /\ (Responded(r, i) => i = 1)
    BY <1>3 DEF PlaceInv, AskedOnce, ServedOnce, RespondedOnce
  <1>11. \A k \in Calls : ~InService(k)' /\ \A i \in Nat : ~Asked(k, i)'
    BY <1>7, <1>9, <1>10 DEF SameRequests
  <1>12. \A k \in Calls, i \in Nat : ~Responded(k, i)'
    <2> SUFFICES ASSUME NEW k \in Calls, NEW i \in Nat, i > 0, Responded(k, i + 1)
                 PROVE  FALSE
      BY <1>2
    <2>1. k = r /\ i + 1 \in Nat /\ i + 1 # 1
      BY <1>9
    <2> QED
      BY <2>1, <1>10
  <1> QED
    BY <1>5, <1>8, <1>11, <1>12 DEF OneCall

LEMMA OwnReadCallback ==
    ASSUME TypeOK, OneCall, ReadCallback, ~broken'
    PROVE  OneCall'
  <1> DEFINE function == receivers[Head(toWrapper).method]
  <1>1. /\ toWrapper # <<>> /\ toWrapper' = Tail(toWrapper)
        /\ stack # <<>> /\ Last(stack).is = "call"
        /\ UNCHANGED <<answer, toReceiver, serving>>
    BY DEF ReadCallback, Top, receiverVars
  <1>2. stack' = Append(stack, [is |-> "callback", function |-> function])
    BY DEF ReadCallback, Unwind
  <1>3. Len(stack) = 1 /\ stack \in Seq(Entries)
    BY <1>1, StackSplits
  <1>4. Len(stack') = 2 /\ stack' # <<>> /\ stack'[1] = stack[1] /\ stack'[2].is = "callback"
    <2>1. Head(toWrapper) \in Received /\ Head(toWrapper).tag = "callback"
      BY <1>1, FrameTaken DEF ReadCallback
    <2>2. function \in Functions \cup {"none"} /\ function # "none"
      BY <2>1 DEF ReadCallback, Unwind, Received, TypeOK
    <2> DEFINE entry == [is |-> "callback", function |-> function]
    <2>3. entry \in Entries /\ entry.is = "callback"
      BY <2>2 DEF Entries
    <2> HIDE DEF entry
    <2>4. stack' = Append(stack, entry)
      BY <1>2 DEF entry
    <2> QED
      <3>1. /\ stack' \in Seq(Entries) /\ Len(stack') = 2
            /\ stack'[1] = stack[1] /\ stack'[2] = entry
        <4>1. /\ stack' \in Seq(Entries) /\ Len(stack) + 1 = 2
              /\ stack'[Len(stack) + 1] = entry
          BY <1>3, <2>3, <2>4, AppendAt
        <4>2. 1 \in DOMAIN stack
          BY <1>3
        <4>3. stack'[1] = stack[1]
          BY <1>3, <2>3, <2>4, <4>2, AppendAt
        <4>4. Len(stack') = 2
          <5>1. Len(Append(stack, entry)) = Len(stack) + 1
            BY <1>3, <2>3, AppendLen
          <5> QED
            BY <1>3, <2>4, <5>1
        <4> QED
          BY <4>1, <4>3, <4>4
      <3> QED
        BY <2>3, <3>1
  <1>5. \A k \in Calls, i \in Nat : Responded(k, i)' <=> i > 0 /\ Responded(k, i + 1)
    BY <1>1, FrameTaken
  <1>6. SameRequests /\ \A k \in Calls : InService(k)' <=> InService(k)
    BY <1>1, RequestsKept, ServiceKept
  <1>7. NoneNew
    BY <1>5, <1>6 DEF NoneNew, SameRequests
  <1> QED
    BY <1>1, <1>4, <1>7 DEF OneCall, NoneNew

LEMMA OwnFinish ==
    ASSUME TypeOK, OneCall, FinishCallback, ~broken'
    PROVE  OneCall'
  <1>1. ~ended
    BY DEF FinishCallback, Unwind
  <1>2. /\ stack # <<>> /\ Last(stack).is = "callback" /\ stack' = Front(stack)
        /\ UNCHANGED <<answer, toWrapper, serving>>
    BY <1>1 DEF FinishCallback, Top, receiverVars
  <1>3. Len(stack) = 2 /\ stack \in Seq(Entries) /\ stack[1].is = "call"
    BY <1>2, StackSplits
  <1>4. Len(stack') = 1 /\ stack' # <<>> /\ stack'[1] = stack[1]
    <2>1. Front(stack) \in Seq(Entries) /\ Len(Front(stack)) = Len(stack) - 1
      BY <1>2, <1>3, FrontAt
    <2>2. 1 \in 1 .. Len(stack) - 1
      BY <1>3
    <2>3. Front(stack)[1] = stack[1]
      BY <1>2, <1>3, <2>2, FrontAt
    <2>4. stack' \in Seq(Entries) /\ Len(stack') = 1
      BY <1>2, <1>3, <2>1
    <2>5. stack' # <<>>
      BY <2>4
    <2> QED
      BY <1>2, <2>3, <2>4, <2>5
  <1>5. \A k \in Calls, i \in Nat : Asked(k, i)' <=> Asked(k, i)
    BY <1>1, AnswerSent DEF FinishCallback
  <1>6. SameResponses /\ \A k \in Calls : InService(k)' <=> InService(k)
    BY <1>2, ResponsesKept, ServiceKept
  <1>7. NoneNew
    BY <1>5, <1>6 DEF NoneNew, SameResponses
  <1> QED
    BY <1>2, <1>3, <1>4, <1>7 DEF OneCall, NoneNew

LEMMA ReceiverMakesNone ==
    ASSUME TypeOK, ReceiverNext
    PROVE  NoneNew
  <1>1. CASE ReadFrame
    <2>1. /\ toReceiver # <<>> /\ toReceiver' = Tail(toReceiver) /\ serving = {}
          /\ UNCHANGED toWrapper
      BY <1>1 DEF ReadFrame
    <2>2. /\ \A k \in Calls, i \in Nat : Asked(k, i)' <=> i > 0 /\ Asked(k, i + 1)
          /\ Head(toReceiver) = toReceiver[1] /\ 1 \in DOMAIN toReceiver
      BY <2>1, RequestTaken
    <2>3. \A k \in Calls : InService(k)' => Asked(k, 1)
      BY <1>1, <2>1, <2>2 DEF ReadFrame, InService, Asked
    <2>4. SameResponses
      BY <2>1, ResponsesKept
    <2> QED
      BY <2>2, <2>3, <2>4 DEF NoneNew, SameResponses
  <1>2. CASE \E m \in Methods, withObject \in BOOLEAN : DoCallback(m, withObject)
    <2> PICK m \in Methods, withObject \in BOOLEAN : DoCallback(m, withObject)
      BY <1>2
    <2> PICK job \in serving :
           toWrapper' = Append(toWrapper, [tag |-> "callback", method |-> m,
                                           call |-> job.call])
      BY DEF DoCallback
    <2> DEFINE frame == [tag |-> "callback", method |-> m, call |-> job.call]
    <2>1. frame \in Received /\ frame.tag = "callback"
      BY DEF TypeOK, Received
    <2> HIDE DEF frame
    <2>2. \A k \in Calls, i \in Nat : Responded(k, i)' <=> Responded(k, i)
      BY <2>1, FrameReturned DEF frame
    <2>3. SameRequests /\ \A k \in Calls : InService(k)' <=> InService(k)
      BY RequestsKept, ServiceKept DEF DoCallback
    <2> QED
      BY <2>2, <2>3 DEF NoneNew, SameRequests
  <1>3. CASE Respond
    <2> PICK job \in serving :
           toWrapper' = Append(toWrapper, [tag |-> "response", call |-> job.call])
      BY <1>3 DEF Respond
    <2> DEFINE frame == [tag |-> "response", call |-> job.call]
    <2>1. frame \in Received /\ frame.call = job.call /\ job.call \in Calls
      BY DEF TypeOK, Received
    <2>2. InService(job.call)
      BY DEF InService
    <2> HIDE DEF frame
    <2>3. \A k \in Calls, i \in Nat : Responded(k, i)' => Responded(k, i) \/ k = job.call
      BY <2>1, FrameReturned DEF frame
    <2>4. SameRequests /\ \A k \in Calls : ~InService(k)'
      BY <1>3, RequestsKept DEF Respond, InService
    <2> QED
      BY <2>2, <2>3, <2>4 DEF NoneNew, SameRequests
  <1> QED
    BY <1>1, <1>2, <1>3 DEF ReceiverNext

LEMMA OwnStep == TypeOK /\ PlaceInv /\ OwnInv /\ [Next]_vars => OwnInv'
  <1> SUFFICES ASSUME TypeOK, PlaceInv, OwnInv, [Next]_vars, ~broken' PROVE OneCall'
    BY DEF OwnInv
  <1>1. CASE Register \/ UNCHANGED vars
    <2>1. UNCHANGED <<stack, answer, toReceiver, toWrapper, serving, broken>>
      BY <1>1 DEF Register, RegisterCallback, RegisterConstructor, vars, wrapperVars,
          receiverVars
    <2>2. SamePlaces
      BY <2>1, PlacesKept
    <2>3. NoneNew
      BY <2>2 DEF NoneNew, SamePlaces, SameRequests, SameResponses
    <2>4. OneCall
      BY <2>1 DEF OwnInv
    <2> QED
      BY <2>1, <2>3, <2>4, OwnKept
  <1>2. CASE Call
    <2>1. ~broken
      BY <1>2 DEF Call, Unwind
    <2> QED
      BY <1>2, <2>1, OwnCall DEF OwnInv
  <1>3. CASE ReturnResponse
    <2>1. ~broken
      BY <1>3 DEF ReturnResponse
    <2> QED
      BY <1>3, <2>1, OwnReturn DEF OwnInv
  <1>4. CASE ReadCallback
    <2>1. ~broken
      BY <1>4 DEF ReadCallback, Unwind
    <2> QED
      BY <1>4, <2>1, OwnReadCallback DEF OwnInv
  <1>5. CASE FinishCallback
    <2>1. ~broken
      BY <1>5 DEF FinishCallback, Unwind
    <2> QED
      BY <1>5, <2>1, OwnFinish DEF OwnInv
  <1>6. CASE ReadFails
    BY <1>6 DEF ReadFails, Unwind
  <1>7. CASE ReceiverNext
    <2>1. UNCHANGED <<stack, answer, broken>>
      BY <1>7 DEF ReceiverNext, ReadFrame, DoCallback, Respond, wrapperVars
    <2>2. OneCall
      BY <2>1 DEF OwnInv
    <2> QED
      BY <1>7, <2>1, <2>2, ReceiverMakesNone, OwnKept
  <1> QED
    BY <1>1, <1>2, <1>3, <1>4, <1>5, <1>6, <1>7 DEF Next

-----------------------------------------------------------------------------
(* The theorems.                                                           *)

(***************************************************************************)
(* The inductive invariant holds in every reachable state.                 *)
(***************************************************************************)
THEOREM Invariant == Spec => []IInv
  <1>1. Init => IInv
    BY TypesInit, IdsInit, PlacesInit, LateInit, OwnInit DEF IInv
  <1>2. IInv /\ [Next]_vars => IInv'
    BY TypesStep, IdsStep, PlacesStep, LateStep, OwnStep DEF IInv
  <1> QED
    BY <1>1, <1>2, PTL DEF Spec

(***************************************************************************)
(* The type invariant: what nested handling of requests and callbacks      *)
(* leaves on the stacks, in persistence and in the channels is of the      *)
(* types that the handlers read.                                           *)
(***************************************************************************)
THEOREM CallbackTypes == Spec => []TypeOK
  <1>1. IInv => TypeOK
    BY DEF IInv
  <1> QED
    BY Invariant, <1>1, PTL

(***************************************************************************)
(* A call returns the response to its own request, also when callbacks are *)
(* served in readResponse meanwhile, as long as none of them ended it by   *)
(* an exception or made a call.                                            *)
(***************************************************************************)
THEOREM OwnResponses == Spec => []OwnResponse
  <1>1. IInv => OwnResponse
    BY DEF IInv, OwnInv, OneCall, OwnResponse
  <1> QED
    BY <1>1, Invariant, PTL

(***************************************************************************)
(* When the response to a request has been returned, no callback that its  *)
(* handler made by do_callback is still in the channel.                    *)
(***************************************************************************)
THEOREM CallbacksComeFirst == Spec => []CallbacksFirst
  <1>1. IInv => CallbacksFirst
    <2> SUFFICES ASSUME IInv, NEW k \in DOMAIN answer, NEW i \in DOMAIN toWrapper,
                        toWrapper[i].tag = "callback", toWrapper[i].call = answer[k]
                 PROVE  FALSE
      BY DEF CallbacksFirst
    <2>1. answer[k] \in Calls /\ i \in Nat
      BY PlacesAreTyped DEF IInv, TypeOK
    <2>2. CalledBack(answer[k], i) /\ Answered(answer[k])
      BY DEF CalledBack, Answered
    <2>3. InService(answer[k]) \/ \E j \in Nat : Responded(answer[k], j)
      BY <2>1, <2>2 DEF IInv, PlaceInv, CallbackBefore
    <2> QED
      BY <2>1, <2>2, <2>3 DEF IInv, PlaceInv, ServedOnce, RespondedOnce
  <1> QED
    BY <1>1, Invariant, PTL

(***************************************************************************)
(* CALLBACK_RESPONSE ends the receiver when process_request reads it: no   *)
(* call made after a callback was answered returns its own response.       *)
(***************************************************************************)
THEOREM NothingServedAfterAnswer == Spec => []NoneServedAfterAnswer
  <1>1. IInv => NoneServedAfterAnswer
    <2> SUFFICES ASSUME IInv, NEW k \in DOMAIN answer, k >= firstAfter, answer[k] = k
                 PROVE  FALSE
      BY DEF NoneServedAfterAnswer
    <2>1. k \in Calls /\ Answered(k)
      BY DEF IInv, TypeOK, Answered
    <2>2. k < firstAfter
      BY <2>1 DEF IInv, LateInv, LateNotServed
    <2>3. k \in Nat /\ firstAfter \in Nat
      BY <2>1, CallNumbers DEF IInv
    <2> QED
      BY <2>2, <2>3
  <1> QED
    BY <1>1, Invariant, PTL

(***************************************************************************)
(* The ids that process_request and do_callback take from                  *)
(* assigned_id_counter name one thing each: nothing in persistence is      *)
(* overwritten.                                                            *)
(***************************************************************************)
THEOREM IdsStayDistinct == Spec => IdsNotShared
  <1> DEFINE Kept == \A id \in DOMAIN persistence : persistence'[id] = persistence[id]
  <1>1. IInv /\ [Next]_vars => [Kept]_vars
    <2> SUFFICES ASSUME IInv, [Next]_vars PROVE Kept
      OBVIOUS
    <2>t. counter \in Nat /\ DOMAIN persistence \subseteq 0 .. counter - 1
      BY DEF IInv, TypeOK
    <2>1. CASE \E m \in Methods, withObject \in BOOLEAN : DoCallback(m, withObject)
      <3>1. counter \notin DOMAIN persistence
        BY <2>t
      <3> QED
        BY <2>1, <3>1 DEF DoCallback, Put
    <2>2. CASE Respond
      BY <2>2 DEF Respond, Put, IInv, IdInv
    <2>3. CASE UNCHANGED persistence
      BY <2>3
    <2>4. \/ \E m \in Methods, withObject \in BOOLEAN : DoCallback(m, withObject)
          \/ Respond
          \/ UNCHANGED persistence
      BY StepCases DEF RegisterCallback, RegisterConstructor, Call, ReturnResponse,
          ReadCallback, FinishCallback, ReadFails, ReadFrame, vars, receiverVars
    <2> QED
      BY <2>1, <2>2, <2>3, <2>4
  <1> QED
    BY <1>1, Invariant, PTL DEF Spec, IdsNotShared

=============================================================================
