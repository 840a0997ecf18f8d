------------------------ MODULE RequestTransferProofs ------------------------
(***************************************************************************)
(* Proofs about RequestTransfer, for every set of methods, arguments and   *)
(* objects.  A frame that arrives whole is read by the codec's theorems;   *)
(* of one that is cut, the fields before the cut are read as they are, and *)
(* the field that the cut falls into has a zero at its end, or nothing.    *)
(***************************************************************************)
EXTENDS RequestTransfer, MessageCodecProofs

-----------------------------------------------------------------------------
(* The wrapper's calls, and their messages.                                *)

PassedArguments ==
    {a \in [kind : Kinds, key : ByteStrings, number : Int, string : ByteStrings] :
        a.kind = "number" => a.number \in Int64s}

MethodCalls ==
    {c \in [kind : {"method"}, method : Methods, objectID : ByteStrings,
            args : Seq(PassedArguments)] :
        /\ c.method.object => c.objectID \in Texts
        /\ DOMAIN c.args = DOMAIN c.method.params
        /\ \A i \in DOMAIN c.args : c.args[i].kind = c.method.params[i].kind}

Imports == [kind : {"import"}, name : Names]

\* The ids of the objects that the receiver may have, if the counter is n.
IdsBelow(n) == FirstObjects \cup {Decimal(i) : i \in FirstId .. n - 1}

\* What is left of s if n bytes of it arrive.
CutAt(s, n) == [i \in DOMAIN s |-> IF i <= n THEN s[i] ELSE 0]

\* What the receiver makes of a frame with call c that was cut, as far as a handler could run
\* with it.  A string is either as it was sent, or no text.
CutRequest(c, r) ==
    /\ r.case = IF c.kind = "method" THEN "method_call" ELSE "importation"
    /\ c.kind = "method" =>
        /\ r.method_call.type \notin Texts
        /\ r.method_call.methodname \in Texts => r.method_call.methodname = c.method.name
        /\ r.method_call.object_id \in Texts => r.method_call.object_id = c.objectID
        /\ c.method.params = <<>> => r.method_call.arg = <<>>

\* A response with the id i and nothing else.
Named(i) == [EmptyChannelResponse EXCEPT !.assigned_id = i]

\* A response with the id i and the number n.
Numbered(n, i) == AsReturnValue(set_int_value(EmptyValue, n), i)

\* The response tells what the handler did.
ResponseTells ==
    CASE outcome.kind = "number" ->
            /\ outcome.number \in Int64s
            /\ resp = Numbered(outcome.number, id)
      [] outcome.kind = "object" -> resp = Named(id) /\ outcome.id = id /\ id \in persistence
      [] OTHER -> resp = Named(id) /\ id \notin persistence

TransferInv ==
    /\ TypeOK
    /\ calls > 0 => call \in MethodCalls \cup Imports
    /\ phase = "sent" =>
        /\ calls > 0 /\ counter = FirstId + calls - 1
        /\ bytes = RequestBytes(RequestProto(call))
        /\ outcome = Nothing
    /\ phase # "sent" => counter = FirstId + calls
    /\ phase \in {"read", "executed", "responded"} => calls > 0 /\ id = Decimal(counter - 1)
    /\ phase = "read" =>
        /\ persistence \subseteq IdsBelow(counter - 1)
        /\ resp = Named(id) /\ outcome = Nothing
        /\ IF cut THEN CutRequest(call, rq) ELSE rq = RequestProto(call)
    /\ phase \in {"executed", "responded"} => ResponseTells
    /\ phase = "responded" => bytes = ChannelResponseBytes(resp)
    /\ ResultArrives
    /\ CutCallsUnchanged

-----------------------------------------------------------------------------
(* The messages of the calls.                                              *)

LEMMA ValueIs ==
    ASSUME NEW a \in PassedArguments, NEW v, v = ValueProto(a)
    PROVE  /\ v \in ValueMessages
           /\ a.kind = "number" => int_value(v) = a.number
           /\ a.kind \in {"string", "object"} => string_value(v) = a.string
<1>1. /\ a.kind \in Kinds /\ a.string \in ByteStrings
      /\ a.kind = "number" => a.number \in Int64s
  BY DEF PassedArguments
<1>2. 0 \in Int64s /\ 0 \in Uint64s
  BY PowerIsPositive DEF Int64s, Uint64s
<1>3. <<>> \in ByteStrings /\ EmptyValue \in ValueMessages
  BY EmptiesAre
<1>4. CASE a.kind = "number"
  <2>1. v = [case |-> "int", string |-> <<>>, int |-> a.number, uint |-> 0]
    BY <1>4, SettersGive DEF ValueProto
  <2> QED
    BY <1>1, <1>2, <1>3, <1>4, <2>1 DEF ValueMessages, int_value, has_int_value
<1>5. CASE a.kind \in {"string", "object"}
  <2>1. v = [case |-> "string", string |-> a.string, int |-> 0, uint |-> 0]
    BY <1>5, SettersGive DEF ValueProto
  <2>2. a.string \in ByteStrings
    BY DEF PassedArguments
  <2> QED
    BY <1>2, <1>5, <2>1, <2>2 DEF ValueMessages, string_value, has_string_value
<1>6. CASE a.kind = "boolean"
  BY <1>3, <1>6 DEF ValueProto
<1> QED
  BY <1>4, <1>5, <1>6 DEF PassedArguments, Kinds

LEMMA ArgumentIs ==
    ASSUME NEW a \in PassedArguments
    PROVE  ArgumentProto(a) \in ArgumentMessages /\ ArgumentProto(a).value = ValueProto(a)
<1>1. PICK v, t : v = ValueProto(a) /\ t = IF a.kind = "object" THEN PERSISTENCE ELSE INPLACE
  OBVIOUS
<1>2. t \in 0 .. 127 /\ a.key \in ByteStrings /\ v \in ValueMessages
  BY <1>1, ValueIs DEF PassedArguments, PERSISTENCE, INPLACE
<1>3. PICK x : x = set_value(EmptyArgument, v)
  OBVIOUS
<1>4. x = ArgumentOf(PERSISTENCE, TRUE, v, <<>>)
  BY <1>3 DEF set_value, EmptyArgument, ArgumentOf
<1>5. ArgumentProto(a) = [x EXCEPT !.type = t, !.key = a.key]
  BY <1>1, <1>3 DEF ArgumentProto
<1>6. ArgumentProto(a) = ArgumentOf(t, TRUE, v, a.key)
  BY <1>4, <1>5 DEF ArgumentOf
<1>7. ArgumentOf(t, TRUE, v, a.key) \in ArgumentMessages
  BY <1>2 DEF ArgumentOf, ArgumentMessages
<1> QED
  BY <1>1, <1>6, <1>7 DEF ArgumentOf

LEMMA MethodCallIs ==
    ASSUME NEW c \in MethodCalls, NEW w, w = MethodCallProto(c)
    PROVE  /\ w \in MethodCallMessages
           /\ w.methodname = c.method.name /\ w.type = c.method.type
           /\ w.object_id = c.objectID
           /\ DOMAIN w.arg = DOMAIN c.args
           /\ \A i \in DOMAIN c.args : w.arg[i].value = ValueProto(c.args[i])
           /\ c.method \in Methods /\ c.objectID \in ByteStrings
           /\ c.method.name \in Texts /\ c.method.type \in Texts
           /\ c.method.params = <<>> => w.arg = <<>>
<1>1. /\ c.method \in Methods /\ c.objectID \in ByteStrings /\ c.args \in Seq(PassedArguments)
      /\ DOMAIN c.args = DOMAIN c.method.params
  BY DEF MethodCalls
<1>2. /\ c.method.name \in Texts /\ c.method.type \in Texts
      /\ c.method.static \in BOOLEAN /\ c.method.returns \in BOOLEAN
      /\ c.method.params \in Seq(Parameters)
  BY <1>1, TransferAssumption
<1>3. PICK args : args = [i \in DOMAIN c.args |-> ArgumentProto(c.args[i])]
  OBVIOUS
<1>4. \A i \in DOMAIN c.args :
        args[i] \in ArgumentMessages /\ args[i].value = ValueProto(c.args[i])
  <2> TAKE i \in DOMAIN c.args
  <2>1. c.args[i] \in PassedArguments /\ args[i] = ArgumentProto(c.args[i])
    BY <1>1, <1>3
  <2> QED
    BY <2>1, ArgumentIs
<1>5. args \in Seq(ArgumentMessages) /\ DOMAIN args = DOMAIN c.args
  <2>1. PICK n \in Nat : DOMAIN c.args = 1 .. n
    BY <1>1
  <2>2. args \in [1 .. n -> ArgumentMessages]
    BY <1>3, <1>4, <2>1
  <2> QED
    BY <2>1, <2>2
<1>6. w = MethodCallOf(c.method.name, c.objectID, args, c.method.static, c.method.returns,
                       FALSE, c.method.type)
  BY <1>3 DEF MethodCallProto, MethodCallOf
<1>7. w \in MethodCallMessages
  <2>1. c.method.name \in ByteStrings /\ c.method.type \in ByteStrings
    BY <1>2 DEF Texts
  <2>2. FALSE \in BOOLEAN
    OBVIOUS
  <2> QED
    BY <1>1, <1>2, <1>5, <1>6, <2>1, <2>2 DEF MethodCallOf, MethodCallMessages
<1>8. c.method.params = <<>> => args = <<>>
  <2>1. SUFFICES ASSUME c.method.params = <<>> PROVE args = <<>>
    OBVIOUS
  <2>2. DOMAIN args = {}
    BY <1>1, <1>5, <2>1
  <2> QED
    BY <1>5, <2>2
<1> QED
  BY <1>1, <1>2, <1>4, <1>5, <1>6, <1>7, <1>8 DEF MethodCallOf

LEMMA MergedCallIs ==
    ASSUME NEW w \in MethodCallMessages
    PROVE  MergeMethodCallRequest(EmptyMethodCallRequest, w) = w
<1>1. w = MethodCallOf(w.methodname, w.object_id, w.arg, w.static, w.do_get_return_value,
                       w.property, w.type)
  BY DEF MethodCallMessages, MethodCallOf
<1>2. /\ w.static \in BOOLEAN /\ w.do_get_return_value \in BOOLEAN /\ w.property \in BOOLEAN
      /\ w.arg \in Seq(ArgumentMessages)
  BY DEF MethodCallMessages
<1>3. <<>> \o w.arg = w.arg
  BY <1>2
<1>4. /\ EmptyMethodCallRequest.methodname = <<>> /\ EmptyMethodCallRequest.object_id = <<>>
      /\ EmptyMethodCallRequest.arg = <<>> /\ EmptyMethodCallRequest.type = <<>>
      /\ EmptyMethodCallRequest.static = FALSE /\ EmptyMethodCallRequest.property = FALSE
      /\ EmptyMethodCallRequest.do_get_return_value = FALSE
  BY DEF EmptyMethodCallRequest
<1>5. PICK x : x = MergeMethodCallRequest(EmptyMethodCallRequest, w)
  OBVIOUS
<1>6. x = MethodCallOf(w.methodname, w.object_id, w.arg, FALSE \/ w.static,
                       FALSE \/ w.do_get_return_value, FALSE \/ w.property, w.type)
  BY <1>3, <1>4, <1>5 DEF MergeMethodCallRequest, MethodCallOf
<1>7. /\ (FALSE \/ w.static) = w.static
      /\ (FALSE \/ w.do_get_return_value) = w.do_get_return_value
      /\ (FALSE \/ w.property) = w.property
  BY <1>2
<1> QED
  BY <1>1, <1>5, <1>6, <1>7

LEMMA EmptyRequestIs ==
    /\ EmptyRequest \in RequestMessages /\ EmptyRequest = AsNothing(<<>>)
    /\ EmptyRequest.assigned_id = <<>> /\ EmptyRequest.case = "none"
    /\ EmptyRequest.method_call = EmptyMethodCallRequest
    /\ EmptyRequest.importation = EmptyImportRequest
<1>1. EmptyRequest = AsNothing(<<>>)
  BY DEF EmptyRequest, AsNothing, RequestOf, Unset
<1> QED
  BY <1>1, AlternativesAre, EmptiesAre, RequestFields DEF AsNothing

LEMMA CallBytes ==
    ASSUME NEW w \in MethodCallMessages
    PROVE  /\ MethodCallRequestBytes(w) \in Seq(Nat)
           /\ MethodCallRequestSize(w) = Len(MethodCallRequestBytes(w))
BY MethodCallTakes, EmptiesAre, TakesBytes, MethodCallHolds DEF Holds

LEMMA ImportBytes ==
    ASSUME NEW w \in ImportMessages
    PROVE  /\ ImportRequestBytes(w) \in Seq(Nat)
           /\ ImportRequestSize(w) = Len(ImportRequestBytes(w))
BY ImportTakes, EmptiesAre, TakesBytes, ImportHolds DEF Holds

\* A request of the wrapper has one field.
LEMMA RequestIsMethodCall ==
    ASSUME NEW c \in MethodCalls, NEW w, w = MethodCallProto(c)
    PROVE  /\ RequestProto(c) = AsMethodCall(w, <<>>)
           /\ RequestBytes(RequestProto(c))
                = PutMessage(1, MethodCallRequestSize(w), MethodCallRequestBytes(w))
           /\ MethodCallRequestBytes(w) \in Seq(Nat)
           /\ MethodCallRequestSize(w) = Len(MethodCallRequestBytes(w))
           /\ RequestProto(c) \in RequestMessages
<1>1. c.kind = "method" /\ w \in MethodCallMessages
  BY MethodCallIs DEF MethodCalls
<1>2. PICK r : r = RequestProto(c)
  OBVIOUS
<1>3. r = AsMethodCall(w, <<>>)
  BY <1>1, <1>2, EmptyRequestIs, MethodCallIsSet DEF RequestProto
<1>4. r.case = "method_call" /\ r.method_call = w /\ r.assigned_id = <<>>
  BY <1>3, RequestFields DEF AsMethodCall
<1>5. PICK s, n : s = MethodCallRequestBytes(w) /\ n = MethodCallRequestSize(w)
  OBVIOUS
<1>6. s \in Seq(Nat) /\ n = Len(s)
  BY <1>1, <1>5, CallBytes
<1>7. RequestBytes(r) = PutMessage(1, n, s) \o <<>> \o <<>> \o <<>> \o <<>> \o <<>>
  BY <1>4, <1>5 DEF RequestBytes, If
<1>8. PutMessage(1, n, s) \in Seq(Nat)
  <2>1. Encodes(PutMessage(1, n, s), <<[tag |-> Tag(1, Delimited), bytes |-> s]>>)
    BY <1>6, MessageEncodes
  <2> QED
    BY <2>1 DEF Encodes
<1>9. RequestBytes(r) = PutMessage(1, n, s)
  BY <1>7, <1>8
<1>10. r \in RequestMessages
  BY <1>1, <1>3, EmptiesAre, AlternativesAre
<1> QED
  BY <1>2, <1>3, <1>5, <1>6, <1>9, <1>10

LEMMA RequestIsImport ==
    ASSUME NEW c \in Imports, NEW w, w = [imported_name |-> c.name]
    PROVE  /\ RequestProto(c) = AsImport(w, <<>>)
           /\ RequestBytes(RequestProto(c))
                = PutMessage(2, ImportRequestSize(w), ImportRequestBytes(w))
           /\ ImportRequestBytes(w) \in Seq(Nat)
           /\ ImportRequestSize(w) = Len(ImportRequestBytes(w))
           /\ RequestProto(c) \in RequestMessages
<1>1. c.kind = "import" /\ w \in ImportMessages
  BY TransferAssumption DEF Imports, ImportMessages
<1>2. PICK r : r = RequestProto(c)
  OBVIOUS
<1>3. r = AsImport(w, <<>>)
  BY <1>1, <1>2, EmptyRequestIs, ImportIsSet DEF RequestProto
<1>4. r.case = "importation" /\ r.importation = w /\ r.assigned_id = <<>>
  BY <1>3, RequestFields DEF AsImport
<1>5. PICK s, n : s = ImportRequestBytes(w) /\ n = ImportRequestSize(w)
  OBVIOUS
<1>6. s \in Seq(Nat) /\ n = Len(s)
  BY <1>1, <1>5, ImportBytes
<1>7. RequestBytes(r) = <<>> \o PutMessage(2, n, s) \o <<>> \o <<>> \o <<>> \o <<>>
  BY <1>4, <1>5 DEF RequestBytes, If
<1>8. PutMessage(2, n, s) \in Seq(Nat)
  <2>1. Encodes(PutMessage(2, n, s), <<[tag |-> Tag(2, Delimited), bytes |-> s]>>)
    BY <1>6, MessageEncodes
  <2> QED
    BY <2>1 DEF Encodes
<1>9. RequestBytes(r) = PutMessage(2, n, s)
  BY <1>7, <1>8
<1>10. r \in RequestMessages
  BY <1>1, <1>3, EmptiesAre, AlternativesAre
<1> QED
  BY <1>2, <1>3, <1>5, <1>6, <1>9, <1>10

\* A frame that arrives whole is read as the request that was sent.
LEMMA WholeRequest ==
    ASSUME NEW c \in MethodCalls \cup Imports
    PROVE  ParseRequest(RequestBytes(RequestProto(c))) = Read(RequestProto(c))
<1>1. PICK z, r, q : z = EmptyRequest /\ r = RequestProto(c) /\ q = MergeRequest(z, r)
  OBVIOUS
<1>2. z \in RequestMessages /\ z.assigned_id = <<>>
  BY <1>1, EmptyRequestIs
<1>3. r \in RequestMessages
  BY <1>1, RequestIsMethodCall, RequestIsImport
<1>4. ParseRequest(RequestBytes(r)) = Read(q)
  BY <1>1, <1>2, <1>3, RequestTakes, TakesReads, ParsersAre
<1>5. q = r
  <2>1. CASE c \in MethodCalls
    <3>1. PICK w : w = MethodCallProto(c) /\ w \in MethodCallMessages
      BY <2>1, MethodCallIs
    <3>2. r = AsMethodCall(w, <<>>)
      BY <1>1, <2>1, <3>1, RequestIsMethodCall
    <3>3. r.case = "method_call" /\ r.method_call = w /\ r.assigned_id = <<>>
      BY <3>2, RequestFields DEF AsMethodCall
    <3>4. q = AsMethodCall(MergeMethodCallRequest(z.method_call, w), <<>>)
      BY <1>1, <1>2, <1>3, <3>3, MergeRequestIs
    <3>5. MergeMethodCallRequest(EmptyMethodCallRequest, w) = w
      BY <3>1, MergedCallIs
    <3> QED
      BY <1>1, <3>2, <3>4, <3>5, EmptyRequestIs
  <2>2. CASE c \in Imports
    <3>1. PICK w : w = [imported_name |-> c.name]
      OBVIOUS
    <3>2. r = AsImport(w, <<>>)
      BY <1>1, <2>2, <3>1, RequestIsImport
    <3>3. r.case = "importation" /\ r.importation = w /\ r.assigned_id = <<>>
      BY <3>2, RequestFields DEF AsImport
    <3>4. q = AsImport(MergeImportRequest(z.importation, w), <<>>)
      BY <1>1, <1>2, <1>3, <3>3, MergeRequestIs
    <3>5. MergeImportRequest(EmptyImportRequest, w) = w
      BY DEF MergeImportRequest
    <3> QED
      BY <1>1, <3>2, <3>4, <3>5, EmptyRequestIs
  <2> QED
    BY <2>1, <2>2
<1> QED
  BY <1>1, <1>4, <1>5

-----------------------------------------------------------------------------
(* The fields of a string of bytes that was cut: k of its bytes arrived,    *)
(* and the rest of it are zeros.                                            *)

LEMMA CutIs ==
    ASSUME NEW s \in Seq(Nat), NEW k \in Nat, NEW t, t = CutAt(s, k)
    PROVE  /\ t \in Seq(Nat) /\ Len(t) = Len(s)
           /\ \A i \in 1 .. Len(s) : t[i] = IF i <= k THEN s[i] ELSE 0
<1>1. PICK n \in Nat : n = Len(s) /\ DOMAIN s = 1 .. n
  OBVIOUS
<1>2. \A i \in 1 .. n : s[i] \in Nat
  BY <1>1
<1>3. t = [i \in 1 .. n |-> IF i <= k THEN s[i] ELSE 0]
  BY <1>1 DEF CutAt
<1>4. t \in [1 .. n -> Nat]
  BY <1>2, <1>3
<1>5. t \in Seq(Nat) /\ Len(t) = n
  BY <1>4
<1> QED
  BY <1>1, <1>3, <1>5

\* A field whose tag arrives ends where it ended, or has no length.
LEMMA CutPayload ==
    ASSUME NEW s \in Seq(Nat), NEW k \in Nat, NEW t, t = CutAt(s, k),
           NEW i \in 1 .. Len(s), i <= k, Readable(s, i)
    PROVE  \/ Payload(t, i) = Payload(s, i)
           \/ i = k /\ i < Len(s) /\ Payload(t, i) = <<i + 2, i + 1>>
<1>1. PICK n \in Nat : n = Len(s) /\ n = Len(t) /\ i \in Nat /\ i >= 1 /\ i <= n
  BY CutIs
<1>2. t[i] = s[i] /\ s[i] \in Nat
  BY CutIs
<1>3. PICK w : w = s[i] % 8 /\ w = t[i] % 8
  BY <1>2
<1>4. CASE w = Varint \/ w = Fixed64 \/ w = Fixed32
  <2>1. CASE w = Varint
    BY <1>3, <2>1, PayloadIs
  <2>2. CASE w = Fixed64
    BY <1>3, <2>2, PayloadIs
  <2>3. CASE w = Fixed32
    BY <1>3, <2>3, PayloadIs
  <2> QED
    BY <1>4, <2>1, <2>2, <2>3
<1>5. CASE w = Delimited /\ i < n
  <2>1. Payload(s, i) = <<i + 2, i + 1 + s[i + 1]>>
    BY <1>1, <1>3, <1>5, PayloadIs
  <2>2. Payload(t, i) = <<i + 2, i + 1 + t[i + 1]>>
    BY <1>1, <1>3, <1>5, PayloadIs
  <2>3. PICK j \in 1 .. Len(s) : j = i + 1
    BY <1>1, <1>5
  <2>4. t[j] = IF j <= k THEN s[j] ELSE 0
    BY CutIs
  <2>5. CASE i + 1 <= k
    <3>1. t[i + 1] = s[i + 1]
      BY <2>3, <2>4, <2>5
    <3> QED
      BY <2>1, <2>2, <3>1
  <2>6. CASE ~ (i + 1 <= k)
    <3>1. t[i + 1] = 0
      BY <2>3, <2>4, <2>6
    <3>2. i = k /\ i + 1 + 0 = i + 1
      BY <1>1, <2>6
    <3> QED
      BY <1>1, <1>5, <2>2, <3>1, <3>2
  <2> QED
    BY <2>5, <2>6
<1>6. CASE w \notin {Varint, Fixed64, Fixed32} /\ ~ (w = Delimited /\ i < n)
  <2>1. Payload(s, i) = <<i + 1, Len(s) + 1>>
    <3>1. ~ (w = Delimited /\ i < Len(s)) /\ w = s[i] % 8
      BY <1>1, <1>3, <1>6
    <3> QED
      BY <1>6, <3>1, PayloadIs
  <2>2. Payload(s, i)[2] = Len(s) + 1 /\ Len(s) \in Nat
    BY <2>1
  <2>3. Payload(s, i)[2] <= Len(s)
    BY DEF Readable
  <2> QED
    BY <2>2, <2>3
<1> QED
  BY <1>4, <1>5, <1>6

\* No text ends like this.
Broken(b) ==
    \/ b = <<>>
    \/ Len(b) \in Nat /\ Len(b) > 0 /\ b[Len(b)] = 0

LEMMA BrokenIsNoText == ASSUME NEW b, Broken(b) PROVE b \notin Texts
<1>1. SUFFICES ASSUME b \in Texts PROVE FALSE
  OBVIOUS
<1>2. b \in Seq(0 .. 255) /\ b # <<>> /\ \A i \in DOMAIN b : b[i] # 0
  BY <1>1 DEF Texts, ByteStrings
<1>3. Len(b) \in DOMAIN b /\ b[Len(b)] = 0
  BY <1>2 DEF Broken
<1> QED
  BY <1>2, <1>3

\* A part of what was cut is the part of the whole, or broken.
LEMMA CutPart ==
    ASSUME NEW s \in Seq(Nat), NEW k \in Nat, NEW t, t = CutAt(s, k),
           NEW a \in Nat \ {0}, NEW e \in 0 .. Len(s)
    PROVE  /\ SubSeq(t, a, e) = SubSeq(s, a, e) \/ Broken(SubSeq(t, a, e))
           /\ k < e => Broken(SubSeq(t, a, e))
<1>1. PICK n \in Nat : n = Len(s) /\ n = Len(t) /\ e \in Nat /\ e <= n
  BY CutIs
<1>2. \A i \in a .. e : i \in 1 .. n /\ s[i] \in Nat /\ t[i] \in Nat
  BY <1>1, CutIs
<1>3. PICK x, y : x = SubSeq(t, a, e) /\ y = SubSeq(s, a, e)
  OBVIOUS
<1>4. /\ x \in Seq(Nat)
      /\ Len(x) = IF a <= e THEN (e - a) + 1 ELSE 0
      /\ \A i \in 1 .. (e - a) + 1 : x[i] = t[(a + i) - 1]
  <2>1. \A i \in a .. e : t[i] \in Nat
    BY <1>2
  <2> QED
    BY <1>1, <1>3, <2>1, PartOf
<1>5. /\ y \in Seq(Nat)
      /\ Len(y) = IF a <= e THEN (e - a) + 1 ELSE 0
      /\ \A i \in 1 .. (e - a) + 1 : y[i] = s[(a + i) - 1]
  <2>1. \A i \in a .. e : s[i] \in Nat
    BY <1>2
  <2> QED
    BY <1>1, <1>3, <2>1, PartOf
<1>6. CASE e <= k
  <2>1. ASSUME NEW i \in 1 .. Len(x) PROVE x[i] = y[i]
    <3>1. a <= e /\ i \in 1 .. (e - a) + 1
      BY <1>1, <1>4
    <3>2. PICK j \in 1 .. n : j = (a + i) - 1 /\ j <= k
      BY <1>1, <1>6, <3>1
    <3>3. t[j] = s[j]
      BY <1>1, <3>2, CutIs
    <3> QED
      BY <1>4, <1>5, <3>1, <3>2, <3>3
  <2>2. Len(x) = Len(y)
    BY <1>4, <1>5
  <2>3. x = y
    BY <1>4, <1>5, <2>1, <2>2, SeqEqual
  <2> QED
    BY <1>1, <1>3, <1>6, <2>3
<1>7. CASE k < e
  <2>1. CASE a <= e
    <3>1. PICK l \in 1 .. (e - a) + 1 : l = (e - a) + 1 /\ (a + l) - 1 = e
      BY <1>1, <2>1
    <3>2. Len(x) = l /\ x[l] = t[e]
      BY <1>4, <2>1, <3>1
    <3>3. t[e] = 0
      BY <1>1, <1>7, <2>1, CutIs
    <3>4. Len(x) \in Nat /\ Len(x) > 0 /\ x[Len(x)] = 0
      BY <3>1, <3>2, <3>3
    <3> QED
      BY <1>3, <3>4 DEF Broken
  <2>2. CASE ~ (a <= e)
    <3>1. x = <<>>
      BY <1>4, <2>2
    <3>2. Broken(x)
      BY <3>1 DEF Broken
    <3> QED
      BY <1>3, <3>2
  <2> QED
    BY <2>1, <2>2
<1> QED
  BY <1>1, <1>6, <1>7

\* Of the fields fs, the ones gs are left: in their order, each as it was or broken.
Follows(gs, fs) ==
    /\ gs \in Seq(FieldSet) /\ fs \in Seq(FieldSet) /\ Len(gs) <= Len(fs)
    /\ \A i \in 1 .. Len(gs) :
            /\ gs[i].tag = fs[i].tag
            /\ gs[i].bytes = fs[i].bytes \/ Broken(gs[i].bytes)

\* And the last one is not left, or broken.
Shortened(gs, fs) ==
    /\ Follows(gs, fs)
    /\ Len(gs) = Len(fs) => Len(gs) > 0 /\ Broken(gs[Len(gs)].bytes)

LEMMA Before ==
    ASSUME NEW x \in FieldSet, NEW q \in Seq(FieldSet), NEW s, s = <<x>> \o q
    PROVE  /\ s \in Seq(FieldSet) /\ Len(s) = Len(q) + 1 /\ s[1] = x
           /\ \A i \in 1 .. Len(s) : i > 1 => s[i] = q[i - 1]
<1>1. PICK p \in Seq(FieldSet) : p = <<x>> /\ Len(p) = 1 /\ p[1] = x
  <2>1. <<x>> \in Seq(FieldSet)
    OBVIOUS
  <2>2. Len(<<x>>) = 1 /\ <<x>>[1] = x
    OBVIOUS
  <2> QED
    BY <2>1, <2>2
<1>2. s = p \o q
  BY <1>1
<1> QED
  BY <1>1, <1>2

LEMMA FollowsBefore ==
    ASSUME NEW x \in FieldSet, NEW y \in FieldSet, x.tag = y.tag,
           x.bytes = y.bytes \/ Broken(x.bytes), NEW gs, NEW fs, Follows(gs, fs)
    PROVE  Follows(<<x>> \o gs, <<y>> \o fs)
<1>1. PICK g, f : g = <<x>> \o gs /\ f = <<y>> \o fs
  OBVIOUS
<1>2. PICK m, n \in Nat : m = Len(gs) /\ n = Len(fs) /\ m <= n
  BY DEF Follows
<1>3. /\ g \in Seq(FieldSet) /\ Len(g) = m + 1 /\ g[1] = x
      /\ \A i \in 1 .. m + 1 : i > 1 => g[i] = gs[i - 1]
  BY <1>1, <1>2, Before DEF Follows
<1>4. /\ f \in Seq(FieldSet) /\ Len(f) = n + 1 /\ f[1] = y
      /\ \A i \in 1 .. n + 1 : i > 1 => f[i] = fs[i - 1]
  BY <1>1, <1>2, Before DEF Follows
<1>5. ASSUME NEW i \in 1 .. m + 1
      PROVE  g[i].tag = f[i].tag /\ (g[i].bytes = f[i].bytes \/ Broken(g[i].bytes))
  <2>1. CASE i = 1
    BY <1>3, <1>4, <2>1
  <2>2. CASE i > 1
    <3>1. i \in 1 .. n + 1 /\ i - 1 \in 1 .. m
      BY <1>2, <2>2
    <3>2. g[i] = gs[i - 1] /\ f[i] = fs[i - 1]
      BY <1>3, <1>4, <2>2, <3>1
    <3> QED
      BY <1>2, <3>1, <3>2 DEF Follows
  <2> QED
    BY <2>1, <2>2
<1> QED
  BY <1>1, <1>2, <1>3, <1>4, <1>5 DEF Follows

LEMMA ShortenedBefore ==
    ASSUME NEW x \in FieldSet, NEW y \in FieldSet, x.tag = y.tag,
           x.bytes = y.bytes \/ Broken(x.bytes), NEW gs, NEW fs, Follows(gs, fs),
           Shortened(gs, fs) \/ (gs = <<>> /\ Broken(x.bytes))
    PROVE  Shortened(<<x>> \o gs, <<y>> \o fs)
<1>1. PICK g, f : g = <<x>> \o gs /\ f = <<y>> \o fs
  OBVIOUS
<1>2. PICK m, n \in Nat : m = Len(gs) /\ n = Len(fs) /\ m <= n
  BY DEF Follows
<1>3. /\ g \in Seq(FieldSet) /\ Len(g) = m + 1 /\ g[1] = x
      /\ \A i \in 1 .. m + 1 : i > 1 => g[i] = gs[i - 1]
  BY <1>1, <1>2, Before DEF Follows
<1>4. Len(f) = n + 1
  BY <1>1, <1>2, Before DEF Follows
<1>5. Follows(g, f)
  BY <1>1, FollowsBefore
<1>6. ASSUME m + 1 = n + 1 PROVE Broken(g[m + 1].bytes)
  <2>1. CASE Shortened(gs, fs)
    <3>1. m > 0 /\ Broken(gs[m].bytes)
      BY <1>2, <1>6, <2>1 DEF Shortened
    <3>2. g[m + 1] = gs[m]
      <4>1. m + 1 \in 1 .. m + 1 /\ m + 1 > 1 /\ (m + 1) - 1 = m
        BY <3>1
      <4> QED
        BY <1>3, <4>1
    <3> QED
      BY <3>1, <3>2
  <2>2. CASE gs = <<>> /\ Broken(x.bytes)
    <3>1. m + 1 = 1
      BY <1>2, <2>2
    <3> QED
      BY <1>3, <2>2, <3>1
  <2> QED
    BY <2>1, <2>2
<1>7. Len(g) = Len(f) => Len(g) > 0 /\ Broken(g[Len(g)].bytes)
  <2>1. SUFFICES ASSUME Len(g) = Len(f) PROVE Len(g) > 0 /\ Broken(g[Len(g)].bytes)
    OBVIOUS
  <2>2. Len(g) = m + 1 /\ m + 1 = n + 1 /\ m + 1 > 0
    BY <1>2, <1>3, <1>4, <2>1
  <2> QED
    BY <1>6, <2>2
<1> QED
  BY <1>1, <1>5, <1>7 DEF Shortened

LEMMA FollowsNothing == ASSUME NEW fs \in Seq(FieldSet) PROVE Follows(<<>>, fs)
<1>1. <<>> \in Seq(FieldSet) /\ Len(<<>>) = 0 /\ Len(fs) \in Nat
  OBVIOUS
<1> QED
  BY <1>1 DEF Follows

LEMMA SubSeqIsNumbers ==
    ASSUME NEW s \in Seq(Nat), NEW a \in Nat \ {0}, NEW e \in 0 .. Len(s)
    PROVE  SubSeq(s, a, e) \in Seq(Nat)
<1>1. a \in Int /\ e \in Int /\ \A i \in a .. e : s[i] \in Nat
  OBVIOUS
<1> QED
  BY <1>1, PartOf

\* What is left of the fields from the byte i on.
LeftFrom(from, to, n, i) ==
    from[i].end = "limit" =>
        /\ Follows(to[i].fields, from[i].fields)
        /\ i <= n => Shortened(to[i].fields, from[i].fields)

\* The step of the next lemma: a byte i with what is left behind it.
LEMMA CutStep ==
    ASSUME NEW s \in Seq(Nat), NEW k \in Nat, k < Len(s), NEW t, t = CutAt(s, k),
           NEW from, IsFields(from, s), NEW to, IsFields(to, t),
           NEW i \in 1 .. Len(s) + 1,
           \A j \in 1 .. Len(s) + 1 : j > i => LeftFrom(from, to, Len(s), j)
    PROVE  LeftFrom(from, to, Len(s), i)
<1>1. PICK n \in Nat : n = Len(s) /\ n = Len(t) /\ t \in Seq(Nat)
  BY CutIs
<1>2. from[i] = FieldsAt(from, s, i) /\ to[i] = FieldsAt(to, t, i)
  BY <1>1 DEF IsFields
<1>3. \A j \in 1 .. n + 1 : from[j] \in FieldsType /\ to[j] \in FieldsType
  BY <1>1, FieldsTyped
<1>4. SUFFICES ASSUME from[i].end = "limit"
               PROVE  /\ Follows(to[i].fields, from[i].fields)
                      /\ i <= n => Shortened(to[i].fields, from[i].fields)
  BY <1>1 DEF LeftFrom
<1>5. CASE i = n + 1
  <2>1. to[i].fields = <<>> /\ from[i].fields = <<>>
    <3>1. i = Len(s) + 1 /\ i = Len(t) + 1
      BY <1>1, <1>5
    <3>2. FieldsAt(from, s, i) = [fields |-> <<>>, end |-> "limit"]
      BY <3>1 DEF FieldsAt
    <3>3. FieldsAt(to, t, i) = [fields |-> <<>>, end |-> "limit"]
      BY <3>1 DEF FieldsAt
    <3> QED
      BY <1>2, <3>2, <3>3
  <2>2. Follows(<<>>, <<>>)
    <3>1. <<>> \in Seq(FieldSet)
      OBVIOUS
    <3> QED
      BY <3>1, FollowsNothing
  <2>3. ~ (i <= n)
    BY <1>5
  <2> QED
    BY <2>1, <2>2, <2>3
<1>6. CASE i # n + 1
  <2>1. i \in 1 .. n /\ i \in Nat
    <3>1. i \in 1 .. n + 1
      BY <1>1
    <3> QED
      BY <1>6, <3>1
  <2>2. s[i] # 0 /\ Readable(s, i)
    <3>1. i # Len(s) + 1
      BY <1>1, <1>6
    <3>2. ASSUME s[i] = 0 PROVE FALSE
      <4>1. from[i] = [fields |-> <<>>, end |-> "zero"]
        BY <1>2, <3>1, <3>2 DEF FieldsAt
      <4> QED
        BY <1>4, <4>1
    <3>3. ASSUME s[i] # 0, ~ Readable(s, i) PROVE FALSE
      <4>1. from[i] = [fields |-> <<>>, end |-> "bad"]
        BY <1>2, <3>1, <3>3 DEF FieldsAt
      <4> QED
        BY <1>4, <4>1
    <3> QED
      BY <3>2, <3>3
  <2>3. PICK a \in Nat, e \in i .. n :
          a = Payload(s, i)[1] /\ e = Payload(s, i)[2] /\ a > i
    BY <1>1, <2>1, <2>2, PayloadEnds
  <2>4. e \in Nat /\ e + 1 \in 1 .. n + 1 /\ e + 1 > i /\ a \in Nat \ {0} /\ e \in 0 .. n
    <3>1. e \in i .. n /\ a \in Nat /\ a > i
      BY <2>3
    <3> QED
      BY <2>1, <3>1
  <2>5. PICK y, fs :
          /\ y = [tag |-> s[i], bytes |-> SubSeq(s, a, e)]
          /\ fs = from[e + 1].fields
          /\ from[i].fields = <<y>> \o fs /\ from[e + 1].end = "limit"
    <3>1. PICK y, r : y = [tag |-> s[i], bytes |-> SubSeq(s, a, e)] /\ r = from[e + 1]
      OBVIOUS
    <3>2. from[i] = [r EXCEPT !.fields = <<y>> \o @]
      BY <1>1, <1>2, <1>6, <2>2, <2>3, <3>1 DEF FieldsAt
    <3>3. r \in FieldsType
      BY <1>3, <2>4, <3>1
    <3>4. from[i].fields = <<y>> \o r.fields /\ from[i].end = r.end
      BY <3>2, <3>3 DEF FieldsType
    <3> QED
      BY <1>4, <3>1, <3>4
  <2>6. y \in FieldSet /\ fs \in Seq(FieldSet)
    <3>1. SubSeq(s, a, e) \in Seq(Nat)
      BY <1>1, <2>4, SubSeqIsNumbers
    <3>2. s[i] \in Nat
      <4>1. i \in 1 .. Len(s)
        BY <1>1, <2>1
      <4> QED
        BY <4>1
    <3>3. from[e + 1] \in FieldsType
      BY <1>3, <2>4
    <3> QED
      BY <2>5, <3>1, <3>2, <3>3 DEF FieldSet, FieldsType
  <2>7. /\ Follows(to[e + 1].fields, fs)
        /\ e + 1 <= n => Shortened(to[e + 1].fields, fs)
    BY <1>1, <2>4, <2>5 DEF LeftFrom
  <2>8. CASE k < i
    <3>1. t[i] = 0
      BY <1>1, <2>1, <2>8, CutIs
    <3>2. to[i].fields = <<>>
      BY <1>1, <1>2, <1>6, <3>1 DEF FieldsAt
    <3>3. PICK f : f = <<y>> \o fs /\ f \in Seq(FieldSet) /\ Len(f) = Len(fs) + 1
      BY <2>6, Before
    <3>4. Follows(<<>>, f)
      BY <3>3, FollowsNothing
    <3>5. Len(<<>>) # Len(f)
      BY <2>6, <3>3
    <3> QED
      BY <2>5, <3>2, <3>3, <3>4, <3>5 DEF Shortened
  <2>9. CASE ~ (k < i)
    <3>1. i <= k /\ t[i] = s[i]
      BY <1>1, <2>1, <2>9, CutIs
    <3>2. CASE Payload(t, i) = Payload(s, i)
      <4>1. Readable(t, i)
        BY <1>1, <2>2, <3>1, <3>2 DEF Readable
      <4>2. PICK x : x = [tag |-> t[i], bytes |-> SubSeq(t, a, e)]
        OBVIOUS
      <4>3. to[i].fields = <<x>> \o to[e + 1].fields
        <5>1. PICK r : r = to[e + 1]
          OBVIOUS
        <5>2. to[i] = [r EXCEPT !.fields = <<x>> \o @]
          BY <1>1, <1>2, <1>6, <2>2, <2>3, <3>1, <3>2, <4>1, <4>2, <5>1 DEF FieldsAt
        <5>3. r \in FieldsType
          BY <1>3, <2>4, <5>1
        <5> QED
          BY <5>1, <5>2, <5>3 DEF FieldsType
      <4>4. x \in FieldSet
        <5>1. SubSeq(t, a, e) \in Seq(Nat)
          BY <1>1, <2>4, SubSeqIsNumbers
        <5>2. t[i] \in Nat
          BY <1>1, <2>1
        <5> QED
          BY <4>2, <5>1, <5>2 DEF FieldSet
      <4>5. x.tag = y.tag /\ (x.bytes = y.bytes \/ Broken(x.bytes)) /\ (k < e => Broken(x.bytes))
        <5>1. /\ SubSeq(t, a, e) = SubSeq(s, a, e) \/ Broken(SubSeq(t, a, e))
              /\ k < e => Broken(SubSeq(t, a, e))
          BY <1>1, <2>4, CutPart
        <5> QED
          BY <2>5, <3>1, <4>2, <5>1
      <4>6. Follows(to[i].fields, from[i].fields)
        BY <2>5, <2>6, <2>7, <4>3, <4>4, <4>5, FollowsBefore
      <4>7. Shortened(to[e + 1].fields, fs) \/ (to[e + 1].fields = <<>> /\ Broken(x.bytes))
        <5>1. CASE e + 1 <= n
          BY <2>7, <5>1
        <5>2. CASE ~ (e + 1 <= n)
          <6>1. e = n /\ k < e
            BY <1>1, <2>4, <5>2
          <6>2. to[n + 1] = FieldsAt(to, t, n + 1)
            BY <1>1 DEF IsFields
          <6>3. to[n + 1].fields = <<>>
            BY <1>1, <6>2 DEF FieldsAt
          <6> QED
            BY <4>5, <6>1, <6>3
        <5> QED
          BY <5>1, <5>2
      <4>8. Shortened(to[i].fields, from[i].fields)
        BY <2>5, <2>6, <2>7, <4>3, <4>4, <4>5, <4>7, ShortenedBefore
      <4> QED
        BY <4>6, <4>8
    <3>3. CASE i = k /\ i < n /\ Payload(t, i) = <<i + 2, i + 1>>
      <4>1. Payload(t, i)[1] = i + 2 /\ Payload(t, i)[2] = i + 1 /\ i + 1 <= n
        BY <2>1, <3>3
      <4>2. Readable(t, i)
        BY <1>1, <2>2, <3>1, <4>1 DEF Readable
      <4>3. PICK x, l : /\ l = i + 2 /\ l \in 1 .. n + 1
                        /\ x = [tag |-> t[i], bytes |-> SubSeq(t, i + 2, i + 1)]
        <5>1. i + 2 \in 1 .. n + 1
          BY <2>1, <3>3
        <5> QED
          BY <5>1
      <4>4. to[l].fields = <<>> /\ to[l] \in FieldsType
        <5>1. to[l] = FieldsAt(to, t, l)
          BY <1>1, <4>3 DEF IsFields
        <5>2. CASE l = n + 1
          <6>1. l = Len(t) + 1
            BY <1>1, <5>2
          <6>2. FieldsAt(to, t, l) = [fields |-> <<>>, end |-> "limit"]
            BY <6>1 DEF FieldsAt
          <6> QED
            BY <1>3, <4>3, <5>1, <6>2
        <5>3. CASE l # n + 1
          <6>1. l \in 1 .. n /\ l > k
            BY <2>1, <3>3, <4>3, <5>3
          <6>2. t[l] = 0
            BY <1>1, <6>1, CutIs
          <6>3. l # Len(t) + 1
            BY <1>1, <5>3
          <6>4. FieldsAt(to, t, l) = [fields |-> <<>>, end |-> "zero"]
            BY <6>2, <6>3 DEF FieldsAt
          <6> QED
            BY <1>3, <4>3, <5>1, <6>4
        <5> QED
          BY <5>2, <5>3
      <4>5. to[i].fields = <<x>> \o <<>>
        <5>1. PICK r : r = to[l] /\ l = (i + 1) + 1
          BY <2>1, <4>3
        <5>2. to[i] = [r EXCEPT !.fields = <<x>> \o @]
          <6>1. i # Len(t) + 1 /\ t[i] # 0
            BY <1>1, <1>6, <2>2, <3>1
          <6>2. FieldsAt(to, t, i) =
                  [to[Payload(t, i)[2] + 1] EXCEPT
                    !.fields = <<[tag |-> t[i], bytes |->
                                  SubSeq(t, Payload(t, i)[1], Payload(t, i)[2])]>> \o @]
            BY <4>2, <6>1 DEF FieldsAt
          <6> QED
            BY <1>2, <4>1, <4>3, <5>1, <6>2
        <5> QED
          BY <4>4, <5>1, <5>2 DEF FieldsType
      <4>6. SubSeq(t, i + 2, i + 1) = <<>>
        BY <2>1, SubSeqEmpty
      <4>7. x \in FieldSet /\ x.tag = y.tag /\ Broken(x.bytes)
        <5>1. t[i] \in Nat /\ <<>> \in Seq(Nat)
          BY <1>1, <2>1
        <5> QED
          BY <2>5, <3>1, <4>3, <4>6, <5>1 DEF FieldSet, Broken
      <4>8. Follows(<<>>, fs)
        BY <2>6, FollowsNothing
      <4>9. Follows(to[i].fields, from[i].fields)
        BY <2>5, <2>6, <4>5, <4>7, <4>8, FollowsBefore
      <4>10. Shortened(to[i].fields, from[i].fields)
        BY <2>5, <2>6, <4>5, <4>7, <4>8, ShortenedBefore
      <4> QED
        BY <4>9, <4>10
    <3> QED
      <4>1. i \in 1 .. Len(s)
        BY <1>1, <2>1
      <4>2. \/ Payload(t, i) = Payload(s, i)
            \/ i = k /\ i < Len(s) /\ Payload(t, i) = <<i + 2, i + 1>>
        BY <2>2, <3>1, <4>1, CutPayload
      <4> QED
        BY <1>1, <3>2, <3>3, <4>2
  <2> QED
    BY <2>8, <2>9
<1> QED
  BY <1>5, <1>6

\* Fields of what was cut are the fields of the whole, up to the cut.
LEMMA CutFields ==
    ASSUME NEW s \in Seq(Nat), NEW k \in Nat, k < Len(s), Fields(s).end = "limit"
    PROVE  Shortened(Fields(CutAt(s, k)).fields, Fields(s).fields)
<1>1. PICK n \in Nat : n = Len(s) /\ n > 0
  OBVIOUS
<1>2. PICK t : t = CutAt(s, k) /\ t \in Seq(Nat)
  BY CutIs
<1>3. PICK from : IsFields(from, s) /\ Fields(s) = from[1]
  BY FieldsFound
<1>4. PICK to : IsFields(to, t) /\ Fields(t) = to[1]
  BY <1>2, FieldsFound
<1>5. PICK T : T = {d \in Nat : \A i \in 1 .. n + 1 : i + d > n + 1 => LeftFrom(from, to, n, i)}
  OBVIOUS
<1>6. 0 \in T
  BY <1>5
<1>7. ASSUME NEW d \in Nat, d \in T PROVE d + 1 \in T
  <2>1. SUFFICES ASSUME NEW i \in 1 .. n + 1, i + (d + 1) > n + 1
                 PROVE  LeftFrom(from, to, n, i)
    BY <1>5
  <2>2. \A j \in 1 .. n + 1 : j > i => LeftFrom(from, to, n, j)
    <3>1. \A j \in 1 .. n + 1 : j > i => j + d > n + 1
      BY <2>1
    <3> QED
      BY <1>5, <1>7, <3>1
  <2> QED
    BY <1>1, <1>2, <1>3, <1>4, <2>2, CutStep
<1>8. Nat \subseteq T
  BY <1>6, <1>7, SetInduction
<1>9. LeftFrom(from, to, n, 1)
  <2>1. n + 1 \in T /\ 1 \in 1 .. n + 1 /\ 1 + (n + 1) > n + 1
    BY <1>8
  <2> QED
    BY <1>5, <2>1
<1> QED
  BY <1>1, <1>2, <1>3, <1>4, <1>9 DEF LeftFrom

-----------------------------------------------------------------------------
(* What reading gives of fields of any contents.                           *)

IsRead(r) == \E m : \E ok \in BOOLEAN : r = [message |-> m, ok |-> ok]

LEMMA ReadIs == ASSUME NEW m PROVE IsRead(Read(m))
BY DEF IsRead, Read

LEMMA MessageChanges ==
    ASSUME NEW r, IsRead(r), NEW y PROVE [r EXCEPT !.message = y] = [message |-> y, ok |-> r.ok]
<1>1. PICK m : \E ok \in BOOLEAN : r = [message |-> m, ok |-> ok]
  BY DEF IsRead
<1>2. PICK ok \in BOOLEAN : r = [message |-> m, ok |-> ok]
  BY <1>1
<1> QED
  BY <1>2

\* What class k makes of a field is a message and whether it could be read.
KeepsShape(k) == \A r : \A x \in FieldSet : IsRead(r) => IsRead(FoldStep(k, r, x))

LEMMA ShapeKept ==
    ASSUME NEW k, KeepsShape(k), NEW q \in Seq(FieldSet), NEW base, IsRead(base),
           NEW r, Folds(k, base, q, r)
    PROVE  IsRead(r)
<1>1. PICK n \in Nat : n = Len(q)
  OBVIOUS
<1>2. PICK g : /\ g[0] = base
               /\ \A i \in 1 .. n : g[i] = FoldStep(k, g[i - 1], q[i])
               /\ r = g[n]
  BY <1>1 DEF Folds
<1>3. PICK T : T = {i \in Nat : i <= n => IsRead(g[i])}
  OBVIOUS
<1>4. 0 \in T
  BY <1>2, <1>3
<1>5. ASSUME NEW i \in Nat, i \in T PROVE i + 1 \in T
  <2>1. SUFFICES ASSUME i + 1 <= n PROVE IsRead(g[i + 1])
    BY <1>3
  <2>2. i + 1 \in 1 .. n /\ (i + 1) - 1 = i /\ IsRead(g[i])
    BY <1>3, <1>5, <2>1
  <2>3. g[i + 1] = FoldStep(k, g[(i + 1) - 1], q[i + 1])
    BY <1>2, <2>2
  <2>4. q[i + 1] \in FieldSet
    BY <1>1, <2>2
  <2> QED
    BY <2>2, <2>3, <2>4 DEF KeepsShape
<1>6. Nat \subseteq T
  BY <1>4, <1>5, SetInduction
<1> QED
  BY <1>2, <1>3, <1>6

LEMMA ReadingOf ==
    ASSUME NEW k, NEW r, NEW s \in Seq(Nat), NEW x, x = LeftFold(k, r, Fields(s).fields), IsRead(x)
    PROVE  IsRead(Reading(k, r, s)) /\ Reading(k, r, s).message = x.message
<1>1. PICK end : end = Fields(s).end
  OBVIOUS
<1>2. PICK m : \E ok \in BOOLEAN : x = [message |-> m, ok |-> ok]
  BY DEF IsRead
<1>3. PICK ok \in BOOLEAN : x = [message |-> m, ok |-> ok]
  BY <1>2
<1>4. Reading(k, r, s) = [x EXCEPT !.ok = @ /\ end = "limit"]
  BY <1>1 DEF Reading
<1>5. PICK b \in BOOLEAN : b = (ok /\ end = "limit")
  OBVIOUS
<1>6. Reading(k, r, s) = [message |-> m, ok |-> b]
  BY <1>3, <1>4, <1>5
<1>7. IsRead(Reading(k, r, s))
  BY <1>5, <1>6 DEF IsRead
<1>8. Reading(k, r, s).message = m /\ x.message = m
  BY <1>3, <1>6
<1> QED
  BY <1>7, <1>8

LEMMA FieldsFold ==
    ASSUME NEW k, NEW r, NEW s \in Seq(Nat), NEW gs, gs = Fields(s).fields
    PROVE  gs \in Seq(FieldSet) /\ Folds(k, r, gs, LeftFold(k, r, gs))
<1>1. gs \in Seq(FieldSet)
  BY FieldsHaveType DEF FieldsType
<1>2. PICK n \in Nat : n = Len(gs) /\ DOMAIN gs = 1 .. n
  BY <1>1
<1> QED
  BY <1>1, <1>2, LeftFolds

LEMMA ReadingShape ==
    ASSUME NEW k, KeepsShape(k), NEW r, IsRead(r), NEW s \in Seq(Nat)
    PROVE  IsRead(Reading(k, r, s))
<1>1. PICK gs, x : gs = Fields(s).fields /\ x = LeftFold(k, r, gs)
  OBVIOUS
<1>2. gs \in Seq(FieldSet) /\ Folds(k, r, gs, x)
  BY <1>1, FieldsFold
<1>3. IsRead(x)
  BY <1>2, ShapeKept
<1> QED
  BY <1>1, <1>3, ReadingOf

LEMMA ReadAgain == ASSUME NEW r, IsRead(r), r.ok PROVE r = Read(r.message)
<1>1. PICK m : \E ok \in BOOLEAN : r = [message |-> m, ok |-> ok]
  BY DEF IsRead
<1>2. PICK ok \in BOOLEAN : r = [message |-> m, ok |-> ok]
  BY <1>1
<1>3. ok = TRUE
  BY <1>2
<1> QED
  BY <1>2, <1>3 DEF Read

LEMMA ValueShape == KeepsShape("Value")
<1> SUFFICES ASSUME NEW r, NEW x \in FieldSet, IsRead(r)
             PROVE  IsRead(FoldStep("Value", r, x))
  BY DEF KeepsShape
<1>1. FoldStep("Value", r, x) = IF r.ok THEN ValueField(r.message, x) ELSE r
  BY DEF FoldStep
<1>2. IsRead(ValueField(r.message, x))
  BY ReadIs DEF ValueField
<1> QED
  BY <1>1, <1>2

LEMMA ArgumentShape == KeepsShape("Argument")
<1> SUFFICES ASSUME NEW r, NEW x \in FieldSet, IsRead(r)
             PROVE  IsRead(FoldStep("Argument", r, x))
  BY DEF KeepsShape
<1>1. FoldStep("Argument", r, x) = IF r.ok THEN ArgumentField(r.message, x) ELSE r
  BY DEF FoldStep
<1>2. PICK a : a = r.message
  OBVIOUS
<1>3. PICK v : v = ReadValue(a.value, x.bytes)
  OBVIOUS
<1>4. IsRead(v)
  <2>1. v = Reading("Value", Read(a.value), x.bytes) /\ x.bytes \in Seq(Nat)
    BY <1>3, ReadersAre DEF FieldSet
  <2> QED
    BY <2>1, ReadIs, ValueShape, ReadingShape
<1>5. IsRead([v EXCEPT !.message = set_value(a, @)])
  <2>1. PICK m, y : m = v.message /\ y = set_value(a, m)
    OBVIOUS
  <2>2. [v EXCEPT !.message = set_value(a, @)] = [v EXCEPT !.message = y]
    BY <2>1
  <2>3. [v EXCEPT !.message = y] = [message |-> y, ok |-> v.ok]
    BY <1>4, MessageChanges
  <2>4. v.ok \in BOOLEAN
    BY <1>4 DEF IsRead
  <2> QED
    BY <2>2, <2>3, <2>4 DEF IsRead
<1>6. IsRead(ArgumentField(a, x))
  <2>1. CASE x.tag = Tag(1, Varint)
    <3>1. ArgumentField(a, x) = Read([a EXCEPT !.type = x.bytes[1]])
      BY <2>1, TagsDiffer DEF ArgumentField
    <3> QED
      BY <3>1, ReadIs
  <2>2. CASE x.tag = Tag(3, Delimited)
    <3>1. x.tag # Tag(1, Varint) /\ x.tag # Tag(4, Delimited)
      BY <2>2, TagsDiffer
    <3>2. ArgumentField(a, x) = [v EXCEPT !.message = set_value(a, @)]
      BY <1>3, <2>2, <3>1 DEF ArgumentField
    <3> QED
      BY <1>5, <3>2
  <2>3. CASE x.tag # Tag(1, Varint) /\ x.tag # Tag(3, Delimited)
    <3>1. ArgumentField(a, x) = Read(IF x.tag = Tag(4, Delimited)
                                     THEN [a EXCEPT !.key = x.bytes] ELSE a)
      BY <2>3 DEF ArgumentField
    <3> QED
      BY <3>1, ReadIs
  <2> QED
    BY <2>1, <2>2, <2>3
<1> QED
  BY <1>1, <1>2, <1>6

\* The argument that is added is there, whether it could be read or not.
LEMMA AddedIs ==
    ASSUME NEW n, NEW o, NEW a, NEW s, NEW e, NEW p, NEW t, NEW x \in FieldSet
    PROVE  \E b : \E ok \in BOOLEAN :
              AddArgument(MethodCallOf(n, o, a, s, e, p, t), x)
                = [message |-> MethodCallOf(n, o, b, s, e, p, t), ok |-> ok]
<1>1. PICK v : v = ReadArgument(EmptyArgument, x.bytes)
  OBVIOUS
<1>2. IsRead(v)
  <2>1. v = Reading("Argument", Read(EmptyArgument), x.bytes) /\ x.bytes \in Seq(Nat)
    BY <1>1, ReadersAre DEF FieldSet
  <2> QED
    BY <2>1, ReadIs, ArgumentShape, ReadingShape
<1>3. PICK m : m = MethodCallOf(n, o, a, s, e, p, t)
  OBVIOUS
<1>4. PICK b, y : b = Append(m.arg, v.message) /\ y = [m EXCEPT !.arg = b]
  OBVIOUS
<1>5. AddArgument(m, x) = [v EXCEPT !.message = y]
  BY <1>1, <1>4 DEF AddArgument
<1>6. y = MethodCallOf(n, o, b, s, e, p, t)
  BY <1>3, <1>4 DEF MethodCallOf
<1>7. AddArgument(m, x) = [message |-> y, ok |-> v.ok] /\ v.ok \in BOOLEAN
  BY <1>2, <1>5, MessageChanges DEF IsRead
<1> QED
  BY <1>3, <1>6, <1>7

-----------------------------------------------------------------------------
(* What the loop of MethodCallRequest makes of fields of any contents.     *)

\* Nothing, or what one of the first i fields has.
OneOf(x, tag, gs, i) == x = <<>> \/ \E j \in 1 .. i : gs[j].tag = tag /\ x = gs[j].bytes

\* A method call that has been read of the first i fields.
ReadOf(r, gs, i) ==
    \E n, o, a, s, e, p, t : \E ok \in BOOLEAN :
        /\ r = [message |-> MethodCallOf(n, o, a, s, e, p, t), ok |-> ok]
        /\ OneOf(n, 10, gs, i) /\ OneOf(o, 18, gs, i) /\ OneOf(t, 66, gs, i)
        /\ a = <<>> \/ \E j \in 1 .. i : gs[j].tag = 26

LEMMA OneOfMore ==
    ASSUME NEW x, NEW tag, NEW gs, NEW i \in Nat
    PROVE  /\ OneOf(x, tag, gs, i) => OneOf(x, tag, gs, i + 1)
           /\ gs[i + 1].tag = tag => OneOf(gs[i + 1].bytes, tag, gs, i + 1)
<1>1. 1 .. i \subseteq 1 .. i + 1 /\ i + 1 \in 1 .. i + 1
  OBVIOUS
<1> QED
  BY <1>1 DEF OneOf

LEMMA ReadStep ==
    ASSUME NEW gs, NEW i \in Nat, gs[i + 1] \in FieldSet, NEW r, ReadOf(r, gs, i)
    PROVE  ReadOf(FoldStep("MethodCallRequest", r, gs[i + 1]), gs, i + 1)
<1>1. PICK n, o, a, s, e, p, t : \E ok \in BOOLEAN :
        /\ r = [message |-> MethodCallOf(n, o, a, s, e, p, t), ok |-> ok]
        /\ OneOf(n, 10, gs, i) /\ OneOf(o, 18, gs, i) /\ OneOf(t, 66, gs, i)
        /\ a = <<>> \/ \E j \in 1 .. i : gs[j].tag = 26
  BY DEF ReadOf
<1>2. PICK ok \in BOOLEAN : r = [message |-> MethodCallOf(n, o, a, s, e, p, t), ok |-> ok]
  BY <1>1
<1>3. PICK x : x = gs[i + 1] /\ x \in FieldSet
  OBVIOUS
<1>4. 1 .. i \subseteq 1 .. i + 1 /\ i + 1 \in 1 .. i + 1
  OBVIOUS
<1>5. /\ OneOf(n, 10, gs, i + 1) /\ OneOf(o, 18, gs, i + 1) /\ OneOf(t, 66, gs, i + 1)
      /\ a = <<>> \/ \E j \in 1 .. i + 1 : gs[j].tag = 26
  BY <1>1, <1>4, OneOfMore
<1>6. PICK m : m = MethodCallOf(n, o, a, s, e, p, t)
  OBVIOUS
<1>7. r.ok = ok /\ r.message = m
  BY <1>2, <1>6
<1>8. PICK y : y = FoldStep("MethodCallRequest", r, x)
  OBVIOUS
<1>9. y = IF ok THEN MethodCallRequestField(m, x) ELSE r
  BY <1>7, <1>8 DEF FoldStep
<1>10. CASE ~ ok
  <2>1. y = r
    BY <1>9, <1>10
  <2> QED
    BY <1>2, <1>3, <1>5, <1>8, <2>1 DEF ReadOf
<1>11. CASE ok
  <2>1. y = MethodCallRequestField(m, x) /\ TRUE \in BOOLEAN
    BY <1>9, <1>11
  <2>2. CASE x.tag = 10
    <3>1. MethodCallRequestField(m, x) = Read([m EXCEPT !.methodname = x.bytes])
      BY <2>2, TagsDiffer DEF MethodCallRequestField
    <3>2. [m EXCEPT !.methodname = x.bytes] = MethodCallOf(x.bytes, o, a, s, e, p, t)
      BY <1>6 DEF MethodCallOf
    <3>3. y = [message |-> MethodCallOf(x.bytes, o, a, s, e, p, t), ok |-> TRUE]
      BY <2>1, <3>1, <3>2 DEF Read
    <3>4. OneOf(x.bytes, 10, gs, i + 1)
      BY <1>3, <2>2, OneOfMore
    <3> QED
      BY <1>3, <1>5, <1>8, <2>1, <3>3, <3>4 DEF ReadOf
  <2>3. CASE x.tag = 18
    <3>1. MethodCallRequestField(m, x) = Read([m EXCEPT !.object_id = x.bytes])
      BY <2>3, TagsDiffer DEF MethodCallRequestField
    <3>2. [m EXCEPT !.object_id = x.bytes] = MethodCallOf(n, x.bytes, a, s, e, p, t)
      BY <1>6 DEF MethodCallOf
    <3>3. y = [message |-> MethodCallOf(n, x.bytes, a, s, e, p, t), ok |-> TRUE]
      BY <2>1, <3>1, <3>2 DEF Read
    <3>4. OneOf(x.bytes, 18, gs, i + 1)
      BY <1>3, <2>3, OneOfMore
    <3> QED
      BY <1>3, <1>5, <1>8, <2>1, <3>3, <3>4 DEF ReadOf
  <2>4. CASE x.tag = 26
    <3>1. MethodCallRequestField(m, x) = AddArgument(m, x)
      BY <2>4, TagsDiffer DEF MethodCallRequestField
    <3>2. PICK b : \E z \in BOOLEAN :
             AddArgument(m, x) = [message |-> MethodCallOf(n, o, b, s, e, p, t), ok |-> z]
      BY <1>3, <1>6, AddedIs
    <3>3. PICK z \in BOOLEAN : y = [message |-> MethodCallOf(n, o, b, s, e, p, t), ok |-> z]
      BY <2>1, <3>1, <3>2
    <3>4. \E j \in 1 .. i + 1 : gs[j].tag = 26
      BY <1>3, <1>4, <2>4
    <3> QED
      BY <1>3, <1>5, <1>8, <3>3, <3>4 DEF ReadOf
  <2>5. CASE x.tag = 32
    <3>1. PICK c : c = (x.bytes[1] # 0)
      OBVIOUS
    <3>2. MethodCallRequestField(m, x) = Read([m EXCEPT !.static = c])
      BY <2>5, <3>1, TagsDiffer DEF MethodCallRequestField
    <3>3. [m EXCEPT !.static = c] = MethodCallOf(n, o, a, c, e, p, t)
      BY <1>6 DEF MethodCallOf
    <3>4. y = [message |-> MethodCallOf(n, o, a, c, e, p, t), ok |-> TRUE]
      BY <2>1, <3>2, <3>3 DEF Read
    <3> QED
      BY <1>3, <1>5, <1>8, <2>1, <3>4 DEF ReadOf
  <2>6. CASE x.tag = 40
    <3>1. PICK c : c = (x.bytes[1] # 0)
      OBVIOUS
    <3>2. MethodCallRequestField(m, x) = Read([m EXCEPT !.do_get_return_value = c])
      BY <2>6, <3>1, TagsDiffer DEF MethodCallRequestField
    <3>3. [m EXCEPT !.do_get_return_value = c] = MethodCallOf(n, o, a, s, c, p, t)
      BY <1>6 DEF MethodCallOf
    <3>4. y = [message |-> MethodCallOf(n, o, a, s, c, p, t), ok |-> TRUE]
      BY <2>1, <3>2, <3>3 DEF Read
    <3> QED
      BY <1>3, <1>5, <1>8, <2>1, <3>4 DEF ReadOf
  <2>7. CASE x.tag = 48
    <3>1. PICK c : c = (x.bytes[1] # 0)
      OBVIOUS
    <3>2. MethodCallRequestField(m, x) = Read([m EXCEPT !.property = c])
      BY <2>7, <3>1, TagsDiffer DEF MethodCallRequestField
    <3>3. [m EXCEPT !.property = c] = MethodCallOf(n, o, a, s, e, c, t)
      BY <1>6 DEF MethodCallOf
    <3>4. y = [message |-> MethodCallOf(n, o, a, s, e, c, t), ok |-> TRUE]
      BY <2>1, <3>2, <3>3 DEF Read
    <3> QED
      BY <1>3, <1>5, <1>8, <2>1, <3>4 DEF ReadOf
  <2>8. CASE x.tag = 66
    <3>1. MethodCallRequestField(m, x) = Read([m EXCEPT !.type = x.bytes])
      BY <2>8, TagsDiffer DEF MethodCallRequestField
    <3>2. [m EXCEPT !.type = x.bytes] = MethodCallOf(n, o, a, s, e, p, x.bytes)
      BY <1>6 DEF MethodCallOf
    <3>3. y = [message |-> MethodCallOf(n, o, a, s, e, p, x.bytes), ok |-> TRUE]
      BY <2>1, <3>1, <3>2 DEF Read
    <3>4. OneOf(x.bytes, 66, gs, i + 1)
      BY <1>3, <2>8, OneOfMore
    <3>5. ReadOf(y, gs, i + 1)
      BY <1>5, <2>1, <3>3, <3>4 DEF ReadOf
    <3> QED
      BY <1>3, <1>8, <3>5
  <2>9. CASE x.tag \notin {10, 18, 26, 32, 40, 48, 66}
    <3>1. MethodCallRequestField(m, x) = Read(m)
      BY <2>9, TagsDiffer DEF MethodCallRequestField
    <3>2. y = [message |-> MethodCallOf(n, o, a, s, e, p, t), ok |-> TRUE]
      BY <1>6, <2>1, <3>1 DEF Read
    <3> QED
      BY <1>3, <1>5, <1>8, <2>1, <3>2 DEF ReadOf
  <2> QED
    BY <2>2, <2>3, <2>4, <2>5, <2>6, <2>7, <2>8, <2>9
<1> QED
  BY <1>10, <1>11

\* The loop, over fields of any contents.
LEMMA ReadAll ==
    ASSUME NEW gs \in Seq(FieldSet), NEW r,
           Folds("MethodCallRequest", Read(EmptyMethodCallRequest), gs, r)
    PROVE  ReadOf(r, gs, Len(gs))
<1>1. PICK n \in Nat : n = Len(gs)
  OBVIOUS
<1>2. PICK g : /\ g[0] = Read(EmptyMethodCallRequest)
               /\ \A i \in 1 .. n : g[i] = FoldStep("MethodCallRequest", g[i - 1], gs[i])
               /\ r = g[n]
  BY <1>1 DEF Folds
<1>3. PICK T : T = {i \in Nat : i <= n => ReadOf(g[i], gs, i)}
  OBVIOUS
<1>4. 0 \in T
  <2>1. g[0] = [message |-> MethodCallOf(<<>>, <<>>, <<>>, FALSE, FALSE, FALSE, <<>>), ok |-> TRUE]
    BY <1>2 DEF Read, EmptyMethodCallRequest, MethodCallOf
  <2>2. \A tag : OneOf(<<>>, tag, gs, 0)
    BY DEF OneOf
  <2>3. TRUE \in BOOLEAN
    OBVIOUS
  <2>4. ReadOf(g[0], gs, 0)
    BY <2>1, <2>2, <2>3 DEF ReadOf
  <2> QED
    BY <1>3, <2>4
<1>5. ASSUME NEW i \in Nat, i \in T PROVE i + 1 \in T
  <2>1. SUFFICES ASSUME i + 1 <= n PROVE ReadOf(g[i + 1], gs, i + 1)
    BY <1>3
  <2>2. i + 1 \in 1 .. n /\ (i + 1) - 1 = i /\ ReadOf(g[i], gs, i)
    BY <1>3, <1>5, <2>1
  <2>3. g[i + 1] = FoldStep("MethodCallRequest", g[(i + 1) - 1], gs[i + 1])
    BY <1>2, <2>2
  <2>4. gs[i + 1] \in FieldSet
    BY <1>1, <2>2
  <2> QED
    BY <2>2, <2>3, <2>4, ReadStep
<1>6. Nat \subseteq T
  BY <1>4, <1>5, SetInduction
<1> QED
  BY <1>1, <1>2, <1>3, <1>6

-----------------------------------------------------------------------------
(* The fields of a method call: its type is the last one.                  *)

FieldOf(w, x) ==
    /\ x.tag = 10 => x.bytes = w.methodname
    /\ x.tag = 18 => x.bytes = w.object_id
    /\ x.tag = 26 => w.arg # <<>>
    /\ x.tag # 66

\* s is fields of w, none of them its type.
PartsOf(w, s) == \E fs : Encodes(s, fs) /\ \A i \in 1 .. Len(fs) : FieldOf(w, fs[i])

IsJoinOf(s, p, q) ==
    /\ Len(s) = Len(p) + Len(q) /\ Len(p) \in Nat /\ Len(q) \in Nat
    /\ \A i \in 1 .. Len(p) : s[i] = p[i]
    /\ \A i \in 1 .. Len(q) : s[Len(p) + i] = q[i]

LEMMA FieldsJoin ==
    ASSUME NEW p \in Seq(FieldSet), NEW q \in Seq(FieldSet) PROVE IsJoinOf(p \o q, p, q)
BY DEF IsJoinOf

LEMMA PartsJoin ==
    ASSUME NEW w, NEW s, NEW t, PartsOf(w, s), PartsOf(w, t) PROVE PartsOf(w, s \o t)
<1>1. PICK fs : Encodes(s, fs) /\ \A i \in 1 .. Len(fs) : FieldOf(w, fs[i])
  BY DEF PartsOf
<1>2. PICK gs : Encodes(t, gs) /\ \A i \in 1 .. Len(gs) : FieldOf(w, gs[i])
  BY DEF PartsOf
<1>3. PICK hs : hs = fs \o gs
  OBVIOUS
<1>4. Encodes(s \o t, hs)
  BY <1>1, <1>2, <1>3, EncodesJoin
<1>5. PICK m, n \in Nat : m = Len(fs) /\ n = Len(gs)
  <2>1. fs \in Seq(FieldSet) /\ gs \in Seq(FieldSet)
    BY <1>1, <1>2 DEF Encodes
  <2> QED
    BY <2>1
<1>6. /\ Len(hs) = m + n
      /\ \A i \in 1 .. m : hs[i] = fs[i]
      /\ \A i \in m + 1 .. m + n : hs[i] = gs[i - m]
  BY <1>1, <1>2, <1>3, <1>5 DEF Encodes
<1>7. ASSUME NEW i \in 1 .. m + n PROVE FieldOf(w, hs[i])
  <2>1. CASE i <= m
    BY <1>1, <1>5, <1>6, <2>1
  <2>2. CASE i > m
    <3>1. i \in m + 1 .. m + n /\ i - m \in 1 .. n
      BY <2>2
    <3> QED
      BY <1>2, <1>5, <1>6, <3>1
  <2> QED
    BY <2>1, <2>2
<1> QED
  BY <1>4, <1>6, <1>7 DEF PartsOf

LEMMA PartIs ==
    ASSUME NEW w, NEW s, NEW x, Encodes(s, <<x>>), FieldOf(w, x) PROVE PartsOf(w, s)
<1>1. PICK fs : fs = <<x>>
  OBVIOUS
<1>2. Len(fs) = 1 /\ fs[1] = x
  BY <1>1
<1>3. \A i \in 1 .. Len(fs) : FieldOf(w, fs[i])
  BY <1>2
<1> QED
  BY <1>1, <1>3 DEF PartsOf

LEMMA PartIf ==
    ASSUME NEW w, NEW condition, NEW s, condition => PartsOf(w, s)
    PROVE  PartsOf(w, If(condition, s))
<1>1. Encodes(<<>>, <<>>) /\ \A i \in 1 .. Len(<<>>) : FieldOf(w, <<>>[i])
  BY EncodesNothing
<1>2. PartsOf(w, <<>>)
  BY <1>1 DEF PartsOf
<1> QED
  BY <1>2 DEF If

LEMMA ArgumentsAreParts ==
    ASSUME NEW w \in MethodCallMessages PROVE PartsOf(w, ArgumentsBytes(3, w.arg))
<1>1. PICK args \in Seq(ArgumentMessages) : args = w.arg
  BY DEF MethodCallMessages
<1>2. PICK n \in Nat : n = Len(args) /\ DOMAIN args = 1 .. n
  OBVIOUS
<1>3. PICK q : q = [i \in 1 .. n |-> PutMessage(3, ArgumentSize(args[i]), ArgumentBytes(args[i]))]
  OBVIOUS
<1>4. ArgumentsBytes(3, args) = FlattenSeq(q) /\ Len(q) = n
  BY <1>2, <1>3 DEF ArgumentsBytes
<1>5. CASE n = 0
  <2>1. ArgumentsBytes(3, args) = q /\ q = <<>>
    BY <1>3, <1>4, <1>5 DEF FlattenSeq
  <2>2. If(FALSE, <<>>) = <<>>
    BY DEF If
  <2> QED
    BY <1>1, <2>1, <2>2, PartIf
<1>6. CASE n # 0
  <2>1. PICK f : JoinsFromFirst(f, q, n)
    BY <1>4, <1>6, FlattenJoins
  <2>2. ASSUME NEW i \in 1 .. n PROVE PartsOf(w, q[i])
    <3>1. PICK a \in ArgumentMessages : a = args[i]
      BY <1>2
    <3>2. PICK b, size : b = ArgumentBytes(a) /\ size = ArgumentSize(a)
      OBVIOUS
    <3>3. b \in Seq(Nat) /\ size = Len(b)
      BY <3>2, ReadArgumentBytes
    <3>4. q[i] = PutMessage(3, size, b)
      BY <1>3, <3>1, <3>2
    <3>5. PICK x : x = [tag |-> Tag(3, Delimited), bytes |-> b]
      OBVIOUS
    <3>6. Encodes(q[i], <<x>>)
      BY <3>3, <3>4, <3>5, MessageEncodes
    <3>7. w.arg # <<>>
      BY <1>1, <1>2, <1>6
    <3>8. FieldOf(w, x)
      BY <3>5, <3>7, TagsDiffer DEF FieldOf
    <3> QED
      BY <3>6, <3>8, PartIs
  <2>3. PICK S : S = {i \in Nat : i \in 1 .. n => PartsOf(w, f[i])}
    OBVIOUS
  <2>4. 0 \in S
    BY <2>3
  <2>5. ASSUME NEW i \in Nat, i \in S PROVE i + 1 \in S
    <3>1. SUFFICES ASSUME i + 1 \in 1 .. n PROVE PartsOf(w, f[i + 1])
      BY <2>3
    <3>2. PICK j \in 1 .. n : j = i + 1
      BY <3>1
    <3>3. CASE i = 0
      <4>1. f[j] = q[j]
        BY <2>1, <3>2, <3>3 DEF JoinsFromFirst
      <4> QED
        BY <2>2, <3>2, <4>1
    <3>4. CASE i # 0
      <4>1. i \in 1 .. n /\ j # 1 /\ j - 1 = i
        BY <3>1, <3>2, <3>4
      <4>2. f[j] = f[i] \o q[j] /\ PartsOf(w, f[i])
        BY <2>1, <2>3, <2>5, <4>1 DEF JoinsFromFirst
      <4> QED
        BY <2>2, <3>2, <4>2, PartsJoin
    <3> QED
      BY <3>3, <3>4
  <2>6. Nat \subseteq S
    BY <2>4, <2>5, SetInduction
  <2>7. PartsOf(w, f[n])
    BY <1>6, <2>3, <2>6
  <2> QED
    BY <1>1, <1>4, <2>1, <2>7 DEF JoinsFromFirst
<1> QED
  BY <1>5, <1>6

\* The fields fs are w, its type the last one.
TypeEnds(w, fs) ==
    /\ fs \in Seq(FieldSet) /\ Len(fs) > 0
    /\ \A i \in 1 .. Len(fs) - 1 : FieldOf(w, fs[i])
    /\ fs[Len(fs)].tag = 66

\* A method call is its parts, and then its type.
LEMMA TypeIsLast ==
    ASSUME NEW w \in MethodCallMessages, w.type # <<>>
    PROVE  \E fs : Encodes(MethodCallRequestBytes(w), fs) /\ TypeEnds(w, fs)
<1>1. PICK e1, e2, e3, e4, e5, e6, e7 :
         /\ e1 = If(w.methodname # <<>>, PutString(1, w.methodname))
         /\ e2 = If(w.object_id # <<>>, PutString(2, w.object_id))
         /\ e3 = ArgumentsBytes(3, w.arg)
         /\ e4 = If(w.static, PutBool(4, TRUE))
         /\ e5 = If(w.do_get_return_value, PutBool(5, TRUE))
         /\ e6 = If(w.property, PutBool(6, TRUE))
         /\ e7 = PutString(8, w.type)
  OBVIOUS
<1>2. MethodCallRequestBytes(w) = e1 \o e2 \o e3 \o e4 \o e5 \o e6 \o e7
  BY <1>1 DEF MethodCallRequestBytes, If
<1>3. w.methodname \in ByteStrings /\ w.object_id \in ByteStrings /\ w.type \in ByteStrings
  BY DEF MethodCallMessages
<1>4. PartsOf(w, e1)
  <2>1. PICK s, x : s = PutString(1, w.methodname)
                    /\ x = [tag |-> Tag(1, Delimited), bytes |-> w.methodname]
    OBVIOUS
  <2>2. Encodes(s, <<x>>)
    BY <1>3, <2>1, StringEncodes
  <2>3. FieldOf(w, x)
    BY <2>1, TagsDiffer DEF FieldOf
  <2> QED
    BY <1>1, <2>1, <2>2, <2>3, PartIs, PartIf
<1>5. PartsOf(w, e2)
  <2>1. PICK s, x : s = PutString(2, w.object_id)
                    /\ x = [tag |-> Tag(2, Delimited), bytes |-> w.object_id]
    OBVIOUS
  <2>2. Encodes(s, <<x>>)
    BY <1>3, <2>1, StringEncodes
  <2>3. FieldOf(w, x)
    BY <2>1, TagsDiffer DEF FieldOf
  <2> QED
    BY <1>1, <2>1, <2>2, <2>3, PartIs, PartIf
<1>6. ASSUME NEW field \in {4, 5, 6}, NEW condition
      PROVE  PartsOf(w, If(condition, PutBool(field, TRUE)))
  <2>1. PICK s, x, b : s = PutBool(field, TRUE) /\ b = <<IF TRUE THEN 1 ELSE 0>>
                       /\ x = [tag |-> Tag(field, Varint), bytes |-> b]
    OBVIOUS
  <2>2. Encodes(s, <<x>>)
    <3>1. TRUE \in BOOLEAN /\ field \in Nat \ {0}
      OBVIOUS
    <3> QED
      BY <2>1, <3>1, BoolEncodes
  <2>3. x.tag = 32 \/ x.tag = 40 \/ x.tag = 48
    BY <2>1, TagsDiffer
  <2>4. FieldOf(w, x)
    BY <2>3 DEF FieldOf
  <2> QED
    BY <2>1, <2>2, <2>4, PartIs, PartIf
<1>7. PartsOf(w, e3)
  BY <1>1, ArgumentsAreParts
<1>8. PartsOf(w, e4) /\ PartsOf(w, e5) /\ PartsOf(w, e6)
  BY <1>1, <1>6
<1>9. PICK p : p = e1 \o e2 \o e3 \o e4 \o e5 \o e6 /\ PartsOf(w, p)
  <2>1. PartsOf(w, e1 \o e2)
    BY <1>4, <1>5, PartsJoin
  <2>2. PartsOf(w, e1 \o e2 \o e3)
    BY <1>7, <2>1, PartsJoin
  <2>3. PartsOf(w, e1 \o e2 \o e3 \o e4)
    BY <1>8, <2>2, PartsJoin
  <2>4. PartsOf(w, e1 \o e2 \o e3 \o e4 \o e5)
    BY <1>8, <2>3, PartsJoin
  <2>5. PartsOf(w, e1 \o e2 \o e3 \o e4 \o e5 \o e6)
    BY <1>8, <2>4, PartsJoin
  <2> QED
    BY <2>5
<1>10. PICK ps : Encodes(p, ps) /\ \A i \in 1 .. Len(ps) : FieldOf(w, ps[i])
  BY <1>9 DEF PartsOf
<1>11. PICK x : x = [tag |-> Tag(8, Delimited), bytes |-> w.type] /\ Encodes(e7, <<x>>)
  <2>1. Encodes(e7, <<[tag |-> Tag(8, Delimited), bytes |-> w.type]>>)
    BY <1>1, <1>3, StringEncodes
  <2> QED
    BY <2>1
<1>12. PICK q : q = <<x>>
  OBVIOUS
<1>13. q \in Seq(FieldSet) /\ ps \in Seq(FieldSet) /\ Len(q) = 1 /\ q[1] = x
  BY <1>10, <1>11, <1>12 DEF Encodes
<1>14. PICK fs : fs = ps \o q
  OBVIOUS
<1>15. Encodes(MethodCallRequestBytes(w), fs)
  <2>1. MethodCallRequestBytes(w) = p \o e7
    BY <1>2, <1>9
  <2>2. Encodes(p \o e7, ps \o q)
    BY <1>10, <1>11, <1>12, EncodesJoin
  <2> QED
    BY <1>14, <2>1, <2>2
<1>16. PICK n \in Nat : n = Len(ps)
  BY <1>13
<1>17. Len(fs) = n + 1 /\ fs[n + 1] = x /\ \A i \in 1 .. n : fs[i] = ps[i]
  <2>1. IsJoinOf(fs, ps, q)
    BY <1>13, <1>14, FieldsJoin
  <2> QED
    BY <1>13, <1>16, <2>1 DEF IsJoinOf
<1>18. x.tag = 66
  BY <1>11, TagsDiffer
<1>19. Len(fs) - 1 = n /\ Len(fs) > 0 /\ fs[Len(fs)].tag = 66
  BY <1>17, <1>18
<1>20. \A i \in 1 .. Len(fs) - 1 : FieldOf(w, fs[i])
  BY <1>10, <1>16, <1>17, <1>19
<1>21. fs \in Seq(FieldSet)
  BY <1>15 DEF Encodes
<1> QED
  BY <1>15, <1>19, <1>20, <1>21 DEF TypeEnds

LeftOfCall(m, w) ==
    /\ m.type \notin Texts
    /\ m.methodname \in Texts => m.methodname = w.methodname
    /\ m.object_id \in Texts => m.object_id = w.object_id
    /\ w.arg = <<>> => m.arg = <<>>

\* What is read of a method call that was cut, whatever the reader finds where it breaks.
LEMMA CutCallIs ==
    ASSUME NEW w \in MethodCallMessages, w.type # <<>>,
           NEW fs, TypeEnds(w, fs), NEW gs, gs = <<>> \/ Shortened(gs, fs), NEW r,
           Folds("MethodCallRequest", Read(EmptyMethodCallRequest), gs, r)
    PROVE  LeftOfCall(r.message, w)
<1>1. Shortened(gs, fs)
  <2>1. CASE gs = <<>>
    <3>1. fs \in Seq(FieldSet)
      BY DEF TypeEnds
    <3>2. Follows(<<>>, fs)
      BY <3>1, FollowsNothing
    <3>3. Len(<<>>) # Len(fs)
      BY DEF TypeEnds
    <3> QED
      BY <2>1, <3>2, <3>3 DEF Shortened
  <2> QED
    BY <2>1
<1>2. gs \in Seq(FieldSet) /\ fs \in Seq(FieldSet)
  BY <1>1 DEF Shortened, Follows
<1>3. PICK m, n \in Nat : m = Len(gs) /\ n = Len(fs) /\ m <= n /\ n > 0
  BY <1>1, <1>2 DEF Shortened, Follows, TypeEnds
<1>4. ReadOf(r, gs, m)
  BY <1>2, <1>3, ReadAll
<1>5. PICK a, o, b, s, e, p, t : \E ok \in BOOLEAN :
        /\ r = [message |-> MethodCallOf(a, o, b, s, e, p, t), ok |-> ok]
        /\ OneOf(a, 10, gs, m) /\ OneOf(o, 18, gs, m) /\ OneOf(t, 66, gs, m)
        /\ b = <<>> \/ \E j \in 1 .. m : gs[j].tag = 26
  BY <1>4 DEF ReadOf
<1>6. /\ r.message.methodname = a /\ r.message.object_id = o /\ r.message.arg = b
      /\ r.message.type = t
  BY <1>5 DEF MethodCallOf
<1>7. ASSUME NEW j \in 1 .. m
      PROVE  /\ gs[j].tag = 66 => Broken(gs[j].bytes)
             /\ gs[j].tag # 66 => FieldOf(w, fs[j])
             /\ gs[j].tag = fs[j].tag
             /\ gs[j].bytes = fs[j].bytes \/ Broken(gs[j].bytes)
  <2>1. gs[j].tag = fs[j].tag /\ (gs[j].bytes = fs[j].bytes \/ Broken(gs[j].bytes))
    BY <1>1, <1>3 DEF Shortened, Follows
  <2>2. CASE j = n
    <3>1. m = n /\ j = m
      BY <1>3, <2>2
    <3>2. Broken(gs[m].bytes)
      BY <1>1, <1>3, <3>1 DEF Shortened
    <3>3. fs[j].tag = 66
      BY <1>3, <2>2 DEF TypeEnds
    <3> QED
      BY <2>1, <3>1, <3>2, <3>3
  <2>3. CASE j # n
    <3>1. j \in 1 .. n - 1
      BY <1>3, <2>3
    <3>2. FieldOf(w, fs[j])
      BY <1>3, <3>1 DEF TypeEnds
    <3>3. fs[j].tag # 66
      BY <3>2 DEF FieldOf
    <3> QED
      BY <2>1, <3>2, <3>3
  <2> QED
    BY <2>2, <2>3
<1>8. <<>> \notin Texts
  BY DEF Texts
<1>9. t \notin Texts
  <2>1. ASSUME NEW j \in 1 .. m, gs[j].tag = 66, t = gs[j].bytes PROVE t \notin Texts
    BY <1>7, <2>1, BrokenIsNoText
  <2> QED
    BY <1>5, <1>8, <2>1 DEF OneOf
<1>10. a \in Texts => a = w.methodname
  <2>1. ASSUME NEW j \in 1 .. m, gs[j].tag = 10, a = gs[j].bytes, a \in Texts
        PROVE  a = w.methodname
    <3>1. gs[j].bytes = fs[j].bytes /\ FieldOf(w, fs[j]) /\ fs[j].tag = 10
      BY <1>7, <2>1, BrokenIsNoText
    <3> QED
      BY <2>1, <3>1 DEF FieldOf
  <2> QED
    BY <1>5, <1>8, <2>1 DEF OneOf
<1>11. o \in Texts => o = w.object_id
  <2>1. ASSUME NEW j \in 1 .. m, gs[j].tag = 18, o = gs[j].bytes, o \in Texts
        PROVE  o = w.object_id
    <3>1. gs[j].bytes = fs[j].bytes /\ FieldOf(w, fs[j]) /\ fs[j].tag = 18
      BY <1>7, <2>1, BrokenIsNoText
    <3> QED
      BY <2>1, <3>1 DEF FieldOf
  <2> QED
    BY <1>5, <1>8, <2>1 DEF OneOf
<1>12. w.arg = <<>> => b = <<>>
  <2>1. SUFFICES ASSUME w.arg = <<>>, NEW j \in 1 .. m, gs[j].tag = 26 PROVE FALSE
    BY <1>5
  <2>2. FieldOf(w, fs[j]) /\ fs[j].tag = 26
    BY <1>7, <2>1
  <2> QED
    BY <2>1, <2>2 DEF FieldOf
<1> QED
  BY <1>6, <1>9, <1>10, <1>11, <1>12 DEF LeftOfCall

-----------------------------------------------------------------------------
(* A frame that was cut.                                                   *)

LEMMA NoFields ==
    ASSUME NEW s \in Seq(Nat), Len(s) = 0 \/ s[1] = 0 PROVE Fields(s).fields = <<>>
<1>1. PICK from : IsFields(from, s) /\ Fields(s) = from[1]
  BY FieldsFound
<1>2. Len(s) \in Nat /\ 1 \in 1 .. Len(s) + 1
  OBVIOUS
<1>3. from[1] = FieldsAt(from, s, 1)
  BY <1>1, <1>2 DEF IsFields
<1>4. CASE Len(s) = 0
  BY <1>1, <1>3, <1>4 DEF FieldsAt
<1>5. CASE Len(s) # 0
  <2>1. s[1] = 0 /\ 1 # Len(s) + 1
    BY <1>2, <1>5
  <2>2. from[1] = [fields |-> <<>>, end |-> "zero"]
    BY <1>3, <2>1 DEF FieldsAt
  <2> QED
    BY <1>1, <2>2
<1> QED
  BY <1>4, <1>5

\* A frame has one field, with the bytes of x or what is left of them.
LeftOfField(f, field, x) ==
    \E y \in Seq(Nat) :
        /\ Fields(f).fields = <<[tag |-> Tag(field, Delimited), bytes |-> y]>>
        /\ y = <<>> \/ \E k \in Nat : k < Len(x) /\ y = CutAt(x, k)

\* A nested message that was cut is still one field, of which the end is missing.
LEMMA CutFrame ==
    ASSUME NEW field \in Nat \ {0}, NEW x \in Seq(Nat), NEW size, size = Len(x),
           NEW f, f = PutMessage(field, size, x), NEW n \in Nat, 0 < n, n < Len(f)
    PROVE  LeftOfField(CutAt(f, n), field, x)
<1>1. PICK tag \in Nat : tag = Tag(field, Delimited)
  <2>1. Delimited \in 0 .. 7
    BY DEF Delimited
  <2> QED
    BY <2>1, TagIs
<1>2. PICK l \in Nat : l = Len(x) /\ l = size
  OBVIOUS
<1>3. PICK h : h = <<tag, l>> /\ h \in Seq(Nat) /\ Len(h) = 2 /\ h[1] = tag /\ h[2] = l
  <2>1. /\ <<tag, l>> \in Seq(Nat) /\ Len(<<tag, l>>) = 2
        /\ <<tag, l>>[1] = tag /\ <<tag, l>>[2] = l
    OBVIOUS
  <2> QED
    BY <2>1
<1>4. f = h \o x
  BY <1>1, <1>2, <1>3 DEF PutMessage
<1>5. /\ f \in Seq(Nat) /\ Len(f) = l + 2 /\ f[1] = tag /\ f[2] = l
      /\ \A i \in 1 .. l : f[2 + i] = x[i]
  <2>1. IsJoin(f, h, x)
    BY <1>3, <1>4, JoinIs
  <2>2. 1 \in 1 .. Len(h) /\ 2 \in 1 .. Len(h)
    BY <1>3
  <2>3. f[1] = h[1] /\ f[2] = h[2]
    BY <2>1, <2>2 DEF IsJoin
  <2>4. f \in Seq(Nat) /\ Len(f) = Len(h) + Len(x) /\ \A i \in 1 .. Len(x) : f[Len(h) + i] = x[i]
    BY <2>1 DEF IsJoin
  <2> QED
    BY <1>2, <1>3, <2>3, <2>4
<1>6. PICK t : /\ t = CutAt(f, n) /\ t \in Seq(Nat) /\ Len(t) = l + 2
               /\ \A i \in 1 .. l + 2 : t[i] = IF i <= n THEN f[i] ELSE 0
  <2>1. PICK t : t = CutAt(f, n)
    OBVIOUS
  <2>2. /\ t \in Seq(Nat) /\ Len(t) = Len(f)
        /\ \A i \in 1 .. Len(f) : t[i] = IF i <= n THEN f[i] ELSE 0
    <3>1. f \in Seq(Nat)
      BY <1>5
    <3> QED
      BY <2>1, <3>1, CutIs
  <2> QED
    BY <1>5, <2>1, <2>2
<1>7. CASE n = 1
  <2>1. PICK z : /\ z = CutAt(x, 0) /\ z \in Seq(Nat) /\ Len(z) = l
                 /\ \A i \in 1 .. l : z[i] = 0
    <3>1. PICK z : z = CutAt(x, 0)
      OBVIOUS
    <3>2. /\ z \in Seq(Nat) /\ Len(z) = Len(x)
          /\ \A i \in 1 .. Len(x) : z[i] = IF i <= 0 THEN x[i] ELSE 0
      BY <3>1, CutIs
    <3> QED
      BY <1>2, <3>1, <3>2
  <2>2. PICK g : /\ g = <<tag, 0>> /\ g \in Seq(Nat) /\ Len(g) = 2 /\ g[1] = tag /\ g[2] = 0
    <3>1. /\ <<tag, 0>> \in Seq(Nat) /\ Len(<<tag, 0>>) = 2
          /\ <<tag, 0>>[1] = tag /\ <<tag, 0>>[2] = 0
      OBVIOUS
    <3> QED
      BY <3>1
  <2>3. PICK u : u = g \o z
    OBVIOUS
  <2>4. /\ u \in Seq(Nat) /\ Len(u) = l + 2 /\ u[1] = tag /\ u[2] = 0
        /\ \A i \in 1 .. l : u[2 + i] = z[i]
    <3>1. IsJoin(u, g, z)
      BY <2>1, <2>2, <2>3, JoinIs
    <3>2. 1 \in 1 .. Len(g) /\ 2 \in 1 .. Len(g)
      BY <2>2
    <3>3. u[1] = g[1] /\ u[2] = g[2]
      BY <3>1, <3>2 DEF IsJoin
    <3>4. /\ u \in Seq(Nat) /\ Len(u) = Len(g) + Len(z)
          /\ \A i \in 1 .. Len(z) : u[Len(g) + i] = z[i]
      BY <3>1 DEF IsJoin
    <3>5. Len(g) = 2 /\ Len(z) = l /\ l \in Nat
      BY <1>2, <2>1, <2>2
    <3>6. Len(u) = l + 2 /\ \A i \in 1 .. l : u[2 + i] = z[i]
      BY <3>4, <3>5
    <3> QED
      BY <2>2, <3>3, <3>4, <3>6
  <2>5. ASSUME NEW i \in 1 .. l + 2 PROVE t[i] = u[i]
    <3>1. CASE i = 1
      BY <1>5, <1>6, <1>7, <2>4, <3>1
    <3>2. CASE i = 2
      BY <1>6, <1>7, <2>4, <3>2
    <3>3. CASE i > 2
      <4>1. PICK j \in 1 .. l : i = 2 + j
        <5>1. i - 2 \in 1 .. l /\ i = 2 + (i - 2)
          BY <3>3
        <5> QED
          BY <5>1
      <4>2. t[i] = 0
        BY <1>6, <1>7, <3>3
      <4> QED
        BY <2>1, <2>4, <4>1, <4>2
    <3> QED
      BY <3>1, <3>2, <3>3
  <2>6. t = u
    BY <1>6, <2>4, <2>5, SeqEqual
  <2>7. PICK e, y : y = [tag |-> tag, bytes |-> e] /\ e = <<>> /\ e \in Seq(Nat)
    <3>1. <<>> \in Seq(Nat)
      OBVIOUS
    <3> QED
      BY <3>1
  <2>8. Encodes(g, <<y>>)
    <3>1. Encodes(PutMessage(field, 0, e), <<[tag |-> Tag(field, Delimited), bytes |-> e]>>)
      <4>1. Len(e) = 0
        BY <2>7
      <4> QED
        BY <2>7, <4>1, MessageEncodes
    <3>2. PutMessage(field, 0, e) = g
      BY <1>1, <2>2, <2>7 DEF PutMessage
    <3> QED
      BY <1>1, <2>7, <3>1, <3>2
  <2>9. Fields(u) = Behind(<<y>>, Fields(z))
    BY <2>1, <2>3, <2>8, EncodesBefore
  <2>10. Fields(z).fields = <<>>
    <3>1. Len(z) = 0 \/ z[1] = 0
      BY <2>1
    <3> QED
      BY <2>1, <3>1, NoFields
  <2>11. Fields(u).fields = <<y>>
    <3>1. Fields(u).fields = <<y>> \o <<>>
      BY <2>9, <2>10 DEF Behind
    <3> QED
      BY <3>1
  <2> QED
    BY <1>1, <1>6, <2>6, <2>7, <2>11 DEF LeftOfField
<1>8. CASE n > 1
  <2>1. PICK k \in Nat : k = n - 2 /\ k < l
    BY <1>5, <1>8
  <2>2. PICK z : /\ z = CutAt(x, k) /\ z \in Seq(Nat) /\ Len(z) = l
                 /\ \A i \in 1 .. l : z[i] = IF i <= k THEN x[i] ELSE 0
    BY <1>2, CutIs
  <2>3. PICK u : u = h \o z
    OBVIOUS
  <2>4. /\ u \in Seq(Nat) /\ Len(u) = l + 2 /\ u[1] = tag /\ u[2] = l
        /\ \A i \in 1 .. l : u[2 + i] = z[i]
    <3>1. IsJoin(u, h, z)
      BY <1>3, <2>2, <2>3, JoinIs
    <3>2. 1 \in 1 .. Len(h) /\ 2 \in 1 .. Len(h)
      BY <1>3
    <3>3. u[1] = h[1] /\ u[2] = h[2]
      BY <3>1, <3>2 DEF IsJoin
    <3>4. /\ u \in Seq(Nat) /\ Len(u) = Len(h) + Len(z)
          /\ \A i \in 1 .. Len(z) : u[Len(h) + i] = z[i]
      BY <3>1 DEF IsJoin
    <3> QED
      BY <1>3, <2>2, <3>3, <3>4
  <2>5. ASSUME NEW i \in 1 .. l + 2 PROVE t[i] = u[i]
    <3>1. CASE i = 1
      BY <1>5, <1>6, <1>8, <2>4, <3>1
    <3>2. CASE i = 2
      BY <1>5, <1>6, <1>8, <2>4, <3>2
    <3>3. CASE i > 2
      <4>1. PICK j \in 1 .. l : i = 2 + j
        <5>1. i - 2 \in 1 .. l /\ i = 2 + (i - 2)
          BY <3>3
        <5> QED
          BY <5>1
      <4>2. i <= n <=> j <= k
        BY <2>1, <4>1
      <4>3. t[i] = IF i <= n THEN f[i] ELSE 0
        BY <1>6
      <4>4. f[i] = x[j] /\ u[i] = z[j]
        BY <1>5, <2>4, <4>1
      <4>5. z[j] = IF j <= k THEN x[j] ELSE 0
        BY <2>2
      <4> QED
        BY <4>2, <4>3, <4>4, <4>5
    <3> QED
      BY <3>1, <3>2, <3>3
  <2>6. t = u
    BY <1>6, <2>4, <2>5, SeqEqual
  <2>7. PICK y : y = [tag |-> tag, bytes |-> z]
    OBVIOUS
  <2>8. u = PutMessage(field, l, z)
    BY <1>1, <1>3, <2>3 DEF PutMessage
  <2>9. Encodes(u, <<y>>)
    BY <1>1, <2>2, <2>7, <2>8, MessageEncodes
  <2>10. Fields(u).fields = <<y>>
    BY <2>9, EncodesFields
  <2> QED
    BY <1>1, <1>2, <1>6, <2>1, <2>2, <2>6, <2>7, <2>10 DEF LeftOfField
<1>9. n = 1 \/ n > 1
  OBVIOUS
<1> QED
  BY <1>7, <1>8, <1>9

\* A field of a request that is the only one, and how it is read.
LEMMA OneFieldIsRead ==
    ASSUME NEW t \in Seq(Nat), NEW x, Fields(t).fields = <<x>>, NEW m,
           RequestField(EmptyRequest, x) = m, IsRead(m)
    PROVE  ParseRequest(t).message = m.message
<1>1. PICK q : q = <<x>> /\ q = Fields(t).fields
  OBVIOUS
<1>2. Folds("Request", Read(EmptyRequest), q, FoldStep("Request", Read(EmptyRequest), x))
  BY <1>1, FoldsOne
<1>3. FoldStep("Request", Read(EmptyRequest), x) = m
  BY StepIs
<1>4. Folds("Request", Read(EmptyRequest), q, LeftFold("Request", Read(EmptyRequest), q))
  BY <1>1, FieldsFold
<1>5. q \in Seq(FieldSet)
  BY <1>1, FieldsFold
<1>6. LeftFold("Request", Read(EmptyRequest), q) = m
  BY <1>2, <1>3, <1>5, FoldsAreLeft
<1>7. Reading("Request", Read(EmptyRequest), t).message = m.message
  BY <1>1, <1>6, ReadingOf
<1> QED
  BY <1>7, ParsersAre

\* A nested method call of any contents.
LEMMA NestedCallIs ==
    ASSUME NEW t \in Seq(Nat), NEW y \in Seq(Nat),
           Fields(t).fields = <<[tag |-> Tag(1, Delimited), bytes |-> y]>>
    PROVE  \E r : /\ Folds("MethodCallRequest", Read(EmptyMethodCallRequest), Fields(y).fields, r)
                  /\ ParseRequest(t).message = AsMethodCall(r.message, <<>>)
<1>1. PICK x : x = [tag |-> Tag(1, Delimited), bytes |-> y]
  OBVIOUS
<1>2. PICK gs, base : gs = Fields(y).fields /\ base = Read(EmptyMethodCallRequest)
  OBVIOUS
<1>3. PICK r : r = LeftFold("MethodCallRequest", base, gs)
  OBVIOUS
<1>4. gs \in Seq(FieldSet) /\ Folds("MethodCallRequest", base, gs, r)
  BY <1>2, <1>3, FieldsFold
<1>5. IsRead(r)
  <2>1. ReadOf(r, gs, Len(gs))
    BY <1>2, <1>4, ReadAll
  <2>2. PICK n, o, a, s, e, p, v : \E ok \in BOOLEAN :
          r = [message |-> MethodCallOf(n, o, a, s, e, p, v), ok |-> ok]
    BY <2>1 DEF ReadOf
  <2> QED
    BY <2>2 DEF IsRead
<1>6. PICK v : v = Reading("MethodCallRequest", base, y)
  OBVIOUS
<1>7. IsRead(v) /\ v.message = r.message
  BY <1>2, <1>3, <1>5, <1>6, ReadingOf
<1>8. PICK w : w = set_method_call(EmptyRequest, v.message)
  OBVIOUS
<1>9. RequestField(EmptyRequest, x) = [v EXCEPT !.message = w]
  <2>1. Choose(EmptyRequest, "method_call").method_call = EmptyMethodCallRequest
    BY EmptyRequestIs, ChosenIs
  <2>2. v = ReadMethodCallRequest(Choose(EmptyRequest, "method_call").method_call, x.bytes)
    BY <1>1, <1>2, <1>6, <2>1, ReadersAre
  <2>3. RequestField(EmptyRequest, x)
          = LET m == ReadMethodCallRequest(Choose(EmptyRequest, "method_call").method_call,
                                           x.bytes)
            IN  [m EXCEPT !.message = set_method_call(EmptyRequest, @)]
    BY <1>1, TagsDiffer DEF RequestField
  <2> QED
    BY <1>8, <2>2, <2>3
<1>10. PICK m : m = RequestField(EmptyRequest, x)
  OBVIOUS
<1>11. IsRead(m) /\ m.message = w
  <2>1. m = [message |-> w, ok |-> v.ok]
    BY <1>7, <1>9, <1>10, MessageChanges
  <2>2. v.ok \in BOOLEAN
    BY <1>7 DEF IsRead
  <2> QED
    BY <2>1, <2>2 DEF IsRead
<1>12. ParseRequest(t).message = w
  <2>1. Fields(t).fields = <<x>>
    BY <1>1
  <2> QED
    BY <1>10, <1>11, <2>1, OneFieldIsRead
<1>13. w = AsMethodCall(r.message, <<>>)
  BY <1>7, <1>8, EmptyRequestIs, MethodCallIsSet
<1> QED
  BY <1>2, <1>4, <1>12, <1>13

LEMMA ImportShape == KeepsShape("ImportRequest")
<1> SUFFICES ASSUME NEW r, NEW x \in FieldSet, IsRead(r)
             PROVE  IsRead(FoldStep("ImportRequest", r, x))
  BY DEF KeepsShape
<1>1. FoldStep("ImportRequest", r, x) = IF r.ok THEN ImportRequestField(r.message, x) ELSE r
  BY DEF FoldStep
<1>2. IsRead(ImportRequestField(r.message, x))
  BY ReadIs DEF ImportRequestField
<1> QED
  BY <1>1, <1>2

LEMMA NestedImportIs ==
    ASSUME NEW t \in Seq(Nat), NEW y \in Seq(Nat),
           Fields(t).fields = <<[tag |-> Tag(2, Delimited), bytes |-> y]>>
    PROVE  \E i : ParseRequest(t).message = AsImport(i, <<>>)
<1>1. PICK x : x = [tag |-> Tag(2, Delimited), bytes |-> y]
  OBVIOUS
<1>2. PICK base, i : i = Choose(EmptyRequest, "importation").importation /\ base = Read(i)
  OBVIOUS
<1>3. PICK v : v = Reading("ImportRequest", base, y)
  OBVIOUS
<1>4. IsRead(v)
  BY <1>2, <1>3, ReadIs, ImportShape, ReadingShape
<1>5. PICK w : w = set_importation(EmptyRequest, v.message)
  OBVIOUS
<1>6. RequestField(EmptyRequest, x) = [v EXCEPT !.message = w]
  <2>1. v = ReadImportRequest(Choose(EmptyRequest, "importation").importation, x.bytes)
    BY <1>1, <1>2, <1>3, ReadersAre
  <2>2. x.tag = Tag(2, Delimited) /\ x.tag # Tag(1, Delimited)
    BY <1>1, TagsDiffer
  <2>3. RequestField(EmptyRequest, x)
          = LET m == ReadImportRequest(Choose(EmptyRequest, "importation").importation, x.bytes)
            IN  [m EXCEPT !.message = set_importation(EmptyRequest, @)]
    BY <2>2, TagsDiffer DEF RequestField
  <2> QED
    BY <1>5, <2>1, <2>3
<1>7. PICK m : m = RequestField(EmptyRequest, x)
  OBVIOUS
<1>8. IsRead(m) /\ m.message = w
  <2>1. m = [message |-> w, ok |-> v.ok]
    BY <1>4, <1>6, <1>7, MessageChanges
  <2>2. v.ok \in BOOLEAN
    BY <1>4 DEF IsRead
  <2> QED
    BY <2>1, <2>2 DEF IsRead
<1>9. ParseRequest(t).message = w
  <2>1. Fields(t).fields = <<x>>
    BY <1>1
  <2> QED
    BY <1>7, <1>8, <2>1, OneFieldIsRead
<1>10. w = AsImport(v.message, <<>>)
  BY <1>5, EmptyRequestIs, ImportIsSet
<1> QED
  BY <1>9, <1>10

\* The receiver reads a frame of which the end is missing as a request without an id, and
\* of a method call it does not have the type.
LEMMA CutRequestIs ==
    ASSUME NEW c \in MethodCalls \cup Imports, NEW f, f = RequestBytes(RequestProto(c)),
           NEW n \in Nat, 0 < n, n < Len(f), NEW r, r = ParseRequest(CutAt(f, n)).message
    PROVE  r.assigned_id = <<>> /\ CutRequest(c, r)
<1>1. CASE c \in MethodCalls
  <2>1. PICK w : w = MethodCallProto(c)
    OBVIOUS
  <2>2. PICK x, size : x = MethodCallRequestBytes(w) /\ size = MethodCallRequestSize(w)
    OBVIOUS
  <2>3. f = PutMessage(1, size, x) /\ x \in Seq(Nat) /\ size = Len(x)
    BY <1>1, <2>1, <2>2, RequestIsMethodCall
  <2>4. /\ w \in MethodCallMessages
        /\ w.methodname = c.method.name /\ w.type = c.method.type
        /\ w.object_id = c.objectID /\ c.method.type \in Texts
        /\ c.method.params = <<>> => w.arg = <<>>
    BY <1>1, <2>1, MethodCallIs
  <2>5. w.type # <<>>
    BY <2>4 DEF Texts
  <2>6. PICK fs : Encodes(x, fs) /\ TypeEnds(w, fs)
    BY <2>2, <2>4, <2>5, TypeIsLast
  <2>7. PICK y \in Seq(Nat) :
          /\ Fields(CutAt(f, n)).fields = <<[tag |-> Tag(1, Delimited), bytes |-> y]>>
          /\ y = <<>> \/ \E k \in Nat : k < Len(x) /\ y = CutAt(x, k)
    <3>1. LeftOfField(CutAt(f, n), 1, x)
      BY <2>3, CutFrame
    <3> QED
      BY <3>1 DEF LeftOfField
  <2>8. PICK gs : gs = Fields(y).fields
    OBVIOUS
  <2>9. gs = <<>> \/ Shortened(gs, fs)
    <3>1. CASE y = <<>>
      BY <2>8, <3>1, FieldsOfNothing
    <3>2. ASSUME NEW k \in Nat, k < Len(x), y = CutAt(x, k) PROVE Shortened(gs, fs)
      <4>1. Fields(x).fields = fs /\ Fields(x).end = "limit"
        BY <2>6, EncodesFields
      <4> QED
        BY <2>3, <2>8, <3>2, <4>1, CutFields
    <3> QED
      BY <2>7, <3>1, <3>2
  <2>10. CutAt(f, n) \in Seq(Nat)
    <3>1. Encodes(PutMessage(1, size, x), <<[tag |-> Tag(1, Delimited), bytes |-> x]>>)
      BY <2>3, MessageEncodes
    <3>2. f \in Seq(Nat)
      BY <2>3, <3>1 DEF Encodes
    <3> QED
      BY <3>2, CutIs
  <2>11. PICK s : /\ Folds("MethodCallRequest", Read(EmptyMethodCallRequest), gs, s)
                  /\ r = AsMethodCall(s.message, <<>>)
    BY <2>7, <2>8, <2>10, NestedCallIs
  <2>12. LeftOfCall(s.message, w)
    BY <2>4, <2>5, <2>6, <2>9, <2>11, CutCallIs
  <2>13. r.case = "method_call" /\ r.method_call = s.message /\ r.assigned_id = <<>>
    BY <2>11, RequestFields DEF AsMethodCall
  <2>14. c.kind = "method"
    BY <1>1 DEF MethodCalls
  <2> QED
    BY <2>4, <2>12, <2>13, <2>14 DEF CutRequest, LeftOfCall
<1>2. CASE c \in Imports
  <2>1. PICK w : w = [imported_name |-> c.name]
    OBVIOUS
  <2>2. PICK x, size : x = ImportRequestBytes(w) /\ size = ImportRequestSize(w)
    OBVIOUS
  <2>3. f = PutMessage(2, size, x) /\ x \in Seq(Nat) /\ size = Len(x)
    BY <1>2, <2>1, <2>2, RequestIsImport
  <2>4. PICK y \in Seq(Nat) :
          Fields(CutAt(f, n)).fields = <<[tag |-> Tag(2, Delimited), bytes |-> y]>>
    <3>1. LeftOfField(CutAt(f, n), 2, x)
      BY <2>3, CutFrame
    <3> QED
      BY <3>1 DEF LeftOfField
  <2>5. CutAt(f, n) \in Seq(Nat)
    <3>1. Encodes(PutMessage(2, size, x), <<[tag |-> Tag(2, Delimited), bytes |-> x]>>)
      BY <2>3, MessageEncodes
    <3>2. f \in Seq(Nat)
      BY <2>3, <3>1 DEF Encodes
    <3> QED
      BY <3>2, CutIs
  <2>6. PICK i : r = AsImport(i, <<>>)
    BY <2>4, <2>5, NestedImportIs
  <2>7. r.case = "importation" /\ r.assigned_id = <<>>
    BY <2>6, RequestFields DEF AsImport
  <2>8. c.kind = "import"
    BY <1>2 DEF Imports
  <2> QED
    BY <2>7, <2>8 DEF CutRequest
<1> QED
  BY <1>1, <1>2

-----------------------------------------------------------------------------
(* The ids.                                                                *)

LEMMA Digits ==
    ASSUME NEW n \in 10 .. 99
    PROVE  n \div 10 \in 1 .. 9 /\ n % 10 \in 0 .. 9 /\ n = 10 * (n \div 10) + (n % 10)
OBVIOUS

LEMMA DecimalIsText == ASSUME NEW n \in 0 .. 99 PROVE Decimal(n) \in Texts
<1>1. CASE n < 10
  <2>1. PICK d : d = 48 + n /\ d \in 0 .. 255 /\ d # 0
    BY <1>1
  <2>2. Decimal(n) = <<d>>
    BY <1>1, <2>1 DEF Decimal
  <2>3. <<d>> \in Seq(0 .. 255) /\ <<d>> # <<>> /\ \A i \in DOMAIN <<d>> : <<d>>[i] # 0
    BY <2>1
  <2> QED
    BY <2>2, <2>3 DEF Texts, ByteStrings
<1>2. CASE ~ (n < 10)
  <2>1. PICK d, e : /\ d = 48 + (n \div 10) /\ d \in 0 .. 255 /\ d # 0
                    /\ e = 48 + (n % 10) /\ e \in 0 .. 255 /\ e # 0
    BY <1>2, Digits
  <2>2. Decimal(n) = <<d, e>>
    BY <1>2, <2>1 DEF Decimal
  <2>3. <<d, e>> \in Seq(0 .. 255) /\ <<d, e>> # <<>> /\ \A i \in DOMAIN <<d, e>> : <<d, e>>[i] # 0
    BY <2>1
  <2> QED
    BY <2>2, <2>3 DEF Texts, ByteStrings
<1> QED
  BY <1>1, <1>2

LEMMA DecimalsDiffer ==
    ASSUME NEW m \in 0 .. 99, NEW n \in 0 .. 99, Decimal(m) = Decimal(n) PROVE m = n
<1>1. ASSUME NEW x \in 0 .. 99, x < 10
      PROVE  Decimal(x) = <<48 + x>> /\ Len(Decimal(x)) = 1 /\ Decimal(x)[1] = 48 + x
  BY <1>1 DEF Decimal
<1>2. ASSUME NEW x \in 0 .. 99, ~ (x < 10)
      PROVE  /\ Len(Decimal(x)) = 2 /\ Decimal(x)[1] = 48 + (x \div 10)
             /\ Decimal(x)[2] = 48 + (x % 10)
  BY <1>2 DEF Decimal
<1>3. CASE m < 10 /\ n < 10
  BY <1>1, <1>3
<1>4. CASE ~ (m < 10) /\ ~ (n < 10)
  <2>1. 48 + (m \div 10) = 48 + (n \div 10) /\ 48 + (m % 10) = 48 + (n % 10)
    BY <1>2, <1>4
  <2>2. m \in 10 .. 99 /\ n \in 10 .. 99
    BY <1>4
  <2> QED
    BY <2>1, <2>2, Digits
<1>5. CASE (m < 10) # (n < 10)
  BY <1>1, <1>2, <1>5
<1> QED
  BY <1>3, <1>4, <1>5

\* The next id is not one that was given before.
LEMMA NextIdIsFresh ==
    ASSUME NEW n \in FirstId .. 99
    PROVE  Decimal(n) \notin IdsBelow(n) /\ IdsBelow(n) \subseteq Texts
<1>1. FirstId \in 0 .. 99 /\ FirstObjects \subseteq Texts
  BY TransferAssumption
<1>2. Decimal(n) \notin FirstObjects
  BY FirstIdAssumption
<1>3. ASSUME NEW i \in FirstId .. n - 1 PROVE Decimal(i) # Decimal(n) /\ Decimal(i) \in Texts
  <2>1. i \in 0 .. 99 /\ n \in 0 .. 99 /\ i # n
    BY <1>1
  <2> QED
    BY <2>1, DecimalIsText, DecimalsDiffer
<1> QED
  BY <1>1, <1>2, <1>3 DEF IdsBelow

LEMMA IdsGrow ==
    ASSUME NEW n \in FirstId .. 99
    PROVE  IdsBelow(n + 1) = IdsBelow(n) \cup {Decimal(n)}
<1>1. FirstId \in 0 .. 99
  BY TransferAssumption
<1>2. FirstId .. (n + 1) - 1 = (FirstId .. n - 1) \cup {n}
  BY <1>1
<1> QED
  BY <1>2 DEF IdsBelow

-----------------------------------------------------------------------------
(* The responses.                                                          *)

LEMMA NamedResponse ==
    ASSUME NEW i \in ByteStrings
    PROVE  /\ Named(i) = ResponseRecord("none", EmptyValue, <<>>, i)
           /\ Named(i) \in ResponseMessages /\ Named(i).assigned_id = i
           /\ EmptyChannelResponse = Named(<<>>)
<1>1. /\ EmptyChannelResponse = ResponseRecord("none", EmptyValue, <<>>, <<>>)
      /\ \A j : Named(j) = ResponseRecord("none", EmptyValue, <<>>, j)
  BY DEF Named, EmptyChannelResponse, ResponseRecord
<1>2. Named(i) \in ResponseMessages
  BY <1>1, ResponsesHave, EmptiesAre
<1> QED
  BY <1>1, <1>2, ResponseFields

LEMMA NumberedResponse ==
    ASSUME NEW n \in Int64s, NEW i \in ByteStrings, NEW v, v = set_int_value(EmptyValue, n)
    PROVE  /\ v \in ValueMessages /\ v.case = "int" /\ v.int = n
           /\ Numbered(n, i) = ResponseRecord("return_value", v, <<>>, i)
           /\ Numbered(n, i) \in ResponseMessages
<1>1. v = [case |-> "int", string |-> <<>>, int |-> n, uint |-> 0]
  BY SettersGive
<1>2. v \in ValueMessages
  <2>1. 0 \in Uint64s /\ <<>> \in ByteStrings
    BY PowerIsPositive, EmptiesAre DEF Uint64s
  <2> QED
    BY <1>1, <2>1 DEF ValueMessages
<1>3. Numbered(n, i) = ResponseRecord("return_value", v, <<>>, i)
  BY DEF Numbered, AsReturnValue
<1>4. Numbered(n, i) \in ResponseMessages
  BY <1>2, <1>3, ResponsesHave, EmptiesAre
<1> QED
  BY <1>1, <1>2, <1>3, <1>4

\* process_request's copy of a response is the response.
LEMMA CopiesAre ==
    ASSUME NEW i \in ByteStrings
    PROVE  /\ MergeChannelResponse(EmptyChannelResponse, Named(i)) = Named(i)
           /\ \A n \in Int64s :
                MergeChannelResponse(EmptyChannelResponse, Numbered(n, i)) = Numbered(n, i)
<1>1. PICK z : z = EmptyChannelResponse /\ z = ResponseRecord("none", EmptyValue, <<>>, <<>>)
               /\ z \in ResponseMessages
  BY NamedResponse, EmptiesAre
<1>2. PICK q : q = IF i # <<>> THEN [z EXCEPT !.assigned_id = i] ELSE z
  OBVIOUS
<1>3. q = ResponseRecord("none", EmptyValue, <<>>, i) /\ q.assigned_id = i
  BY <1>1, <1>2, ResponseChanges, ResponseFields
<1>4. MergeChannelResponse(z, Named(i)) = q
  <2>1. Named(i).case = "none" /\ Named(i).assigned_id = i
    BY NamedResponse, ResponseFields
  <2> QED
    BY <1>2, <2>1 DEF MergeChannelResponse
<1>5. ASSUME NEW n \in Int64s PROVE MergeChannelResponse(z, Numbered(n, i)) = Numbered(n, i)
  <2>1. PICK v : v = set_int_value(EmptyValue, n) /\ v.case = "int"
                 /\ Numbered(n, i) = ResponseRecord("return_value", v, <<>>, i)
    BY NumberedResponse
  <2>2. PICK w : w = Numbered(n, i) /\ w.case = "return_value" /\ w.assigned_id = i
                 /\ w.return_value = v
    BY <2>1, ResponseFields
  <2>3. MergeChannelResponse(z, w) = set_return_value(q, MergeValue(return_value(z), v))
    BY <1>2, <2>2 DEF MergeChannelResponse
  <2>4. MergeValue(return_value(z), v) = v
    BY <2>1 DEF MergeValue
  <2>5. set_return_value(q, v) = AsReturnValue(v, i)
    BY <1>3, ResultsAreSet
  <2> QED
    BY <2>1, <2>2, <2>3, <2>4, <2>5 DEF AsReturnValue
<1> QED
  BY <1>1, <1>3, <1>4, <1>5, NamedResponse

\* The response with what a handler returned.
LEMMA ResponsesAre ==
    ASSUME NEW m, NEW n \in Int64s, NEW i \in ByteStrings, resp = Named(i)
    PROVE  ResponseOf(m, n) = IF m.result = "number" THEN Numbered(n, i) ELSE Named(i)
<1>1. CASE m.result = "number"
  <2>1. return_value(resp) = EmptyValue
    BY NamedResponse, ReturnValueIs, ResponseFields
  <2>2. set_return_value(resp, set_int_value(EmptyValue, n)) = Numbered(n, i)
    BY NamedResponse, ResultsAreSet DEF Numbered
  <2> QED
    BY <1>1, <2>1, <2>2, CopiesAre DEF ResponseOf
<1>2. CASE m.result # "number"
  BY <1>2, CopiesAre DEF ResponseOf
<1> QED
  BY <1>1, <1>2

\* What the wrapper makes of the bytes of a response.
LEMMA ResponsesArrive ==
    ASSUME NEW i \in ByteStrings
    PROVE  /\ Converted(ParseChannelResponse(ChannelResponseBytes(Named(i))).message)
                = [kind |-> "object", number |-> 0, id |-> i]
           /\ \A n \in Int64s :
                Converted(ParseChannelResponse(ChannelResponseBytes(Numbered(n, i))).message)
                  = [kind |-> "number", number |-> n, id |-> i]
<1>1. EmptyChannelResponse \in ResponseMessages
  BY NamedResponse, EmptiesAre
<1>2. ASSUME NEW w \in ResponseMessages,
             MergeChannelResponse(EmptyChannelResponse, w) = w
      PROVE  ParseChannelResponse(ChannelResponseBytes(w)).message = w
  <2>1. Takes("ChannelResponse", ChannelResponseBytes(w), Read(EmptyChannelResponse), Read(w))
    BY <1>1, <1>2, ResponseTakes
  <2>2. ParseChannelResponse(ChannelResponseBytes(w)) = Read(w)
    BY <2>1, TakesReads, ParsersAre
  <2> QED
    BY <2>2 DEF Read
<1>3. Converted(ParseChannelResponse(ChannelResponseBytes(Named(i))).message)
        = [kind |-> "object", number |-> 0, id |-> i]
  <2>1. PICK w : w = Named(i) /\ w \in ResponseMessages /\ w.case = "none" /\ w.assigned_id = i
                 /\ MergeChannelResponse(EmptyChannelResponse, w) = w
    BY NamedResponse, ResponseFields, CopiesAre
  <2>2. ParseChannelResponse(ChannelResponseBytes(w)).message = w
    BY <1>2, <2>1
  <2>3. Converted(w) = [kind |-> "object", number |-> 0, id |-> i]
    BY <2>1 DEF Converted
  <2> QED
    BY <2>1, <2>2, <2>3
<1>4. ASSUME NEW n \in Int64s
      PROVE  Converted(ParseChannelResponse(ChannelResponseBytes(Numbered(n, i))).message)
               = [kind |-> "number", number |-> n, id |-> i]
  <2>1. PICK v : v = set_int_value(EmptyValue, n) /\ v.case = "int" /\ v.int = n
                 /\ Numbered(n, i) = ResponseRecord("return_value", v, <<>>, i)
                 /\ Numbered(n, i) \in ResponseMessages
    BY NumberedResponse
  <2>2. PICK w : w = Numbered(n, i) /\ w \in ResponseMessages /\ w.case = "return_value"
                 /\ w.return_value = v /\ w.assigned_id = i
    BY <2>1, ResponseFields
  <2>3. MergeChannelResponse(EmptyChannelResponse, w) = w
    BY <2>2, CopiesAre
  <2>4. ParseChannelResponse(ChannelResponseBytes(w)).message = w
    BY <1>2, <2>2, <2>3
  <2>5. Converted(w) = [kind |-> "number", number |-> n, id |-> i]
    BY <2>1, <2>2 DEF Converted, has_int_value, int_value
  <2> QED
    BY <2>2, <2>4, <2>5
<1> QED
  BY <1>3, <1>4

-----------------------------------------------------------------------------
(* The handlers of the requests.                                           *)

LEMMA MethodIs ==
    ASSUME NEW m \in Methods
    PROVE  /\ m.name \in Texts /\ m.type \in Texts /\ m.object \in BOOLEAN
           /\ m.params \in Seq(Parameters) /\ m.result \in Results /\ m.byName \in BOOLEAN
           /\ m.byName => m.object /\ m.params = <<>>
BY TransferAssumption

\* A method call that arrives whole has the handler of its method.
LEMMA WholeHandlers ==
    ASSUME call \in MethodCalls, rq = RequestProto(call)
    PROVE  Request = MethodCallProto(call) /\ Handlers(Request) = {call.method}
<1>1. PICK w : w = MethodCallProto(call)
  OBVIOUS
<1>2. /\ w \in MethodCallMessages /\ w.methodname = call.method.name
      /\ w.type = call.method.type /\ call.method \in Methods
  BY <1>1, MethodCallIs
<1>3. rq = AsMethodCall(w, <<>>)
  BY <1>1, RequestIsMethodCall
<1>4. method_call(rq) = w
  BY <1>3, RequestFields DEF AsMethodCall, method_call
<1>5. Request = w
  BY <1>2, <1>4, MergedCallIs DEF Request
<1>6. ASSUME NEW m \in Handlers(w) PROVE m = call.method
  <2>1. m \in Methods /\ m.name = call.method.name /\ (m.byName \/ m.type = call.method.type)
    BY <1>2 DEF Handlers
  <2> QED
    BY <1>2, <2>1, HandlersDiffer
<1>7. call.method \in Handlers(w)
  BY <1>2 DEF Handlers
<1> QED
  BY <1>1, <1>5, <1>6, <1>7

\* A handler that runs with a call that was cut is the one that needs no type, and finds
\* the object of the call.
LEMMA CutHandlers ==
    ASSUME call \in MethodCalls \cup Imports, CutRequest(call, rq), rq.case = "method_call",
           NEW m \in Handlers(Request), Lookups(m, Request) \subseteq persistence,
           persistence \subseteq Texts
    PROVE  Faithful(Request)
<1>1. call \in MethodCalls
  BY DEF CutRequest, Imports
<1>2. call.kind = "method"
  BY <1>1 DEF MethodCalls
<1>3. PICK w : w = rq.method_call
  OBVIOUS
<1>4. /\ w.type \notin Texts
      /\ w.methodname \in Texts => w.methodname = call.method.name
      /\ w.object_id \in Texts => w.object_id = call.objectID
      /\ call.method.params = <<>> => w.arg = <<>>
  BY <1>2, <1>3 DEF CutRequest
<1>5. call.method \in Methods
  BY <1>1 DEF MethodCalls
<1>6. PICK r : r = Request
  OBVIOUS
<1>7. /\ r.methodname = w.methodname /\ r.object_id = w.object_id /\ r.type = w.type
      /\ w.arg = <<>> => r.arg = <<>>
  <2>1. method_call(rq) = w
    BY <1>3 DEF method_call
  <2>2. r = MergeMethodCallRequest(EmptyMethodCallRequest, w)
    BY <1>6, <2>1 DEF Request
  <2>3. /\ EmptyMethodCallRequest.methodname = <<>> /\ EmptyMethodCallRequest.object_id = <<>>
        /\ EmptyMethodCallRequest.type = <<>> /\ EmptyMethodCallRequest.arg = <<>>
    BY DEF EmptyMethodCallRequest
  <2>4. /\ r.methodname = IF w.methodname # <<>> THEN w.methodname ELSE <<>>
        /\ r.object_id = IF w.object_id # <<>> THEN w.object_id ELSE <<>>
        /\ r.type = IF w.type # <<>> THEN w.type ELSE <<>>
        /\ r.arg = <<>> \o w.arg
    BY <2>2, <2>3 DEF MergeMethodCallRequest
  <2>5. <<>> \o <<>> = <<>>
    OBVIOUS
  <2> QED
    BY <2>4, <2>5
<1>8. ASSUME NEW l \in Handlers(r) PROVE l = call.method /\ l.byName
  <2>1. l \in Methods /\ r.methodname = l.name /\ (l.byName \/ r.type = l.type)
    BY DEF Handlers
  <2>2. l.name \in Texts /\ l.type \in Texts /\ l.byName \in BOOLEAN
    BY <2>1, MethodIs
  <2>3. l.byName /\ l.name = call.method.name
    BY <1>4, <1>7, <2>1, <2>2
  <2> QED
    BY <1>5, <2>1, <2>3, HandlersDiffer
<1>9. m = call.method /\ m.byName /\ m.object /\ m.params = <<>>
  <2>1. m = call.method /\ m.byName
    BY <1>6, <1>8
  <2> QED
    BY <1>5, <2>1, MethodIs
<1>10. Handlers(r) = {call.method}
  BY <1>6, <1>8, <1>9
<1>11. r.object_id = call.objectID
  <2>1. r.object_id \in Lookups(m, r)
    BY <1>9 DEF Lookups
  <2> QED
    BY <1>4, <1>6, <1>7, <2>1
<1>12. DOMAIN r.arg = {} /\ DOMAIN call.args = {}
  <2>1. r.arg = <<>>
    BY <1>4, <1>7, <1>9
  <2>2. DOMAIN call.args = DOMAIN m.params
    BY <1>1, <1>9 DEF MethodCalls
  <2>3. DOMAIN <<>> = {}
    OBVIOUS
  <2> QED
    BY <1>9, <2>1, <2>2, <2>3
<1> QED
  BY <1>6, <1>10, <1>11, <1>12 DEF Faithful

-----------------------------------------------------------------------------
(* The steps.                                                              *)

LEMMA CountersAre ==
    ASSUME NEW n \in FirstId .. FirstId + MaxRequests
    PROVE  n \in 0 .. 99 /\ n \in FirstId .. 99 /\ FirstId \in Nat /\ MaxRequests \in Nat
<1>1. FirstId \in 0 .. 99 /\ MaxRequests \in 0 .. 99 - FirstId
  BY TransferAssumption
<1> QED
  BY <1>1

\* What the wrapper passes is of the kind that the method wants.
LEMMA PassedAre ==
    ASSUME NEW p \in Parameters, NEW a \in Arguments(p), persistence \subseteq Texts
    PROVE  a \in PassedArguments /\ a.kind = p.kind
<1>1. /\ p.kind \in Kinds /\ p.key \in ByteStrings
      /\ Numbers \subseteq Int64s /\ Strings \subseteq ByteStrings
  BY TransferAssumption DEF Parameters
<1>2. Texts \subseteq ByteStrings /\ <<>> \in ByteStrings /\ Int64s \subseteq Int
  BY EmptiesAre DEF Texts, Int64s
<1>3. CASE p.kind = "object"
  <2>1. PICK s \in persistence : a = [kind |-> p.kind, key |-> p.key, number |-> 0, string |-> s]
    BY <1>3 DEF Arguments
  <2> QED
    BY <1>1, <1>2, <1>3, <2>1 DEF PassedArguments
<1>4. CASE p.kind = "number"
  <2>1. PICK n \in Numbers : a = [kind |-> p.kind, key |-> p.key, number |-> n, string |-> <<>>]
    BY <1>4 DEF Arguments
  <2> QED
    BY <1>1, <1>2, <1>4, <2>1 DEF PassedArguments
<1>5. CASE p.kind = "string"
  <2>1. PICK s \in Strings : a = [kind |-> p.kind, key |-> p.key, number |-> 0, string |-> s]
    BY <1>5 DEF Arguments
  <2> QED
    BY <1>1, <1>2, <1>5, <2>1 DEF PassedArguments
<1>6. CASE p.kind = "boolean"
  <2>1. PICK n \in {0, 1} : a = [kind |-> p.kind, key |-> p.key, number |-> n, string |-> <<>>]
    BY <1>6 DEF Arguments
  <2>2. n \in Int
    BY <2>1
  <2> QED
    BY <1>1, <1>2, <1>6, <2>1, <2>2 DEF PassedArguments
<1> QED
  BY <1>1, <1>3, <1>4, <1>5, <1>6 DEF Kinds

LEMMA RequestsAreBytes ==
    ASSUME NEW c \in MethodCalls \cup Imports
    PROVE  /\ RequestBytes(RequestProto(c)) \in Seq(Nat)
           /\ RequestProto(c).assigned_id = <<>>
           /\ c.kind \in {"method", "import"}
<1>1. CASE c \in MethodCalls
  <2>1. PICK w : w = MethodCallProto(c)
    OBVIOUS
  <2>2. PICK x, n : x = MethodCallRequestBytes(w) /\ n = MethodCallRequestSize(w)
    OBVIOUS
  <2>3. /\ RequestProto(c) = AsMethodCall(w, <<>>)
        /\ RequestBytes(RequestProto(c)) = PutMessage(1, n, x)
        /\ x \in Seq(Nat) /\ n = Len(x)
    BY <1>1, <2>1, <2>2, RequestIsMethodCall
  <2>4. Encodes(PutMessage(1, n, x), <<[tag |-> Tag(1, Delimited), bytes |-> x]>>)
    BY <2>3, MessageEncodes
  <2>5. AsMethodCall(w, <<>>).assigned_id = <<>>
    BY RequestFields DEF AsMethodCall
  <2> QED
    BY <1>1, <2>3, <2>4, <2>5 DEF Encodes, MethodCalls
<1>2. CASE c \in Imports
  <2>1. PICK w : w = [imported_name |-> c.name]
    OBVIOUS
  <2>2. PICK x, n : x = ImportRequestBytes(w) /\ n = ImportRequestSize(w)
    OBVIOUS
  <2>3. /\ RequestProto(c) = AsImport(w, <<>>)
        /\ RequestBytes(RequestProto(c)) = PutMessage(2, n, x)
        /\ x \in Seq(Nat) /\ n = Len(x)
    BY <1>2, <2>1, <2>2, RequestIsImport
  <2>4. Encodes(PutMessage(2, n, x), <<[tag |-> Tag(2, Delimited), bytes |-> x]>>)
    BY <2>3, MessageEncodes
  <2>5. AsImport(w, <<>>).assigned_id = <<>>
    BY RequestFields DEF AsImport
  <2> QED
    BY <1>2, <2>3, <2>4, <2>5 DEF Encodes, Imports
<1> QED
  BY <1>1, <1>2

\* CutCallsUnchanged is about these variables.
LEMMA CallsStay ==
    ASSUME CutCallsUnchanged, UNCHANGED <<cut, outcome, call, rq>> PROVE CutCallsUnchanged'
BY DEF CutCallsUnchanged, Faithful, Handlers, Request, ArgumentArrives

LEMMA InitHolds == Init => TransferInv
<1>1. SUFFICES ASSUME Init PROVE TransferInv
  OBVIOUS
<1>2. /\ phase = "idle" /\ calls = 0 /\ call = Nothing /\ bytes = <<>> /\ cut = FALSE
      /\ counter = FirstId /\ persistence = FirstObjects /\ outcome = Nothing
      /\ result = Nothing
  BY <1>1 DEF Init
<1>3. FirstId \in Nat /\ MaxRequests \in Nat
  BY TransferAssumption
<1>4. TypeOK
  <2>1. bytes \in Seq(Nat) /\ Nothing.kind = "nothing"
    BY <1>2 DEF Nothing
  <2>2. counter \in FirstId .. FirstId + MaxRequests /\ calls \in 0 .. MaxRequests
    BY <1>2, <1>3
  <2>3. persistence \subseteq IdsBelow(counter)
    BY <1>2 DEF IdsBelow
  <2> QED
    BY <1>2, <2>1, <2>2, <2>3 DEF TypeOK, Phases, IdsBelow
<1>5. ResultArrives /\ CutCallsUnchanged
  BY <1>2 DEF ResultArrives, CutCallsUnchanged
<1> QED
  BY <1>2, <1>3, <1>4, <1>5 DEF TransferInv

\* The wrapper's step, for a call of the wrapper.
LEMMA MakeKeeps ==
    ASSUME TransferInv, NEW c \in MethodCalls \cup Imports, MakeRequest(c)
    PROVE  TransferInv'
<1>1. /\ phase = "idle" /\ calls < MaxRequests
      /\ calls' = calls + 1 /\ call' = c /\ bytes' = RequestBytes(RequestProto(c))
      /\ phase' = "sent" /\ outcome' = Nothing /\ result' = Nothing
      /\ UNCHANGED <<cut, rq, id, counter, persistence, resp>>
  BY DEF MakeRequest
<1>2. TypeOK /\ counter = FirstId + calls
  BY <1>1 DEF TransferInv
<1>3. FirstId \in Nat /\ MaxRequests \in Nat /\ calls \in 0 .. MaxRequests
  BY <1>2, TransferAssumption DEF TypeOK
<1>4. Nothing.kind = "nothing"
  BY DEF Nothing
<1>5. calls' \in 0 .. MaxRequests /\ calls' > 0 /\ counter' = FirstId + calls' - 1
  BY <1>1, <1>2, <1>3
<1>6. TypeOK'
  <2>1. bytes' \in Seq(Nat) /\ call'.kind \in {"nothing", "method", "import"}
    BY <1>1, RequestsAreBytes
  <2> QED
    BY <1>1, <1>2, <1>4, <1>5, <2>1 DEF TypeOK, Phases
<1>7. ResultArrives' /\ CutCallsUnchanged'
  BY <1>1, <1>4 DEF ResultArrives, CutCallsUnchanged
<1>8. call' \in MethodCalls \cup Imports /\ bytes' = RequestBytes(RequestProto(call'))
  BY <1>1
<1> QED
  BY <1>1, <1>5, <1>6, <1>7, <1>8 DEF TransferInv

\* What CallMethod makes is a call of the wrapper.
LEMMA CallKeeps == ASSUME TransferInv, CallMethod PROVE TransferInv'
<1>1. PICK m \in Methods :
        \E object \in IF m.object THEN persistence ELSE {<<>>} :
            \E args \in [DOMAIN m.params ->
                            UNION {Arguments(m.params[i]) : i \in DOMAIN m.params}] :
                /\ \A i \in DOMAIN m.params : args[i] \in Arguments(m.params[i])
                /\ MakeRequest([kind |-> "method", method |-> m, objectID |-> object,
                                args |-> args])
  BY DEF CallMethod
<1>2. PICK object \in IF m.object THEN persistence ELSE {<<>>} :
            \E args \in [DOMAIN m.params ->
                            UNION {Arguments(m.params[i]) : i \in DOMAIN m.params}] :
                /\ \A i \in DOMAIN m.params : args[i] \in Arguments(m.params[i])
                /\ MakeRequest([kind |-> "method", method |-> m, objectID |-> object,
                                args |-> args])
  BY <1>1
<1>3. PICK args \in [DOMAIN m.params ->
                        UNION {Arguments(m.params[i]) : i \in DOMAIN m.params}] :
                /\ \A i \in DOMAIN m.params : args[i] \in Arguments(m.params[i])
                /\ MakeRequest([kind |-> "method", method |-> m, objectID |-> object,
                                args |-> args])
  BY <1>2
<1>4. PICK c : c = [kind |-> "method", method |-> m, objectID |-> object, args |-> args]
  OBVIOUS
<1>5. persistence \subseteq Texts
  <2>1. counter \in FirstId .. FirstId + MaxRequests /\ persistence \subseteq IdsBelow(counter)
    BY DEF TransferInv, TypeOK, IdsBelow
  <2>2. counter \in FirstId .. 99
    BY <2>1, CountersAre
  <2> QED
    BY <2>1, <2>2, NextIdIsFresh
<1>6. object \in ByteStrings /\ (m.object => object \in Texts)
  BY <1>5, EmptiesAre DEF Texts
<1>7. m.params \in Seq(Parameters)
  BY MethodIs
<1>8. \A i \in DOMAIN m.params :
        args[i] \in PassedArguments /\ args[i].kind = m.params[i].kind
  <2> TAKE i \in DOMAIN m.params
  <2>1. m.params[i] \in Parameters /\ args[i] \in Arguments(m.params[i])
    BY <1>3, <1>7
  <2> QED
    BY <1>5, <2>1, PassedAre
<1>9. DOMAIN args = DOMAIN m.params /\ args \in Seq(PassedArguments)
  <2>1. PICK n \in Nat : DOMAIN m.params = 1 .. n
    BY <1>7
  <2>2. args \in [1 .. n -> PassedArguments]
    BY <1>8, <2>1
  <2> QED
    BY <2>1, <2>2
<1>10. c \in MethodCalls
  <2>1. c \in [kind : {"method"}, method : Methods, objectID : ByteStrings,
               args : Seq(PassedArguments)]
    BY <1>4, <1>6, <1>9
  <2> QED
    BY <1>4, <1>6, <1>8, <1>9, <2>1 DEF MethodCalls
<1> QED
  BY <1>3, <1>4, <1>10, MakeKeeps

LEMMA ImportKeeps == ASSUME TransferInv, Import PROVE TransferInv'
<1>1. PICK name \in Names : MakeRequest([kind |-> "import", name |-> name])
  BY DEF Import
<1>2. [kind |-> "import", name |-> name] \in Imports
  BY DEF Imports
<1> QED
  BY <1>1, <1>2, MakeKeeps

\* The receiver reads a frame, whole or cut, and chooses the next id.
LEMMA ReadKeeps ==
    ASSUME TransferInv, NEW n \in DOMAIN bytes, ReadFrame(n)
    PROVE  TransferInv'
<1>1. /\ phase = "sent" /\ cut' = (n < Len(bytes))
      /\ rq' = ParseRequest(Received(n)).message
      /\ rq'.assigned_id = <<>> => id' = Decimal(counter) /\ counter' = counter + 1
      /\ resp' = Named(id')
      /\ phase' = "read" /\ bytes' = <<>>
      /\ UNCHANGED <<calls, call, persistence, outcome, result>>
  BY DEF ReadFrame, ChooseId, wrapperVars, Named
<1>2. /\ TypeOK /\ calls > 0 /\ call \in MethodCalls \cup Imports
      /\ counter = FirstId + calls - 1 /\ bytes = RequestBytes(RequestProto(call))
      /\ outcome = Nothing
  BY <1>1 DEF TransferInv
<1>3. PICK c, f : c = call /\ f = bytes /\ f = RequestBytes(RequestProto(c))
  BY <1>2
<1>4. f \in Seq(Nat) /\ n \in 1 .. Len(f)
  BY <1>2, <1>3 DEF TypeOK
<1>5. Received(n) = CutAt(f, n)
  BY <1>3 DEF Received, CutAt
<1>6. /\ rq'.assigned_id = <<>>
      /\ IF cut' THEN CutRequest(c, rq') ELSE rq' = RequestProto(c)
  <2>1. CASE n < Len(f)
    <3>1. n \in Nat /\ 0 < n
      BY <1>4
    <3>2. PICK r : r = ParseRequest(CutAt(f, n)).message
      OBVIOUS
    <3>3. r.assigned_id = <<>> /\ CutRequest(c, r)
      BY <1>2, <1>3, <2>1, <3>1, <3>2, CutRequestIs
    <3> QED
      BY <1>1, <1>3, <1>5, <2>1, <3>2, <3>3
  <2>2. CASE ~ (n < Len(f))
    <3>1. CutAt(f, n) = f
      BY <1>4, <2>2 DEF CutAt
    <3>2. ParseRequest(f) = Read(RequestProto(c))
      BY <1>2, <1>3, WholeRequest
    <3>3. rq' = RequestProto(c)
      BY <1>1, <1>5, <3>1, <3>2 DEF Read
    <3> QED
      BY <1>1, <1>2, <1>3, <2>2, <3>3, RequestsAreBytes
  <2> QED
    BY <2>1, <2>2
<1>7. id' = Decimal(counter) /\ counter' = counter + 1
  BY <1>1, <1>6
<1>8. /\ calls \in 1 .. MaxRequests /\ FirstId \in Nat /\ MaxRequests \in Nat
      /\ counter \in FirstId .. 99
  <2>1. calls \in 0 .. MaxRequests /\ counter \in FirstId .. FirstId + MaxRequests
    BY <1>2 DEF TypeOK
  <2> QED
    BY <1>2, <2>1, CountersAre
<1>9. /\ counter' = FirstId + calls' /\ counter' - 1 = counter
      /\ counter' \in FirstId .. FirstId + MaxRequests
  BY <1>1, <1>2, <1>7, <1>8
<1>10. persistence' \subseteq IdsBelow(counter' - 1) /\ persistence' \subseteq IdsBelow(counter')
  <2>1. persistence \subseteq IdsBelow(counter)
    BY <1>2 DEF TypeOK, IdsBelow
  <2>2. IdsBelow(counter + 1) = IdsBelow(counter) \cup {Decimal(counter)}
    BY <1>8, IdsGrow
  <2> QED
    BY <1>1, <1>7, <1>9, <2>1, <2>2
<1>11. TypeOK'
  <2>1. cut' \in BOOLEAN /\ bytes' \in Seq(Nat)
    BY <1>1
  <2> QED
    BY <1>1, <1>2, <1>9, <1>10, <2>1 DEF TypeOK, Phases, IdsBelow
<1>12. ResultArrives' /\ CutCallsUnchanged'
  <2>1. outcome'.kind = "nothing"
    BY <1>1, <1>2 DEF Nothing
  <2> QED
    BY <1>1, <2>1 DEF ResultArrives, CutCallsUnchanged
<1>13. IF cut' THEN CutRequest(call', rq') ELSE rq' = RequestProto(call')
  BY <1>1, <1>3, <1>6
<1>14. /\ calls' > 0 /\ call' \in MethodCalls \cup Imports /\ outcome' = Nothing
       /\ id' = Decimal(counter' - 1)
  BY <1>1, <1>2, <1>7, <1>9
<1> QED
  BY <1>1, <1>9, <1>10, <1>11, <1>12, <1>13, <1>14 DEF TransferInv

\* The id of the request that is being answered.
LEMMA IdIsText ==
    ASSUME TypeOK, calls > 0, counter = FirstId + calls, id = Decimal(counter - 1)
    PROVE  id \in Texts /\ id \in ByteStrings
<1>1. calls \in 0 .. MaxRequests /\ counter \in FirstId .. FirstId + MaxRequests
  BY DEF TypeOK
<1>2. counter \in 0 .. 99 /\ FirstId \in Nat
  BY <1>1, CountersAre
<1>3. counter - 1 \in 0 .. 99
  BY <1>1, <1>2
<1> QED
  BY <1>3, DecimalIsText DEF Texts

LEMMA ResponseIsBytes ==
    ASSUME NEW w \in ResponseMessages PROVE ChannelResponseBytes(w) \in Seq(Nat)
BY ResponseTakes, NamedResponse, EmptiesAre, TakesBytes

\* What holds of a request that the receiver has read.
LEMMA ReadingIs ==
    ASSUME TransferInv, phase = "read"
    PROVE  /\ TypeOK /\ CutCallsUnchanged /\ calls > 0 /\ call \in MethodCalls \cup Imports
           /\ counter = FirstId + calls /\ id = Decimal(counter - 1)
           /\ id \in Texts /\ id \in ByteStrings /\ id \notin persistence
           /\ persistence \subseteq Texts /\ persistence \subseteq IdsBelow(counter)
           /\ id \in IdsBelow(counter)
           /\ resp = Named(id) /\ outcome = Nothing
           /\ IF cut THEN CutRequest(call, rq) ELSE rq = RequestProto(call)
<1>1. /\ TypeOK /\ CutCallsUnchanged /\ calls > 0 /\ call \in MethodCalls \cup Imports
      /\ counter = FirstId + calls /\ id = Decimal(counter - 1)
      /\ persistence \subseteq IdsBelow(counter - 1)
      /\ resp = Named(id) /\ outcome = Nothing
      /\ IF cut THEN CutRequest(call, rq) ELSE rq = RequestProto(call)
  BY DEF TransferInv
<1>2. calls \in 0 .. MaxRequests /\ counter \in FirstId .. FirstId + MaxRequests
  BY <1>1 DEF TypeOK
<1>3. PICK n : n = counter - 1
  OBVIOUS
<1>4. n \in FirstId .. 99 /\ n \in 0 .. 99 /\ n + 1 = counter
  <2>1. counter \in 0 .. 99 /\ FirstId \in Nat
    BY <1>2, CountersAre
  <2> QED
    BY <1>1, <1>2, <1>3, <2>1
<1>5. id \notin IdsBelow(n) /\ IdsBelow(n) \subseteq Texts /\ id \in Texts
  BY <1>1, <1>3, <1>4, NextIdIsFresh, DecimalIsText
<1>6. IdsBelow(counter) = IdsBelow(n) \cup {id}
  BY <1>1, <1>3, <1>4, IdsGrow
<1> QED
  BY <1>1, <1>3, <1>5, <1>6 DEF Texts

LEMMA SkipKeeps == ASSUME TransferInv, SkipRequest PROVE TransferInv'
<1>1. /\ phase = "read" /\ phase' = "executed"
      /\ UNCHANGED <<calls, call, bytes, cut, rq, id, counter, persistence, resp, outcome,
                     result>>
  BY DEF SkipRequest, wrapperVars, receiverVars
<1>2. /\ TypeOK /\ CutCallsUnchanged /\ calls > 0 /\ call \in MethodCalls \cup Imports
      /\ counter = FirstId + calls /\ id = Decimal(counter - 1) /\ id \notin persistence
      /\ resp = Named(id) /\ outcome = Nothing
  BY <1>1, ReadingIs
<1>3. TypeOK'
  BY <1>1, <1>2 DEF TypeOK, Phases
<1>4. ResponseTells'
  <2>1. outcome'.kind = "nothing"
    BY <1>1, <1>2 DEF Nothing
  <2> QED
    BY <1>1, <1>2, <2>1 DEF ResponseTells
<1>5. CutCallsUnchanged' /\ ResultArrives'
  BY <1>1, <1>2, CallsStay DEF ResultArrives
<1> QED
  BY <1>1, <1>2, <1>3, <1>4, <1>5 DEF TransferInv

\* The receiver ends.
LEMMA EndKeeps ==
    ASSUME TransferInv, phase = "read", phase' = "ended",
           UNCHANGED <<wrapperVars, bytes, receiverVars, result>>
    PROVE  TransferInv'
<1>1. UNCHANGED <<calls, call, bytes, cut, rq, id, counter, persistence, resp, outcome,
                  result>>
  BY DEF wrapperVars, receiverVars
<1>2. /\ TypeOK /\ CutCallsUnchanged /\ calls > 0 /\ call \in MethodCalls \cup Imports
      /\ counter = FirstId + calls
  BY ReadingIs
<1>3. TypeOK'
  BY <1>1, <1>2 DEF TypeOK, Phases
<1>4. CutCallsUnchanged' /\ ResultArrives'
  BY <1>1, <1>2, CallsStay DEF ResultArrives
<1> QED
  BY <1>1, <1>2, <1>3, <1>4 DEF TransferInv

\* A handler runs.
LEMMA ExecuteKeeps ==
    ASSUME TransferInv, NEW m \in Methods, NEW n \in Numbers, Execute(m, n)
    PROVE  TransferInv'
<1>1. /\ phase = "read" /\ rq.case = "method_call" /\ m \in Handlers(Request)
      /\ Lookups(m, Request) \subseteq persistence
      /\ persistence' = persistence \cup {id : o \in {m.result} \cap {"object"}}
      /\ resp' = ResponseOf(m, n)
      /\ outcome' = IF m.result = "number" THEN [kind |-> "number", number |-> n, id |-> id]
                    ELSE [kind |-> m.result, number |-> 0, id |-> id]
      /\ phase' = "executed"
      /\ UNCHANGED <<calls, call, bytes, cut, rq, id, counter, result>>
  BY DEF Execute, Found, wrapperVars
<1>2. /\ TypeOK /\ CutCallsUnchanged /\ calls > 0 /\ call \in MethodCalls \cup Imports
      /\ counter = FirstId + calls /\ id = Decimal(counter - 1)
      /\ id \in ByteStrings /\ id \notin persistence
      /\ persistence \subseteq Texts /\ persistence \subseteq IdsBelow(counter)
      /\ id \in IdsBelow(counter) /\ resp = Named(id)
      /\ IF cut THEN CutRequest(call, rq) ELSE rq = RequestProto(call)
  BY <1>1, ReadingIs
<1>3. n \in Int64s /\ m.result \in Results
  BY MethodIs, TransferAssumption
<1>4. resp' = IF m.result = "number" THEN Numbered(n, id) ELSE Named(id)
  BY <1>1, <1>2, <1>3, ResponsesAre
<1>5. persistence' = IF m.result = "object" THEN persistence \cup {id} ELSE persistence
  BY <1>1
<1>6. /\ outcome'.kind = m.result /\ outcome'.id = id
      /\ m.result = "number" => outcome'.number = n
  BY <1>1
<1>7. TypeOK'
  <2>1. persistence' \subseteq IdsBelow(counter')
    BY <1>1, <1>2, <1>5
  <2> QED
    BY <1>1, <1>2, <1>3, <1>6, <2>1 DEF TypeOK, Phases, IdsBelow
<1>8. ResponseTells'
  BY <1>1, <1>2, <1>3, <1>4, <1>5, <1>6 DEF ResponseTells, Results
<1>9. CutCallsUnchanged'
  <2>1. cut => Faithful(Request)
    <3>1. SUFFICES ASSUME cut PROVE Faithful(Request)
      OBVIOUS
    <3>2. CutRequest(call, rq)
      BY <1>2, <3>1
    <3> QED
      BY <1>1, <1>2, <3>2, CutHandlers
  <2>2. cut' = cut /\ Faithful(Request)' = Faithful(Request)
    BY <1>1 DEF Faithful, Handlers, Request, ArgumentArrives
  <2> QED
    BY <2>1, <2>2 DEF CutCallsUnchanged
<1>10. ResultArrives'
  BY <1>1 DEF ResultArrives
<1> QED
  BY <1>1, <1>2, <1>7, <1>8, <1>9, <1>10 DEF TransferInv

LEMMA RespondKeeps == ASSUME TransferInv, Respond PROVE TransferInv'
<1>1. /\ phase = "executed" /\ phase' = "responded" /\ bytes' = ChannelResponseBytes(resp)
      /\ UNCHANGED <<calls, call, cut, rq, id, counter, persistence, resp, outcome, result>>
  BY DEF Respond, wrapperVars, receiverVars
<1>2. /\ TypeOK /\ CutCallsUnchanged /\ calls > 0 /\ call \in MethodCalls \cup Imports
      /\ counter = FirstId + calls /\ id = Decimal(counter - 1) /\ ResponseTells
  BY <1>1 DEF TransferInv
<1>3. id \in ByteStrings
  BY <1>2, IdIsText
<1>4. resp \in ResponseMessages
  BY <1>2, <1>3, NamedResponse, NumberedResponse DEF ResponseTells
<1>5. ChannelResponseBytes(resp) \in Seq(Nat)
  BY <1>4, ResponseIsBytes
<1>6. TypeOK'
  BY <1>1, <1>2, <1>5 DEF TypeOK, Phases
<1>7. ResponseTells'
  BY <1>1, <1>2 DEF ResponseTells
<1>8. CutCallsUnchanged' /\ ResultArrives'
  BY <1>1, <1>2, CallsStay DEF ResultArrives
<1>9. bytes' = ChannelResponseBytes(resp')
  BY <1>1
<1> QED
  BY <1>1, <1>2, <1>6, <1>7, <1>8, <1>9 DEF TransferInv

LEMMA EmptyIsBytes == <<>> \in Seq(Nat)
OBVIOUS

LEMMA ReceiveKeeps == ASSUME TransferInv, ReadResponse PROVE TransferInv'
<1>1. /\ phase = "responded" /\ phase' \in {"out of step", "idle"} /\ bytes' = <<>>
      /\ result' = Converted(ParseChannelResponse(bytes).message)
      /\ UNCHANGED <<calls, call, cut, rq, id, counter, persistence, resp, outcome>>
  BY DEF ReadResponse, wrapperVars, receiverVars
<1>2. /\ TypeOK /\ CutCallsUnchanged /\ calls > 0 /\ call \in MethodCalls \cup Imports
      /\ counter = FirstId + calls /\ id = Decimal(counter - 1) /\ ResponseTells
      /\ bytes = ChannelResponseBytes(resp)
  BY <1>1 DEF TransferInv
<1>3. id \in ByteStrings
  BY <1>2, IdIsText
<1>4. PICK r : r = Converted(ParseChannelResponse(ChannelResponseBytes(resp)).message)
  OBVIOUS
<1>5. /\ resp = Named(id) => r = [kind |-> "object", number |-> 0, id |-> id]
      /\ \A n \in Int64s :
            resp = Numbered(n, id) => r = [kind |-> "number", number |-> n, id |-> id]
  BY <1>3, <1>4, ResponsesArrive
<1>6. result' = r
  BY <1>1, <1>2, <1>4
<1>7. bytes' \in Seq(Nat)
  <2>1. bytes' = <<>> /\ <<>> \in Seq(Nat)
    BY <1>1, EmptyIsBytes
  <2> QED
    BY <2>1
<1>8. CASE outcome.kind = "number"
  <2>1. r = [kind |-> "number", number |-> outcome.number, id |-> id]
    BY <1>2, <1>5, <1>8 DEF ResponseTells
  <2>2. result'.kind = "number" /\ result'.number = outcome.number
    BY <1>6, <2>1
  <2>3. TypeOK'
    BY <1>1, <1>2, <1>7, <2>2 DEF TypeOK, Phases
  <2>4. ResultArrives'
    BY <1>1, <1>8, <2>2 DEF ResultArrives
  <2>5. CutCallsUnchanged'
    BY <1>1, <1>2, CallsStay
  <2> QED
    BY <1>1, <1>2, <2>3, <2>4, <2>5 DEF TransferInv
<1>9. CASE outcome.kind # "number"
  <2>1. /\ r = [kind |-> "object", number |-> 0, id |-> id]
        /\ IF outcome.kind = "object" THEN outcome.id = id /\ id \in persistence
           ELSE id \notin persistence
    BY <1>2, <1>5, <1>9 DEF ResponseTells
  <2>2. result'.kind = "object" /\ result'.id = id
    BY <1>6, <2>1
  <2>3. TypeOK'
    BY <1>1, <1>2, <1>7, <2>2 DEF TypeOK, Phases
  <2>4. ResultArrives'
    BY <1>1, <1>9, <2>1, <2>2 DEF ResultArrives
  <2>5. CutCallsUnchanged'
    BY <1>1, <1>2, CallsStay
  <2> QED
    BY <1>1, <1>2, <2>3, <2>4, <2>5 DEF TransferInv
<1> QED
  BY <1>8, <1>9

-----------------------------------------------------------------------------
(* The theorems.                                                           *)

\* The inductive invariant: while a request is on its way, its bytes are those of a call of
\* the wrapper; a request that was read is this call, or what a cut leaves of it; and the
\* response tells what the handler did.
LEMMA TransferInvHolds == Spec => []TransferInv
<1>1. Init => TransferInv
  BY InitHolds
<1>2. TransferInv /\ [Next]_vars => TransferInv'
  <2>1. SUFFICES ASSUME TransferInv, [Next]_vars PROVE TransferInv'
    OBVIOUS
  <2>2. CASE CallMethod
    BY <2>1, <2>2, CallKeeps
  <2>3. CASE Import
    BY <2>1, <2>3, ImportKeeps
  <2>4. CASE \E n \in DOMAIN bytes : ReadFrame(n)
    BY <2>1, <2>4, ReadKeeps
  <2>5. CASE SkipRequest
    BY <2>1, <2>5, SkipKeeps
  <2>6. CASE NoHandler
    BY <2>1, <2>6, EndKeeps DEF NoHandler
  <2>7. CASE \E m \in Methods : NullDereference(m)
    BY <2>1, <2>7, EndKeeps DEF NullDereference, Found
  <2>8. CASE \E m \in Methods, n \in Numbers : Execute(m, n)
    BY <2>1, <2>8, ExecuteKeeps
  <2>9. CASE Respond
    BY <2>1, <2>9, RespondKeeps
  <2>10. CASE ReadResponse
    BY <2>1, <2>10, ReceiveKeeps
  <2>11. CASE UNCHANGED vars
    <3>1. UNCHANGED <<phase, calls, call, bytes, cut, rq, id, counter, persistence, resp,
                      outcome, result>>
      BY <2>11 DEF vars, wrapperVars, receiverVars
    <3>2. TypeOK' = TypeOK /\ ResultArrives' = ResultArrives /\ ResponseTells' = ResponseTells
      BY <3>1 DEF TypeOK, ResultArrives, ResponseTells
    <3>3. CutCallsUnchanged'
      BY <2>1, <3>1, CallsStay DEF TransferInv
    <3> QED
      BY <2>1, <3>1, <3>2, <3>3 DEF TransferInv
  <2> QED
    BY <2>1, <2>2, <2>3, <2>4, <2>5, <2>6, <2>7, <2>8, <2>9, <2>10, <2>11 DEF Next
<1> QED
  BY <1>1, <1>2, PTL DEF Spec

(***************************************************************************)
(* The variables of makeRequest and process_channel have their types; the  *)
(* table of the receiver has only ids that it has given or had before.     *)
(***************************************************************************)
THEOREM TypesHold == Spec => []TypeOK
<1>1. TransferInv => TypeOK
  BY DEF TransferInv
<1> QED
  BY <1>1, TransferInvHolds, PTL

\* What a handler reads of a value that toProtobuf has a branch for.
LEMMA ArgumentsArrive ==
    ASSUME NEW a \in PassedArguments, a.kind # "boolean"
    PROVE  ArgumentArrives(a, ValueProto(a))
<1>1. a.kind \in Kinds
  BY DEF PassedArguments
<1> QED
  BY <1>1, ValueIs DEF ArgumentArrives, Kinds

NoBooleans == call.kind = "method" => \A i \in DOMAIN call.args : call.args[i].kind # "boolean"

(***************************************************************************)
(* A method call that passes no Boolean and arrives whole leads to the     *)
(* handler of the method, and this reads the object and the arguments that *)
(* the wrapper passed: toProtobuf, SerializeToArray, ParseFromArray and    *)
(* the copy of process_channel lose nothing, whatever the texts, the keys  *)
(* and the numbers are.  A Boolean is lost by toProtobuf.                  *)
(***************************************************************************)
THEOREM CallsArrive == Spec => [](NoBooleans => CallArrives)
<1>1. TransferInv => (NoBooleans => CallArrives)
  <2>1. SUFFICES ASSUME TransferInv, NoBooleans, phase = "read", ~cut, call.kind = "method"
                 PROVE  Faithful(Request)
    BY DEF CallArrives
  <2>2. call \in MethodCalls /\ rq = RequestProto(call)
    <3>1. call \in MethodCalls \cup Imports /\ rq = RequestProto(call)
      BY <2>1, ReadingIs
    <3> QED
      BY <2>1, <3>1 DEF Imports
  <2>3. PICK w : w = MethodCallProto(call)
    OBVIOUS
  <2>4. Request = w /\ Handlers(Request) = {call.method}
    BY <2>2, <2>3, WholeHandlers
  <2>5. /\ w.object_id = call.objectID /\ DOMAIN w.arg = DOMAIN call.args
        /\ \A i \in DOMAIN call.args : w.arg[i].value = ValueProto(call.args[i])
        /\ call.method \in Methods
    BY <2>2, <2>3, MethodCallIs
  <2>6. ASSUME NEW i \in DOMAIN call.args
        PROVE  ArgumentArrives(call.args[i], w.arg[i].value)
    <3>1. call.args[i] \in PassedArguments
      BY <2>2 DEF MethodCalls
    <3>2. call.args[i].kind # "boolean"
      BY <2>1 DEF NoBooleans
    <3> QED
      BY <2>5, <3>1, <3>2, ArgumentsArrive
  <2> QED
    BY <2>4, <2>5, <2>6 DEF Faithful
<1> QED
  BY <1>1, TransferInvHolds, PTL

(***************************************************************************)
(* Wherever read_block's single read() cuts a frame: if a handler of the   *)
(* receiver runs and returns, it is the handler of the method that was     *)
(* called, with the object and the arguments of the call.                  *)
(***************************************************************************)
THEOREM CutCallsStay == Spec => []CutCallsUnchanged
<1>1. TransferInv => CutCallsUnchanged
  BY DEF TransferInv
<1> QED
  BY <1>1, TransferInvHolds, PTL

(***************************************************************************)
(* toProcessExchangeResponse gives the wrapper the number that the handler *)
(* returned or the id of the object that it stored, and for what has no    *)
(* result a handle whose id names no object.                               *)
(***************************************************************************)
THEOREM ResultsArrive == Spec => []ResultArrives
<1>1. TransferInv => ResultArrives
  BY DEF TransferInv
<1> QED
  BY <1>1, TransferInvHolds, PTL

(***************************************************************************)
(* The id that process_channel chooses for a request names no object of    *)
(* persistence, so no result replaces another.                             *)
(***************************************************************************)
THEOREM IdsStayFresh == Spec => []IdsFresh
<1>1. TransferInv => IdsFresh
  BY ReadingIs DEF IdsFresh
<1> QED
  BY <1>1, TransferInvHolds, PTL

=============================================================================
