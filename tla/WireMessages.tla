---------------------------- MODULE WireMessages ----------------------------
(***************************************************************************)
(* The messages of the protocol as the generated classes of exchange.pb.cc *)
(* keep, write, measure, read and merge them.  For a class X:              *)
(*   EmptyX      a new or cleared message                                  *)
(*   XBytes(m)   SerializeWithCachedSizes, and its twin for arrays         *)
(*   XSize(m)    ByteSizeLong                                              *)
(*   XField      one round of the loop of MergePartialFromCodedStream      *)
(*   ReadX       the whole loop                                            *)
(*   MergeX      MergeFrom                                                 *)
(* A oneof is a field "case" with a field for each alternative, of which   *)
(* those that are not chosen have their defaults.  Unknown fields are      *)
(* skipped: nothing that was read is written again.  Strings are valid     *)
(* UTF-8, as every string of the wrapper is.                               *)
(***************************************************************************)
EXTENDS WireFormat

-----------------------------------------------------------------------------
(* Value                                                                   *)

EmptyValue == [case |-> "none", string |-> <<>>, int |-> 0, uint |-> 0]

has_string_value(v) == v.case = "string"
has_int_value(v) == v.case = "int"
has_uint_value(v) == v.case = "uint"

\* Mutant: the alternative chosen before is not cleared.
set_int_value_only(v, n) == [v EXCEPT !.case = "int", !.int = n]

\* A setter of one alternative clears the others; the getter of an alternative that
\* is not chosen returns the default.
set_string_value(v, s) == [EmptyValue EXCEPT !.case = "string", !.string = s]
set_int_value(v, n) == [EmptyValue EXCEPT !.case = "int", !.int = n]
set_uint_value(v, n) == [EmptyValue EXCEPT !.case = "uint", !.uint = n]

string_value(v) == IF has_string_value(v) THEN v.string ELSE <<>>
int_value(v) == IF has_int_value(v) THEN v.int ELSE 0
uint_value(v) == IF has_uint_value(v) THEN v.uint ELSE 0

\* Mutant: the string has another field's number.
ValueBytesShifted(v) ==
    If(has_string_value(v), PutString(1, v.string))
        \o If(has_int_value(v), PutFixed(3, v.int))
        \o If(has_uint_value(v), PutFixed(5, v.uint))

ValueBytes(v) ==
    If(has_string_value(v), PutString(2, v.string))
        \o If(has_int_value(v), PutFixed(3, v.int))
        \o If(has_uint_value(v), PutFixed(5, v.uint))

ValueSize(v) ==
    CASE v.case = "string" -> 1 + StringSize(v.string)
      [] v.case \in {"int", "uint"} -> 1 + Width
      [] OTHER -> 0

ValueField(v, f) ==
    Read(CASE f.tag = Tag(2, Delimited) -> set_string_value(v, f.bytes)
           [] f.tag = Tag(3, Fixed64) -> set_int_value(v, Signed(f.bytes))
           [] f.tag = Tag(5, Fixed64) -> set_uint_value(v, Unsigned(f.bytes))
           [] OTHER -> v)

ReadValue(v, s) == MergeFields(ValueField, v, s)

MergeValue(v, from) == IF from.case = "none" THEN v ELSE from

-----------------------------------------------------------------------------
(* Argument                                                                *)

PERSISTENCE == 0
INPLACE == 1

EmptyArgument ==
    [type |-> PERSISTENCE, has_value |-> FALSE, value |-> EmptyValue, key |-> <<>>]

\* mutable_value() creates the value it returns if there is none.
set_value(a, v) == [a EXCEPT !.has_value = TRUE, !.value = v]

ArgumentBytes(a) ==
    If(a.type # 0, PutEnum(1, a.type))
        \o If(a.has_value, PutMessage(3, ValueSize(a.value), ValueBytes(a.value)))
        \o If(a.key # <<>>, PutString(4, a.key))

ArgumentSize(a) ==
    (IF a.key # <<>> THEN 1 + StringSize(a.key) ELSE 0)
        + (IF a.has_value THEN 1 + MessageSize(ValueSize(a.value)) ELSE 0)
        + (IF a.type # 0 THEN 2 ELSE 0)

ArgumentField(a, f) ==
    CASE f.tag = Tag(1, Varint) -> Read([a EXCEPT !.type = f.bytes[1]])
      [] f.tag = Tag(3, Delimited) ->
            LET v == ReadValue(a.value, f.bytes)
            IN  [v EXCEPT !.message = set_value(a, @)]
      [] f.tag = Tag(4, Delimited) -> Read([a EXCEPT !.key = f.bytes])
      [] OTHER -> Read(a)

ReadArgument(a, s) == MergeFields(ArgumentField, a, s)

MergeArgument(a, from) ==
    [type |-> IF from.type # 0 THEN from.type ELSE a.type,
     has_value |-> a.has_value \/ from.has_value,
     value |-> MergeValue(a.value, from.value),
     key |-> IF from.key # <<>> THEN from.key ELSE a.key]

\* Repeated arguments, of a method call (field 3) or a constructor (field 2).
ArgumentsBytes(field, args) ==
    FlattenSeq([i \in DOMAIN args |->
        PutMessage(field, ArgumentSize(args[i]), ArgumentBytes(args[i]))])

ArgumentsSize(args) ==
    FoldRight(LAMBDA a, n : 1 + MessageSize(ArgumentSize(a)) + n, args, 0)

\* add_arg() comes before the argument is read, which may fail.
AddArgument(m, f) ==
    LET a == ReadArgument(EmptyArgument, f.bytes)
    IN  [a EXCEPT !.message = [m EXCEPT !.arg = Append(@, a.message)]]

-----------------------------------------------------------------------------
(* MethodCallRequest                                                       *)

EmptyMethodCallRequest ==
    [methodname |-> <<>>, object_id |-> <<>>, arg |-> <<>>, static |-> FALSE,
     do_get_return_value |-> FALSE, property |-> FALSE, type |-> <<>>]

\* Mutant: the type is written before the arguments.
MethodCallRequestBytesTypeEarly(m) ==
    If(m.methodname # <<>>, PutString(1, m.methodname))
        \o If(m.object_id # <<>>, PutString(2, m.object_id))
        \o If(m.type # <<>>, PutString(8, m.type))
        \o ArgumentsBytes(3, m.arg)
        \o If(m.static, PutBool(4, TRUE))
        \o If(m.do_get_return_value, PutBool(5, TRUE))
        \o If(m.property, PutBool(6, TRUE))

MethodCallRequestBytes(m) ==
    If(m.methodname # <<>>, PutString(1, m.methodname))
        \o If(m.object_id # <<>>, PutString(2, m.object_id))
        \o ArgumentsBytes(3, m.arg)
        \o If(m.static, PutBool(4, TRUE))
        \o If(m.do_get_return_value, PutBool(5, TRUE))
        \o If(m.property, PutBool(6, TRUE))
        \o If(m.type # <<>>, PutString(8, m.type))

\* Mutant: the flags are counted as one.
MethodCallRequestSizeOneFlag(m) ==
    ArgumentsSize(m.arg)
        + (IF m.methodname # <<>> THEN 1 + StringSize(m.methodname) ELSE 0)
        + (IF m.object_id # <<>> THEN 1 + StringSize(m.object_id) ELSE 0)
        + (IF m.type # <<>> THEN 1 + StringSize(m.type) ELSE 0)
        + (IF m.static \/ m.do_get_return_value \/ m.property THEN 2 ELSE 0)

MethodCallRequestSize(m) ==
    ArgumentsSize(m.arg)
        + (IF m.methodname # <<>> THEN 1 + StringSize(m.methodname) ELSE 0)
        + (IF m.object_id # <<>> THEN 1 + StringSize(m.object_id) ELSE 0)
        + (IF m.type # <<>> THEN 1 + StringSize(m.type) ELSE 0)
        + (IF m.static THEN 2 ELSE 0)
        + (IF m.do_get_return_value THEN 2 ELSE 0)
        + (IF m.property THEN 2 ELSE 0)

MethodCallRequestField(m, f) ==
    CASE f.tag = Tag(1, Delimited) -> Read([m EXCEPT !.methodname = f.bytes])
      [] f.tag = Tag(2, Delimited) -> Read([m EXCEPT !.object_id = f.bytes])
      [] f.tag = Tag(3, Delimited) -> AddArgument(m, f)
      [] f.tag = Tag(4, Varint) -> Read([m EXCEPT !.static = f.bytes[1] # 0])
      [] f.tag = Tag(5, Varint) ->
            Read([m EXCEPT !.do_get_return_value = f.bytes[1] # 0])
      [] f.tag = Tag(6, Varint) -> Read([m EXCEPT !.property = f.bytes[1] # 0])
      [] f.tag = Tag(8, Delimited) -> Read([m EXCEPT !.type = f.bytes])
      [] OTHER -> Read(m)

ReadMethodCallRequest(m, s) == MergeFields(MethodCallRequestField, m, s)

MergeMethodCallRequest(m, from) ==
    [methodname |-> IF from.methodname # <<>> THEN from.methodname ELSE m.methodname,
     object_id |-> IF from.object_id # <<>> THEN from.object_id ELSE m.object_id,
     arg |-> m.arg \o from.arg,
     static |-> m.static \/ from.static,
     do_get_return_value |-> m.do_get_return_value \/ from.do_get_return_value,
     property |-> m.property \/ from.property,
     type |-> IF from.type # <<>> THEN from.type ELSE m.type]

-----------------------------------------------------------------------------
(* ImportRequest and ConstructorRequest                                    *)

EmptyImportRequest == [imported_name |-> <<>>]

ImportRequestBytes(m) == If(m.imported_name # <<>>, PutString(1, m.imported_name))

ImportRequestSize(m) ==
    IF m.imported_name # <<>> THEN 1 + StringSize(m.imported_name) ELSE 0

ImportRequestField(m, f) ==
    Read(IF f.tag = Tag(1, Delimited) THEN [m EXCEPT !.imported_name = f.bytes] ELSE m)

ReadImportRequest(m, s) == MergeFields(ImportRequestField, m, s)

MergeImportRequest(m, from) == IF from = EmptyImportRequest THEN m ELSE from

EmptyConstructorRequest == [class_name |-> <<>>, arg |-> <<>>]

ConstructorRequestBytes(m) ==
    If(m.class_name # <<>>, PutString(1, m.class_name)) \o ArgumentsBytes(2, m.arg)

ConstructorRequestSize(m) ==
    ArgumentsSize(m.arg)
        + (IF m.class_name # <<>> THEN 1 + StringSize(m.class_name) ELSE 0)

ConstructorRequestField(m, f) ==
    CASE f.tag = Tag(1, Delimited) -> Read([m EXCEPT !.class_name = f.bytes])
      [] f.tag = Tag(2, Delimited) -> AddArgument(m, f)
      [] OTHER -> Read(m)

ReadConstructorRequest(m, s) == MergeFields(ConstructorRequestField, m, s)

MergeConstructorRequest(m, from) ==
    [class_name |-> IF from.class_name # <<>> THEN from.class_name ELSE m.class_name,
     arg |-> m.arg \o from.arg]

-----------------------------------------------------------------------------
(* Request                                                                 *)

EmptyRequest ==
    [case |-> "none", method_call |-> EmptyMethodCallRequest,
     importation |-> EmptyImportRequest, constructor |-> EmptyConstructorRequest,
     eval |-> FALSE, dynamic_inherit |-> FALSE, assigned_id |-> <<>>]

\* clear_request() deletes what was chosen, and nothing is chosen.
clear_request(r) == [EmptyRequest EXCEPT !.assigned_id = r.assigned_id]

\* mutable_method_call(), mutable_importation(), mutable_constructor(): another
\* alternative is cleared, the same one is kept with its contents.
Choose(r, case) ==
    IF r.case = case THEN r ELSE [clear_request(r) EXCEPT !.case = case]

method_call(r) ==
    IF r.case = "method_call" THEN r.method_call ELSE EmptyMethodCallRequest

set_method_call(r, m) == [Choose(r, "method_call") EXCEPT !.method_call = m]
set_importation(r, m) == [Choose(r, "importation") EXCEPT !.importation = m]
set_constructor(r, m) == [Choose(r, "constructor") EXCEPT !.constructor = m]
set_eval(r, b) == [Choose(r, "eval") EXCEPT !.eval = b]
set_dynamic_inherit(r, b) == [Choose(r, "dynamic_inherit") EXCEPT !.dynamic_inherit = b]

RequestBytes(r) ==
    If(r.case = "method_call",
       PutMessage(1, MethodCallRequestSize(r.method_call),
                  MethodCallRequestBytes(r.method_call)))
        \o If(r.case = "importation",
              PutMessage(2, ImportRequestSize(r.importation),
                         ImportRequestBytes(r.importation)))
        \o If(r.case = "constructor",
              PutMessage(3, ConstructorRequestSize(r.constructor),
                         ConstructorRequestBytes(r.constructor)))
        \o If(r.case = "eval", PutBool(4, r.eval))
        \o If(r.case = "dynamic_inherit", PutBool(5, r.dynamic_inherit))
        \o If(r.assigned_id # <<>>, PutString(7, r.assigned_id))

RequestSize(r) ==
    (IF r.assigned_id # <<>> THEN 1 + StringSize(r.assigned_id) ELSE 0)
        + CASE r.case = "method_call" ->
                    1 + MessageSize(MethodCallRequestSize(r.method_call))
            [] r.case = "importation" -> 1 + MessageSize(ImportRequestSize(r.importation))
            [] r.case = "constructor" ->
                    1 + MessageSize(ConstructorRequestSize(r.constructor))
            [] r.case \in {"eval", "dynamic_inherit"} -> 2
            [] OTHER -> 0

\* What was read of a nested message is kept if reading it fails.
RequestField(r, f) ==
    CASE f.tag = Tag(1, Delimited) ->
            LET m == ReadMethodCallRequest(Choose(r, "method_call").method_call, f.bytes)
            IN  [m EXCEPT !.message = set_method_call(r, @)]
      [] f.tag = Tag(2, Delimited) ->
            LET m == ReadImportRequest(Choose(r, "importation").importation, f.bytes)
            IN  [m EXCEPT !.message = set_importation(r, @)]
      [] f.tag = Tag(3, Delimited) ->
            LET m == ReadConstructorRequest(Choose(r, "constructor").constructor, f.bytes)
            IN  [m EXCEPT !.message = set_constructor(r, @)]
      [] f.tag = Tag(4, Varint) -> Read(set_eval(clear_request(r), f.bytes[1] # 0))
      [] f.tag = Tag(5, Varint) ->
            Read(set_dynamic_inherit(clear_request(r), f.bytes[1] # 0))
      [] f.tag = Tag(7, Delimited) -> Read([r EXCEPT !.assigned_id = f.bytes])
      [] OTHER -> Read(r)

MergeRequest(r, from) ==
    LET named == IF from.assigned_id # <<>>
                 THEN [r EXCEPT !.assigned_id = from.assigned_id] ELSE r
        to == Choose(named, from.case)
    IN  CASE from.case = "method_call" ->
                set_method_call(named,
                    MergeMethodCallRequest(to.method_call, from.method_call))
          [] from.case = "importation" ->
                set_importation(named,
                    MergeImportRequest(to.importation, from.importation))
          [] from.case = "constructor" ->
                set_constructor(named,
                    MergeConstructorRequest(to.constructor, from.constructor))
          [] from.case = "eval" -> set_eval(named, from.eval)
          [] from.case = "dynamic_inherit" ->
                set_dynamic_inherit(named, from.dynamic_inherit)
          [] OTHER -> named

-----------------------------------------------------------------------------
(* ChannelResponse                                                         *)

EmptyChannelResponse ==
    [case |-> "none", return_value |-> EmptyValue, exception_message |-> <<>>,
     assigned_id |-> <<>>]

clear_result(r) == [EmptyChannelResponse EXCEPT !.assigned_id = r.assigned_id]

return_value(r) == IF r.case = "return_value" THEN r.return_value ELSE EmptyValue

set_return_value(r, v) ==
    [clear_result(r) EXCEPT !.case = "return_value", !.return_value = v]

set_exception_message(r, s) ==
    [clear_result(r) EXCEPT !.case = "exception_message", !.exception_message = s]

ChannelResponseBytes(r) ==
    If(r.case = "return_value",
       PutMessage(1, ValueSize(r.return_value), ValueBytes(r.return_value)))
        \o If(r.case = "exception_message", PutString(3, r.exception_message))
        \o If(r.assigned_id # <<>>, PutString(7, r.assigned_id))

ChannelResponseSize(r) ==
    (IF r.assigned_id # <<>> THEN 1 + StringSize(r.assigned_id) ELSE 0)
        + CASE r.case = "return_value" -> 1 + MessageSize(ValueSize(r.return_value))
            [] r.case = "exception_message" -> 1 + StringSize(r.exception_message)
            [] OTHER -> 0

ChannelResponseField(r, f) ==
    CASE f.tag = Tag(1, Delimited) ->
            LET v == ReadValue(return_value(r), f.bytes)
            IN  [v EXCEPT !.message = set_return_value(r, @)]
      [] f.tag = Tag(3, Delimited) -> Read(set_exception_message(r, f.bytes))
      [] f.tag = Tag(7, Delimited) -> Read([r EXCEPT !.assigned_id = f.bytes])
      [] OTHER -> Read(r)

MergeChannelResponse(r, from) ==
    LET named == IF from.assigned_id # <<>>
                 THEN [r EXCEPT !.assigned_id = from.assigned_id] ELSE r
    IN  CASE from.case = "return_value" ->
                set_return_value(named, MergeValue(return_value(r), from.return_value))
          [] from.case = "exception_message" ->
                set_exception_message(named, from.exception_message)
          [] OTHER -> named

-----------------------------------------------------------------------------
(* What the fields of a message can hold.                                  *)

ByteStrings == Seq(0 .. 255)

\* Names and identifiers: not empty, and without a zero.
Texts == {s \in ByteStrings : s # <<>> /\ \A i \in DOMAIN s : s[i] # 0}

\* The numbers of Width bytes, with and without a sign.
Int64s == {n \in Int : - Power[Width] <= 2 * n /\ 2 * n < Power[Width]}
Uint64s == {n \in Nat : n < Power[Width]}

\* Of a oneof, only the alternative that was chosen is there.
ValueMessages ==
    {v \in [case : {"none", "string", "int", "uint"}, string : ByteStrings,
            int : Int64s, uint : Uint64s] :
        /\ v.case # "string" => v.string = <<>>
        /\ v.case # "int" => v.int = 0
        /\ v.case # "uint" => v.uint = 0}

ArgumentMessages ==
    {a \in [type : 0 .. 127, has_value : BOOLEAN, value : ValueMessages, key : ByteStrings] :
        a.has_value \/ a.value = EmptyValue}

MethodCallMessages ==
    [methodname : ByteStrings, object_id : ByteStrings, arg : Seq(ArgumentMessages),
     static : BOOLEAN, do_get_return_value : BOOLEAN, property : BOOLEAN,
     type : ByteStrings]

ImportMessages == [imported_name : ByteStrings]

ConstructorMessages == [class_name : ByteStrings, arg : Seq(ArgumentMessages)]

RequestMessages ==
    {r \in [case : {"none", "method_call", "importation", "constructor", "eval",
                    "dynamic_inherit"},
            method_call : MethodCallMessages, importation : ImportMessages,
            constructor : ConstructorMessages, eval : BOOLEAN,
            dynamic_inherit : BOOLEAN, assigned_id : ByteStrings] :
        /\ r.case # "method_call" => r.method_call = EmptyMethodCallRequest
        /\ r.case # "importation" => r.importation = EmptyImportRequest
        /\ r.case # "constructor" => r.constructor = EmptyConstructorRequest
        /\ r.case # "eval" => ~ r.eval
        /\ r.case # "dynamic_inherit" => ~ r.dynamic_inherit}

ResponseMessages ==
    {r \in [case : {"none", "return_value", "exception_message"},
            return_value : ValueMessages, exception_message : ByteStrings,
            assigned_id : ByteStrings] :
        /\ r.case # "return_value" => r.return_value = EmptyValue
        /\ r.case # "exception_message" => r.exception_message = <<>>}

-----------------------------------------------------------------------------
\* ParseFromArray: the message is cleared first, and has what was read even if the
\* result, ok, says that reading failed.
ParseRequest(s) == MergeFields(RequestField, EmptyRequest, s)
ParseChannelResponse(s) == MergeFields(ChannelResponseField, EmptyChannelResponse, s)

=============================================================================
