--------------------------- MODULE MCMessageCodec ---------------------------
(***************************************************************************)
(* TLC instance of MessageCodec: messages with every field and every       *)
(* alternative, set and not set, and numbers at the ends of their range.   *)
(***************************************************************************)
EXTENDS MessageCodec

SomeValues ==
    {EmptyValue}
        \cup {set_string_value(EmptyValue, s) : s \in {<<>>, <<7>>, <<7, 8>>}}
        \cup {set_int_value(EmptyValue, n) : n \in {0, 1, -1, 32767, -32768}}
        \cup {set_uint_value(EmptyValue, n) : n \in {0, 65535}}

SomeArguments ==
    {set_value([EmptyArgument EXCEPT !.type = INPLACE], v) : v \in SomeValues}
        \cup {EmptyArgument,
              [set_value(EmptyArgument, set_string_value(EmptyValue, <<9>>))
                   EXCEPT !.key = <<5>>]}

FullCall ==
    [methodname |-> <<1>>, object_id |-> <<2, 2>>, type |-> <<3>>, static |-> TRUE,
     do_get_return_value |-> TRUE, property |-> TRUE,
     arg |-> <<EmptyArgument,
               set_value([EmptyArgument EXCEPT !.type = INPLACE, !.key = <<4>>],
                         set_int_value(EmptyValue, -2))>>]

SomeCalls ==
    {EmptyMethodCallRequest, FullCall, [FullCall EXCEPT !.arg = <<>>],
     [FullCall EXCEPT !.object_id = <<>>, !.static = FALSE],
     [EmptyMethodCallRequest EXCEPT !.type = <<6>>, !.property = TRUE]}
        \cup {[EmptyMethodCallRequest EXCEPT !.arg = <<a>>] : a \in SomeArguments}

SomeConstructors ==
    {EmptyConstructorRequest, [class_name |-> <<1>>, arg |-> <<>>],
     [class_name |-> <<2>>, arg |-> <<EmptyArgument>>]}

Identified(set) == set \cup {[r EXCEPT !.assigned_id = <<9>>] : r \in set}

SomeRequests ==
    Identified(
        {EmptyRequest}
            \cup {set_method_call(EmptyRequest, m) : m \in SomeCalls}
            \cup {set_importation(EmptyRequest, m) :
                    m \in {EmptyImportRequest, [imported_name |-> <<1>>]}}
            \cup {set_constructor(EmptyRequest, m) : m \in SomeConstructors}
            \cup {set_eval(EmptyRequest, b) : b \in BOOLEAN}
            \cup {set_dynamic_inherit(EmptyRequest, b) : b \in BOOLEAN})

SomeResponses ==
    Identified(
        {EmptyChannelResponse}
            \cup {set_return_value(EmptyChannelResponse, v) : v \in SomeValues}
            \cup {set_exception_message(EmptyChannelResponse, s) : s \in {<<>>, <<5>>}})

=============================================================================
