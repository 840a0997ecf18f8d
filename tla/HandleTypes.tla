------------------------------ MODULE HandleTypes ------------------------------
(***************************************************************************)
(* What the wrapper generated for Z3 (Z3Kotlin.kt) passes and expects, and *)
(* what the receiver generated for Z3 (z3.cpp) reads and stores.  The      *)
(* table persistence maps an id to an untyped pointer: that a handle is    *)
(* cast to the type of the object it names is a matter of the two          *)
(* generated files, and of helpers.h and ArrayHandle, alone.               *)
(***************************************************************************)
EXTENDS Integers, Sequences, FiniteSets

CONSTANTS
    MaxHandles,  \* bound: handles of one class that the wrapper makes
    MaxRequests  \* bound: requests of the wrapper

ASSUME HandleTypesAssumption == MaxHandles \in Nat /\ MaxRequests \in Nat

None == "none"

Numbers == {"int", "bool"}

\* The entries of two tables.
Joined(f, g) == [x \in DOMAIN f \cup DOMAIN g |-> IF x \in DOMAIN f THEN f[x] ELSE g[x]]

-----------------------------------------------------------------------------
(* The handlers: the type that the request must have, the type that the    *)
(* object's pointer is cast to, those of the parameters, and that of the   *)
(* result.  "number" is put into the response, another type is stored.     *)
(* The pointer to a char* is written Char[], that to a Z3_ast* Z3_ast[].   *)

OnConfig(params, result) ==
    [type |-> "Z3_config", object |-> "Z3_config", params |-> params, result |-> result]

OnContext(params, result) ==
    [type |-> "Z3_context", object |-> "Z3_context", params |-> params,
     result |-> result]

Create(params, result) ==
    [type |-> result, object |-> None, params |-> params, result |-> result]

OnArray(type, params, result) ==
    [type |-> type, object |-> type, params |-> params, result |-> result]

Handlers1 ==
    [Z3_mk_context |-> OnConfig(<<>>, "Z3_context"),
     Z3_set_param_value |-> OnConfig(<<"Char[]", "Char[]">>, "void"),
     Z3_del_config |-> OnConfig(<<>>, "void"),
     Z3_mk_config |-> Create(<<>>, "Z3_config"),
     Z3_mk_bool_sort |-> OnContext(<<>>, "Z3_sort"),
     Z3_get_range |-> OnContext(<<"Z3_func_decl">>, "Z3_sort"),
     Z3_get_tuple_sort_field_decl |-> OnContext(<<"Z3_sort", "int">>, "Z3_func_decl"),
     Z3_mk_int_symbol |-> OnContext(<<"int">>, "Z3_symbol"),
     Z3_mk_const |-> OnContext(<<"Z3_symbol", "Z3_sort">>, "Z3_ast"),
     Z3_mk_and |-> OnContext(<<"int", "Z3_ast[]">>, "Z3_ast"),
     Z3_mk_or |-> OnContext(<<"int", "Z3_ast[]">>, "Z3_ast"),
     Z3_mk_not |-> OnContext(<<"Z3_ast">>, "Z3_ast")]

Handlers2 ==
    [Z3_mk_iff |-> OnContext(<<"Z3_ast", "Z3_ast">>, "Z3_ast"),
     Z3_sort_to_string |-> OnContext(<<"Z3_sort">>, "Char[]"),
     Z3_mk_solver |-> OnContext(<<>>, "Z3_solver"),
     Z3_solver_inc_ref |-> OnContext(<<"Z3_solver">>, "void"),
     Z3_solver_dec_ref |-> OnContext(<<"Z3_solver">>, "void"),
     Z3_get_datatype_sort_num_constructors |-> OnContext(<<"Z3_sort">>, "number"),
     Z3_solver_assert |-> OnContext(<<"Z3_solver", "Z3_ast">>, "void"),
     Z3_solver_check |-> OnContext(<<"Z3_solver">>, "number"),
     Z3_solver_check_assumptions |->
        OnContext(<<"Z3_solver", "int", "Z3_ast[]">>, "number"),
     Z3_solver_get_unsat_core |-> OnContext(<<"Z3_solver">>, "Z3_ast_vector"),
     Z3_get_tuple_sort_num_fields |-> OnContext(<<"Z3_sort">>, "number"),
     Z3_mk_string_symbol |-> OnContext(<<"Char[]">>, "Z3_symbol")]

Handlers3 ==
    [Z3_mk_int_sort |-> OnContext(<<>>, "Z3_sort"),
     Z3_solver_get_model |-> OnContext(<<"Z3_solver">>, "Z3_model"),
     Z3_model_inc_ref |-> OnContext(<<"Z3_model">>, "void"),
     Z3_model_to_string |-> OnContext(<<"Z3_model">>, "Char[]"),
     Z3_model_dec_ref |-> OnContext(<<"Z3_model">>, "void"),
     Z3_mk_add |-> OnContext(<<"int", "Z3_ast[]">>, "Z3_ast"),
     Z3_mk_lt |-> OnContext(<<"Z3_ast", "Z3_ast">>, "Z3_ast"),
     Z3_mk_gt |-> OnContext(<<"Z3_ast", "Z3_ast">>, "Z3_ast"),
     Z3_mk_eq |-> OnContext(<<"Z3_ast", "Z3_ast">>, "Z3_ast"),
     Z3_mk_int |-> OnContext(<<"int", "Z3_sort">>, "Z3_ast"),
     Z3_set_error_handler |-> OnContext(<<"Z3_error_handler">>, "void")]

Handlers4 ==
    [Z3_get_symbol_kind |-> OnContext(<<"Z3_symbol">>, "number"),
     Z3_get_symbol_int |-> OnContext(<<"Z3_symbol">>, "number"),
     Z3_get_symbol_string |-> OnContext(<<"Z3_symbol">>, "Char[]"),
     Z3_model_get_num_consts |-> OnContext(<<"Z3_model">>, "number"),
     Z3_model_get_const_decl |-> OnContext(<<"Z3_model", "int">>, "Z3_func_decl"),
     Z3_get_decl_name |-> OnContext(<<"Z3_func_decl">>, "Z3_symbol"),
     Z3_mk_app |-> OnContext(<<"Z3_func_decl", "int", "Z3_ast[]">>, "Z3_ast"),
     Z3_model_eval |-> OnContext(<<"Z3_model", "Z3_ast", "bool", "Z3_ast">>, "number"),
     Z3_get_ast_kind |-> OnContext(<<"Z3_ast">>, "number"),
     Z3_get_numeral_string |-> OnContext(<<"Z3_ast">>, "void"),
     Z3_get_sort |-> OnContext(<<"Z3_ast">>, "Z3_sort")]

\* Mutants: a sort is read as a symbol, a number is not put into the response.
SortReadAsSymbol ==
    [Z3_get_sort_kind |-> OnContext(<<"Z3_symbol">>, "number"),
     Z3_get_sort_name |-> OnContext(<<"Z3_sort">>, "Z3_symbol"),
     Z3_get_bv_sort_size |-> OnContext(<<"Z3_sort">>, "number"),
     Z3_get_array_sort_domain |-> OnContext(<<"Z3_sort">>, "Z3_sort"),
     Z3_get_array_sort_range |-> OnContext(<<"Z3_sort">>, "Z3_sort"),
     Z3_del_context |-> OnContext(<<>>, "void")]

NumberNotReturned ==
    [Z3_get_sort_kind |-> OnContext(<<"Z3_sort">>, "number"),
     Z3_get_sort_name |-> OnContext(<<"Z3_sort">>, "Z3_symbol"),
     Z3_get_bv_sort_size |-> OnContext(<<"Z3_sort">>, "void"),
     Z3_get_array_sort_domain |-> OnContext(<<"Z3_sort">>, "Z3_sort"),
     Z3_get_array_sort_range |-> OnContext(<<"Z3_sort">>, "Z3_sort"),
     Z3_del_context |-> OnContext(<<>>, "void")]

Handlers5 ==
    [Z3_get_sort_kind |-> OnContext(<<"Z3_sort">>, "number"),
     Z3_get_sort_name |-> OnContext(<<"Z3_sort">>, "Z3_symbol"),
     Z3_get_bv_sort_size |-> OnContext(<<"Z3_sort">>, "number"),
     Z3_get_array_sort_domain |-> OnContext(<<"Z3_sort">>, "Z3_sort"),
     Z3_get_array_sort_range |-> OnContext(<<"Z3_sort">>, "Z3_sort"),
     Z3_del_context |-> OnContext(<<>>, "void")]

\* helpers.h: mem_alloc, set and get for an element type, and strlen.  set<Z3_ast>
\* reads an object, set<char> and get<char> numbers.
ArrayHandlers ==
    [name \in {"mem_alloc<char>", "set<char>", "get<char>", "strlen",
               "mem_alloc<Z3_ast>", "set<Z3_ast>", "get<Z3_ast>"} |->
        CASE name = "mem_alloc<char>" -> Create(<<"int">>, "Char[]")
          [] name = "set<char>" -> OnArray("Char[]", <<"int", "int">>, "void")
          [] name = "get<char>" -> OnArray("Char[]", <<"int">>, "number")
          [] name = "strlen" -> OnArray("Char[]", <<>>, "number")
          [] name = "mem_alloc<Z3_ast>" -> Create(<<"int">>, "Z3_ast[]")
          [] name = "set<Z3_ast>" -> OnArray("Z3_ast[]", <<"int", "Z3_ast">>, "void")
          [] name = "get<Z3_ast>" -> OnArray("Z3_ast[]", <<"int">>, "Z3_ast")]

Handlers ==
    Joined(Joined(Joined(Handlers1, Handlers2), Joined(Handlers3, Handlers4)),
           Joined(Handlers5, ArrayHandlers))

\* process_request: the type and the name are compared, but only the name of strlen.
Found(r) ==
    r.name \in DOMAIN Handlers /\ (r.type = Handlers[r.name].type \/ r.name = "strlen")

-----------------------------------------------------------------------------
(* The wrapper's methods: the type it puts into the request, the class of  *)
(* the object and those of the parameters, and what is done with the       *)
(* response: Int and Boolean are asInstanceOf, a class is bindTo a new     *)
(* handle, Unit is nothing.  ArrayHandle<Char> is written Char[].  The     *)
(* methods whose result is String are left out: String() is no Handle,     *)
(* which bindTo needs.                                                     *)

ConfigAndTermMethods ==
    [Z3_mk_config |-> Create(<<>>, "Z3_config"),
     Z3_mk_context |-> OnConfig(<<>>, "Z3_context"),
     Z3_set_param_value |-> OnConfig(<<"Char[]", "Char[]">>, "Unit"),
     Z3_del_config |-> OnConfig(<<>>, "Unit"),
     Z3_mk_bool_sort |-> OnContext(<<>>, "Z3_sort"),
     Z3_get_range |-> OnContext(<<"Z3_func_decl">>, "Z3_sort"),
     Z3_get_tuple_sort_field_decl |-> OnContext(<<"Z3_sort", "Int">>, "Z3_func_decl"),
     Z3_mk_int_symbol |-> OnContext(<<"Int">>, "Z3_symbol"),
     Z3_mk_const |-> OnContext(<<"Z3_symbol", "Z3_sort">>, "Z3_ast"),
     Z3_mk_and |-> OnContext(<<"Int", "Z3_ast[]">>, "Z3_ast"),
     Z3_mk_or |-> OnContext(<<"Int", "Z3_ast[]">>, "Z3_ast"),
     Z3_mk_not |-> OnContext(<<"Z3_ast">>, "Z3_ast"),
     Z3_mk_iff |-> OnContext(<<"Z3_ast", "Z3_ast">>, "Z3_ast"),
     Z3_mk_solver |-> OnContext(<<>>, "Z3_solver"),
     Z3_solver_inc_ref |-> OnContext(<<"Z3_solver">>, "Unit"),
     Z3_solver_dec_ref |-> OnContext(<<"Z3_solver">>, "Unit"),
     Z3_get_datatype_sort_num_constructors |-> OnContext(<<"Z3_sort">>, "Int")]

SolverMethods ==
    [Z3_solver_assert |-> OnContext(<<"Z3_solver", "Z3_ast">>, "Unit"),
     Z3_solver_check |-> OnContext(<<"Z3_solver">>, "Int"),
     Z3_solver_check_assumptions |->
        OnContext(<<"Z3_solver", "Int", "Z3_ast[]">>, "Int"),
     Z3_solver_get_unsat_core |-> OnContext(<<"Z3_solver">>, "Z3_ast_vector"),
     Z3_get_tuple_sort_num_fields |-> OnContext(<<"Z3_sort">>, "Int"),
     Z3_mk_string_symbol |-> OnContext(<<"Char[]">>, "Z3_symbol"),
     Z3_mk_int_sort |-> OnContext(<<>>, "Z3_sort"),
     Z3_solver_get_model |-> OnContext(<<"Z3_solver">>, "Z3_model"),
     Z3_model_inc_ref |-> OnContext(<<"Z3_model">>, "Unit"),
     Z3_model_dec_ref |-> OnContext(<<"Z3_model">>, "Unit"),
     Z3_mk_add |-> OnContext(<<"Int", "Z3_ast[]">>, "Z3_ast"),
     Z3_mk_lt |-> OnContext(<<"Z3_ast", "Z3_ast">>, "Z3_ast"),
     Z3_mk_gt |-> OnContext(<<"Z3_ast", "Z3_ast">>, "Z3_ast"),
     Z3_mk_eq |-> OnContext(<<"Z3_ast", "Z3_ast">>, "Z3_ast"),
     Z3_mk_int |-> OnContext(<<"Int", "Z3_sort">>, "Z3_ast")]

QueryMethods ==
    [Z3_set_error_handler |-> OnContext(<<"Z3_error_handler">>, "Unit"),
     Z3_get_symbol_kind |-> OnContext(<<"Z3_symbol">>, "Int"),
     Z3_get_symbol_int |-> OnContext(<<"Z3_symbol">>, "Int"),
     Z3_model_get_num_consts |-> OnContext(<<"Z3_model">>, "Int"),
     Z3_model_get_const_decl |-> OnContext(<<"Z3_model", "Int">>, "Z3_func_decl"),
     Z3_get_decl_name |-> OnContext(<<"Z3_func_decl">>, "Z3_symbol"),
     Z3_mk_app |-> OnContext(<<"Z3_func_decl", "Int", "Z3_ast[]">>, "Z3_ast"),
     Z3_model_eval |->
        OnContext(<<"Z3_model", "Z3_ast", "Boolean", "Z3_ast">>, "Boolean"),
     Z3_get_ast_kind |-> OnContext(<<"Z3_ast">>, "Int"),
     Z3_get_numeral_string |-> OnContext(<<"Z3_ast">>, "Unit"),
     Z3_get_sort |-> OnContext(<<"Z3_ast">>, "Z3_sort"),
     Z3_get_sort_kind |-> OnContext(<<"Z3_sort">>, "Int"),
     Z3_get_sort_name |-> OnContext(<<"Z3_sort">>, "Z3_symbol"),
     Z3_get_bv_sort_size |-> OnContext(<<"Z3_sort">>, "Int"),
     Z3_get_array_sort_domain |-> OnContext(<<"Z3_sort">>, "Z3_sort"),
     Z3_get_array_sort_range |-> OnContext(<<"Z3_sort">>, "Z3_sort"),
     Z3_del_context |-> OnContext(<<>>, "Unit")]

\* ArrayHandle: its allocation, set, get, and strlen.
ArrayMethods ==
    [name \in {"mem_alloc<char>", "set<char>", "get<char>", "strlen",
               "mem_alloc<Z3_ast>", "set<Z3_ast>", "get<Z3_ast>"} |->
        CASE name = "mem_alloc<char>" -> Create(<<"Int">>, "Char[]")
          [] name = "set<char>" -> OnArray("Char[]", <<"Int", "Int">>, "Unit")
          [] name = "get<char>" -> OnArray("Char[]", <<"Int">>, "Int")
          [] name = "strlen" -> [OnArray("Char[]", <<>>, "Int") EXCEPT !.type = "char[]"]
          [] name = "mem_alloc<Z3_ast>" -> Create(<<"Int">>, "Z3_ast[]")
          [] name = "set<Z3_ast>" -> OnArray("Z3_ast[]", <<"Int", "Z3_ast">>, "Unit")
          [] name = "get<Z3_ast>" -> OnArray("Z3_ast[]", <<"Int">>, "Z3_ast")]

Methods ==
    Joined(Joined(ConfigAndTermMethods, SolverMethods), Joined(QueryMethods, ArrayMethods))

-----------------------------------------------------------------------------
VARIABLES
    handles,      \* the wrapper's handles: their classes and ids
    counter,      \* assigned_id_counter
    persistence,  \* the type of the object that a pointer with this id points to
    request,      \* the request on the way or in execution
    response      \* the response to it

vars == <<handles, counter, persistence, request, response>>

Classes == {Methods[name].result : name \in DOMAIN Methods} \ {"Unit", "Int", "Boolean"}

\* Stands where an id would, for what is passed in place.
Inplace == -1

NoRequest == [name |-> None]

NoResponse == [id |-> Inplace, number |-> FALSE]

Init ==
    /\ handles = {}
    /\ counter = 0
    /\ persistence = <<>>
    /\ request = NoRequest
    /\ response = NoResponse

\* What can be passed for a parameter of this class, and for the object.
Arguments(class) ==
    IF class \in {"Int", "Boolean"} THEN {Inplace}
    ELSE {h.id : h \in {g \in handles : g.class = class}}

Objects(class) == IF class = None THEN {Inplace} ELSE Arguments(class)

MakeRequest(name, object, args) ==
    /\ object \in Objects(Methods[name].object)
    /\ \A i \in DOMAIN args : args[i] \in Arguments(Methods[name].params[i])
    /\ request' = [name |-> name, type |-> Methods[name].type, object |-> object,
                   args |-> args]
    /\ UNCHANGED <<handles, counter, persistence, response>>

\* A pointer to an object of this type is put into persistence.
Stored(new, type) ==
    [id \in DOMAIN persistence \cup {new} |-> IF id = new THEN type ELSE persistence[id]]

\* A handler: the result of the library goes into the response, which has an id in
\* any case, or through a new pointer into persistence under that id.  Nothing is ever
\* removed: neither by Z3_del_config and Z3_del_context, which leave the pointer to what
\* they delete, nor otherwise.
Process(id) ==
    LET type == Handlers[request.name].result
    IN  /\ Found(request)
        /\ response' = [id |-> id, number |-> type = "number"]
        /\ persistence' = IF type \in {"void", "number"} THEN persistence
                          ELSE Stored(id, type)

\* Mutant: the counter is read and not incremented.
ExecuteUncounted ==
    /\ request # NoRequest /\ response = NoResponse
    /\ Process(counter)
    /\ UNCHANGED <<handles, counter, request>>

\* process_channel: every request takes a number, whatever its handler returns.
Execute ==
    /\ request # NoRequest /\ response = NoResponse
    /\ Process(counter)
    /\ counter' = counter + 1
    /\ UNCHANGED <<handles, request>>

\* bindTo gives the new handle the response's id.  It also adds a phantom reference to a
\* set, HandleReferenceQueue.references, which nothing reads: it is left out.
Receive ==
    /\ response # NoResponse
    /\ LET class == Methods[request.name].result
       IN  handles' = handles \cup {[class |-> c, id |-> response.id] :
                                        c \in {class} \cap Classes}
    /\ request' = NoRequest
    /\ response' = NoResponse
    /\ UNCHANGED <<counter, persistence>>

\* MaxHandles bounds the handles of the class that the method returns, MaxRequests
\* the requests.
Call ==
    /\ request = NoRequest
    /\ counter < MaxRequests
    /\ \E name \in DOMAIN Methods :
          LET m == Methods[name]
          IN  /\ Cardinality({h \in handles : h.class = m.result}) < MaxHandles
              /\ \E object \in Objects(m.object),
                    args \in [DOMAIN m.params ->
                                 UNION {Arguments(m.params[i]) : i \in DOMAIN m.params}] :
                    MakeRequest(name, object, args)

Next == Call \/ Execute \/ Receive

Spec == Init /\ [][Next]_vars

-----------------------------------------------------------------------------
\* The pointer that is looked up for id, which "" and what is passed in place have not.
PointsTo(id, type) == id \in DOMAIN persistence /\ persistence[id] = type

(***************************************************************************)
(* Every request has a handler with as many parameters, the pointers that  *)
(* it finds in persistence point to what it casts them to, and what it     *)
(* reads as a number was passed in place.                                  *)
(***************************************************************************)
CastsFit ==
    request # NoRequest /\ response = NoResponse =>
        /\ Found(request)
        /\ LET h == Handlers[request.name]
           IN  /\ h.object # None => PointsTo(request.object, h.object)
               /\ DOMAIN h.params = DOMAIN request.args
               /\ \A i \in DOMAIN h.params :
                      IF h.params[i] \in Numbers THEN request.args[i] = Inplace
                      ELSE PointsTo(request.args[i], h.params[i])

(***************************************************************************)
(* A handle of a class names an object of the type of that name: what      *)
(* bindTo is given is what the handler stored.                             *)
(***************************************************************************)
HandlesFit == \A h \in handles : PointsTo(h.id, h.class)

(***************************************************************************)
(* A response has a number if the wrapper converts it to one, and only     *)
(* then if it looks at the response at all: asInstanceOf and bindTo do not *)
(* fail.                                                                   *)
(***************************************************************************)
ResultsConvert ==
    response # NoResponse =>
        LET class == Methods[request.name].result
        IN  /\ class \in {"Int", "Boolean"} => response.number
            /\ class \in Classes => ~response.number

=============================================================================
