-------------------------- MODULE HandleTypesProofs --------------------------
(***************************************************************************)
(* Proofs about HandleTypes, for any number of requests and handles: the   *)
(* two generated tables agree entry by entry, and therefore every pointer  *)
(* is cast to the type of what it points to.                               *)
(***************************************************************************)
EXTENDS HandleTypes, TLAPS

-----------------------------------------------------------------------------
(* The tables. *)

\* The classes of what is passed and returned in place.
InPlace == {"Int", "Boolean"}

\* What the wrapper passes as this class is read as this type.
ReadAs(class, type) ==
    IF class \in InPlace THEN type \in Numbers ELSE type = class /\ type \notin Numbers

\* A method and the handler with its name agree.
Agree(m, h) ==
    /\ h.object = m.object /\ m.object \notin InPlace
    /\ DOMAIN h.params = DOMAIN m.params
    /\ \A i \in DOMAIN m.params : ReadAs(m.params[i], h.params[i])
    /\ m.result \in InPlace => h.result = "number"
    /\ m.result \notin InPlace \cup {"Unit"} =>
          h.result = m.result /\ h.result \notin {"void", "number"}

Paired(name) ==
    /\ name \in DOMAIN Handlers
    /\ Agree(Methods[name], Handlers[name])
    /\ Methods[name].type = Handlers[name].type \/ name = "strlen"

LEMMA HandlerNames ==
    /\ DOMAIN Handlers1 =
          {"Z3_mk_context", "Z3_set_param_value", "Z3_del_config", "Z3_mk_config",
           "Z3_mk_bool_sort", "Z3_get_range", "Z3_get_tuple_sort_field_decl",
           "Z3_mk_int_symbol", "Z3_mk_const", "Z3_mk_and", "Z3_mk_or", "Z3_mk_not"}
    /\ DOMAIN Handlers2 =
          {"Z3_mk_iff", "Z3_sort_to_string", "Z3_mk_solver", "Z3_solver_inc_ref",
           "Z3_solver_dec_ref", "Z3_get_datatype_sort_num_constructors",
           "Z3_solver_assert", "Z3_solver_check", "Z3_solver_check_assumptions",
           "Z3_solver_get_unsat_core", "Z3_get_tuple_sort_num_fields",
           "Z3_mk_string_symbol"}
    /\ DOMAIN Handlers3 =
          {"Z3_mk_int_sort", "Z3_solver_get_model", "Z3_model_inc_ref",
           "Z3_model_to_string", "Z3_model_dec_ref", "Z3_mk_add", "Z3_mk_lt",
           "Z3_mk_gt", "Z3_mk_eq", "Z3_mk_int", "Z3_set_error_handler"}
    /\ DOMAIN Handlers4 =
          {"Z3_get_symbol_kind", "Z3_get_symbol_int", "Z3_get_symbol_string",
           "Z3_model_get_num_consts", "Z3_model_get_const_decl", "Z3_get_decl_name",
           "Z3_mk_app", "Z3_model_eval", "Z3_get_ast_kind", "Z3_get_numeral_string",
           "Z3_get_sort"}
    /\ DOMAIN Handlers5 =
          {"Z3_get_sort_kind", "Z3_get_sort_name", "Z3_get_bv_sort_size",
           "Z3_get_array_sort_domain", "Z3_get_array_sort_range", "Z3_del_context"}
    /\ DOMAIN ArrayHandlers =
          {"mem_alloc<char>", "set<char>", "get<char>", "strlen",
           "mem_alloc<Z3_ast>", "set<Z3_ast>", "get<Z3_ast>"}
BY DEF Handlers1, Handlers2, Handlers3, Handlers4, Handlers5, ArrayHandlers

LEMMA HandlersOf ==
    /\ \A x \in DOMAIN Handlers1 : x \in DOMAIN Handlers /\ Handlers[x] = Handlers1[x]
    /\ \A x \in DOMAIN Handlers2 : x \in DOMAIN Handlers /\ Handlers[x] = Handlers2[x]
    /\ \A x \in DOMAIN Handlers3 : x \in DOMAIN Handlers /\ Handlers[x] = Handlers3[x]
    /\ \A x \in DOMAIN Handlers4 : x \in DOMAIN Handlers /\ Handlers[x] = Handlers4[x]
    /\ \A x \in DOMAIN Handlers5 : x \in DOMAIN Handlers /\ Handlers[x] = Handlers5[x]
    /\ \A x \in DOMAIN ArrayHandlers :
          x \in DOMAIN Handlers /\ Handlers[x] = ArrayHandlers[x]
<1>1. PICK a, b, c :
         /\ a = Joined(Handlers1, Handlers2) /\ b = Joined(Handlers3, Handlers4)
         /\ c = Joined(Handlers5, ArrayHandlers)
  OBVIOUS
<1>2. Handlers = Joined(Joined(a, b), c)
  BY <1>1 DEF Handlers
<1>3. /\ DOMAIN a = DOMAIN Handlers1 \cup DOMAIN Handlers2
      /\ \A x \in DOMAIN Handlers1 : a[x] = Handlers1[x]
      /\ \A x \in DOMAIN Handlers2 : a[x] = Handlers2[x]
  <2>1. \A x \in DOMAIN Handlers2 : x \notin DOMAIN Handlers1
    BY HandlerNames
  <2> QED
    BY <1>1, <2>1 DEF Joined
<1>4. /\ DOMAIN b = DOMAIN Handlers3 \cup DOMAIN Handlers4
      /\ \A x \in DOMAIN Handlers3 : b[x] = Handlers3[x]
      /\ \A x \in DOMAIN Handlers4 : b[x] = Handlers4[x]
  <2>1. \A x \in DOMAIN Handlers4 : x \notin DOMAIN Handlers3
    BY HandlerNames
  <2> QED
    BY <1>1, <2>1 DEF Joined
<1>5. /\ DOMAIN c = DOMAIN Handlers5 \cup DOMAIN ArrayHandlers
      /\ \A x \in DOMAIN Handlers5 : c[x] = Handlers5[x]
      /\ \A x \in DOMAIN ArrayHandlers : c[x] = ArrayHandlers[x]
  <2>1. \A x \in DOMAIN ArrayHandlers : x \notin DOMAIN Handlers5
    BY HandlerNames
  <2> QED
    BY <1>1, <2>1 DEF Joined
<1>6. \A x \in DOMAIN b : x \notin DOMAIN a
  BY <1>3, <1>4, HandlerNames
<1>7. \A x \in DOMAIN c : x \notin DOMAIN a \cup DOMAIN b
  <2>1. \A x \in DOMAIN Handlers5 : x \notin DOMAIN a \cup DOMAIN b
    BY <1>3, <1>4, HandlerNames
  <2>2. \A x \in DOMAIN ArrayHandlers : x \notin DOMAIN a \cup DOMAIN b
    BY <1>3, <1>4, HandlerNames
  <2> QED
    BY <1>5, <2>1, <2>2
<1>8. PICK d : d = Joined(a, b)
  OBVIOUS
<1>9. /\ DOMAIN d = DOMAIN a \cup DOMAIN b
      /\ \A x \in DOMAIN a : d[x] = a[x]
      /\ \A x \in DOMAIN b : d[x] = b[x]
  BY <1>6, <1>8 DEF Joined
<1>10. /\ DOMAIN Handlers = DOMAIN d \cup DOMAIN c
       /\ \A x \in DOMAIN d : Handlers[x] = d[x]
       /\ \A x \in DOMAIN c : Handlers[x] = c[x]
  BY <1>2, <1>7, <1>8, <1>9 DEF Joined
<1> QED
  BY <1>3, <1>4, <1>5, <1>9, <1>10

LEMMA MethodNames ==
    /\ DOMAIN ConfigAndTermMethods =
          {"Z3_mk_config", "Z3_mk_context", "Z3_set_param_value", "Z3_del_config",
           "Z3_mk_bool_sort", "Z3_get_range", "Z3_get_tuple_sort_field_decl",
           "Z3_mk_int_symbol", "Z3_mk_const", "Z3_mk_and", "Z3_mk_or", "Z3_mk_not",
           "Z3_mk_iff", "Z3_mk_solver", "Z3_solver_inc_ref", "Z3_solver_dec_ref",
           "Z3_get_datatype_sort_num_constructors"}
    /\ DOMAIN SolverMethods =
          {"Z3_solver_assert", "Z3_solver_check", "Z3_solver_check_assumptions",
           "Z3_solver_get_unsat_core", "Z3_get_tuple_sort_num_fields",
           "Z3_mk_string_symbol", "Z3_mk_int_sort", "Z3_solver_get_model",
           "Z3_model_inc_ref", "Z3_model_dec_ref", "Z3_mk_add", "Z3_mk_lt",
           "Z3_mk_gt", "Z3_mk_eq", "Z3_mk_int"}
    /\ DOMAIN QueryMethods =
          {"Z3_set_error_handler", "Z3_get_symbol_kind", "Z3_get_symbol_int",
           "Z3_model_get_num_consts", "Z3_model_get_const_decl", "Z3_get_decl_name",
           "Z3_mk_app", "Z3_model_eval", "Z3_get_ast_kind", "Z3_get_numeral_string",
           "Z3_get_sort", "Z3_get_sort_kind", "Z3_get_sort_name", "Z3_get_bv_sort_size",
           "Z3_get_array_sort_domain", "Z3_get_array_sort_range", "Z3_del_context"}
    /\ DOMAIN ArrayMethods =
          {"mem_alloc<char>", "set<char>", "get<char>", "strlen",
           "mem_alloc<Z3_ast>", "set<Z3_ast>", "get<Z3_ast>"}
BY DEF ConfigAndTermMethods, SolverMethods, QueryMethods, ArrayMethods

\* An entry of a table of methods and the one of a table of handlers.
Matches(m, h) == Agree(m, h) /\ m.type = h.type

LEMMA TermsMatch ==
    /\ \A x \in DOMAIN ConfigAndTermMethods \cap DOMAIN Handlers1 :
          Matches(ConfigAndTermMethods[x], Handlers1[x])
    /\ \A x \in DOMAIN ConfigAndTermMethods \cap DOMAIN Handlers2 :
          Matches(ConfigAndTermMethods[x], Handlers2[x])
<1>1. \A x \in DOMAIN ConfigAndTermMethods \cap DOMAIN Handlers1 :
          Matches(ConfigAndTermMethods[x], Handlers1[x])
  <2> USE DEF ConfigAndTermMethods, Handlers1, Matches, Agree, ReadAs, InPlace, Numbers,
               OnContext, OnConfig, Create, None
  <2>1. Matches(ConfigAndTermMethods.Z3_mk_config, Handlers1.Z3_mk_config)
    OBVIOUS
  <2>2. Matches(ConfigAndTermMethods.Z3_mk_context, Handlers1.Z3_mk_context)
    OBVIOUS
  <2>3. Matches(ConfigAndTermMethods.Z3_set_param_value, Handlers1.Z3_set_param_value)
    OBVIOUS
  <2>4. Matches(ConfigAndTermMethods.Z3_del_config, Handlers1.Z3_del_config)
    OBVIOUS
  <2>5. Matches(ConfigAndTermMethods.Z3_mk_bool_sort, Handlers1.Z3_mk_bool_sort)
    OBVIOUS
  <2>6. Matches(ConfigAndTermMethods.Z3_get_range, Handlers1.Z3_get_range)
    OBVIOUS
  <2>7. Matches(ConfigAndTermMethods.Z3_get_tuple_sort_field_decl,
              Handlers1.Z3_get_tuple_sort_field_decl)
    OBVIOUS
  <2>8. Matches(ConfigAndTermMethods.Z3_mk_int_symbol, Handlers1.Z3_mk_int_symbol)
    OBVIOUS
  <2>9. Matches(ConfigAndTermMethods.Z3_mk_const, Handlers1.Z3_mk_const)
    OBVIOUS
  <2>10. Matches(ConfigAndTermMethods.Z3_mk_and, Handlers1.Z3_mk_and)
    OBVIOUS
  <2>11. Matches(ConfigAndTermMethods.Z3_mk_or, Handlers1.Z3_mk_or)
    OBVIOUS
  <2>12. Matches(ConfigAndTermMethods.Z3_mk_not, Handlers1.Z3_mk_not)
    OBVIOUS
  <2> HIDE DEF ConfigAndTermMethods, Handlers1, Matches, Agree, ReadAs, InPlace, Numbers,
               OnContext, OnConfig, Create, None
  <2> QED
    BY <2>1, <2>2, <2>3, <2>4, <2>5, <2>6, <2>7, <2>8, <2>9, <2>10, <2>11, <2>12,
       HandlerNames, MethodNames
<1>2. \A x \in DOMAIN ConfigAndTermMethods \cap DOMAIN Handlers2 :
          Matches(ConfigAndTermMethods[x], Handlers2[x])
  <2> USE DEF ConfigAndTermMethods, Handlers2, Matches, Agree, ReadAs, InPlace, Numbers,
               OnContext
  <2>1. Matches(ConfigAndTermMethods.Z3_mk_iff, Handlers2.Z3_mk_iff)
    OBVIOUS
  <2>2. Matches(ConfigAndTermMethods.Z3_mk_solver, Handlers2.Z3_mk_solver)
    OBVIOUS
  <2>3. Matches(ConfigAndTermMethods.Z3_solver_inc_ref, Handlers2.Z3_solver_inc_ref)
    OBVIOUS
  <2>4. Matches(ConfigAndTermMethods.Z3_solver_dec_ref, Handlers2.Z3_solver_dec_ref)
    OBVIOUS
  <2>5. Matches(ConfigAndTermMethods.Z3_get_datatype_sort_num_constructors,
              Handlers2.Z3_get_datatype_sort_num_constructors)
    OBVIOUS
  <2> HIDE DEF ConfigAndTermMethods, Handlers2, Matches, Agree, ReadAs, InPlace, Numbers,
               OnContext
  <2> QED
    BY <2>1, <2>2, <2>3, <2>4, <2>5, HandlerNames, MethodNames
<1> QED
  BY <1>1, <1>2

LEMMA SolversMatch ==
    /\ \A x \in DOMAIN SolverMethods \cap DOMAIN Handlers2 :
          Matches(SolverMethods[x], Handlers2[x])
    /\ \A x \in DOMAIN SolverMethods \cap DOMAIN Handlers3 :
          Matches(SolverMethods[x], Handlers3[x])
<1>1. \A x \in DOMAIN SolverMethods \cap DOMAIN Handlers2 :
          Matches(SolverMethods[x], Handlers2[x])
  <2> USE DEF SolverMethods, Handlers2, Matches, Agree, ReadAs, InPlace, Numbers,
               OnContext
  <2>1. Matches(SolverMethods.Z3_solver_assert, Handlers2.Z3_solver_assert)
    OBVIOUS
  <2>2. Matches(SolverMethods.Z3_solver_check, Handlers2.Z3_solver_check)
    OBVIOUS
  <2>3. Matches(SolverMethods.Z3_solver_check_assumptions,
              Handlers2.Z3_solver_check_assumptions)
    OBVIOUS
  <2>4. Matches(SolverMethods.Z3_solver_get_unsat_core,
              Handlers2.Z3_solver_get_unsat_core)
    OBVIOUS
  <2>5. Matches(SolverMethods.Z3_get_tuple_sort_num_fields,
              Handlers2.Z3_get_tuple_sort_num_fields)
    OBVIOUS
  <2>6. Matches(SolverMethods.Z3_mk_string_symbol, Handlers2.Z3_mk_string_symbol)
    OBVIOUS
  <2> HIDE DEF SolverMethods, Handlers2, Matches, Agree, ReadAs, InPlace, Numbers,
               OnContext
  <2> QED
    BY <2>1, <2>2, <2>3, <2>4, <2>5, <2>6, HandlerNames, MethodNames
<1>2. \A x \in DOMAIN SolverMethods \cap DOMAIN Handlers3 :
          Matches(SolverMethods[x], Handlers3[x])
  <2> USE DEF SolverMethods, Handlers3, Matches, Agree, ReadAs, InPlace, Numbers,
               OnContext
  <2>1. Matches(SolverMethods.Z3_mk_int_sort, Handlers3.Z3_mk_int_sort)
    OBVIOUS
  <2>2. Matches(SolverMethods.Z3_solver_get_model, Handlers3.Z3_solver_get_model)
    OBVIOUS
  <2>3. Matches(SolverMethods.Z3_model_inc_ref, Handlers3.Z3_model_inc_ref)
    OBVIOUS
  <2>4. Matches(SolverMethods.Z3_model_dec_ref, Handlers3.Z3_model_dec_ref)
    OBVIOUS
  <2>5. Matches(SolverMethods.Z3_mk_add, Handlers3.Z3_mk_add)
    OBVIOUS
  <2>6. Matches(SolverMethods.Z3_mk_lt, Handlers3.Z3_mk_lt)
    OBVIOUS
  <2>7. Matches(SolverMethods.Z3_mk_gt, Handlers3.Z3_mk_gt)
    OBVIOUS
  <2>8. Matches(SolverMethods.Z3_mk_eq, Handlers3.Z3_mk_eq)
    OBVIOUS
  <2>9. Matches(SolverMethods.Z3_mk_int, Handlers3.Z3_mk_int)
    OBVIOUS
  <2> HIDE DEF SolverMethods, Handlers3, Matches, Agree, ReadAs, InPlace, Numbers,
               OnContext
  <2> QED
    BY <2>1, <2>2, <2>3, <2>4, <2>5, <2>6, <2>7, <2>8, <2>9, HandlerNames, MethodNames
<1> QED
  BY <1>1, <1>2

LEMMA QueriesMatch ==
    /\ \A x \in DOMAIN QueryMethods \cap DOMAIN Handlers3 :
          Matches(QueryMethods[x], Handlers3[x])
    /\ \A x \in DOMAIN QueryMethods \cap DOMAIN Handlers4 :
          Matches(QueryMethods[x], Handlers4[x])
    /\ \A x \in DOMAIN QueryMethods \cap DOMAIN Handlers5 :
          Matches(QueryMethods[x], Handlers5[x])
<1>1. \A x \in DOMAIN QueryMethods \cap DOMAIN Handlers3 :
          Matches(QueryMethods[x], Handlers3[x])
  <2> USE DEF QueryMethods, Handlers3, Matches, Agree, ReadAs, InPlace, Numbers,
               OnContext
  <2>1. Matches(QueryMethods.Z3_set_error_handler, Handlers3.Z3_set_error_handler)
    OBVIOUS
  <2> HIDE DEF QueryMethods, Handlers3, Matches, Agree, ReadAs, InPlace, Numbers,
               OnContext
  <2> QED
    BY <2>1, HandlerNames, MethodNames
<1>2. \A x \in DOMAIN QueryMethods \cap DOMAIN Handlers4 :
          Matches(QueryMethods[x], Handlers4[x])
  <2> USE DEF QueryMethods, Handlers4, Matches, Agree, ReadAs, InPlace, Numbers,
               OnContext
  <2>1. Matches(QueryMethods.Z3_get_symbol_kind, Handlers4.Z3_get_symbol_kind)
    OBVIOUS
  <2>2. Matches(QueryMethods.Z3_get_symbol_int, Handlers4.Z3_get_symbol_int)
    OBVIOUS
  <2>3. Matches(QueryMethods.Z3_model_get_num_consts, Handlers4.Z3_model_get_num_consts)
    OBVIOUS
  <2>4. Matches(QueryMethods.Z3_model_get_const_decl, Handlers4.Z3_model_get_const_decl)
    OBVIOUS
  <2>5. Matches(QueryMethods.Z3_get_decl_name, Handlers4.Z3_get_decl_name)
    OBVIOUS
  <2>6. Matches(QueryMethods.Z3_mk_app, Handlers4.Z3_mk_app)
    OBVIOUS
  <2>7. Matches(QueryMethods.Z3_model_eval, Handlers4.Z3_model_eval)
    OBVIOUS
  <2>8. Matches(QueryMethods.Z3_get_ast_kind, Handlers4.Z3_get_ast_kind)
    OBVIOUS
  <2>9. Matches(QueryMethods.Z3_get_numeral_string, Handlers4.Z3_get_numeral_string)
    OBVIOUS
  <2>10. Matches(QueryMethods.Z3_get_sort, Handlers4.Z3_get_sort)
    OBVIOUS
  <2> HIDE DEF QueryMethods, Handlers4, Matches, Agree, ReadAs, InPlace, Numbers,
               OnContext
  <2> QED
    BY <2>1, <2>2, <2>3, <2>4, <2>5, <2>6, <2>7, <2>8, <2>9, <2>10, HandlerNames,
       MethodNames
<1>3. \A x \in DOMAIN QueryMethods \cap DOMAIN Handlers5 :
          Matches(QueryMethods[x], Handlers5[x])
  <2> USE DEF QueryMethods, Handlers5, Matches, Agree, ReadAs, InPlace, Numbers,
               OnContext
  <2>1. Matches(QueryMethods.Z3_get_sort_kind, Handlers5.Z3_get_sort_kind)
    OBVIOUS
  <2>2. Matches(QueryMethods.Z3_get_sort_name, Handlers5.Z3_get_sort_name)
    OBVIOUS
  <2>3. Matches(QueryMethods.Z3_get_bv_sort_size, Handlers5.Z3_get_bv_sort_size)
    OBVIOUS
  <2>4. Matches(QueryMethods.Z3_get_array_sort_domain, Handlers5.Z3_get_array_sort_domain)
    OBVIOUS
  <2>5. Matches(QueryMethods.Z3_get_array_sort_range, Handlers5.Z3_get_array_sort_range)
    OBVIOUS
  <2>6. Matches(QueryMethods.Z3_del_context, Handlers5.Z3_del_context)
    OBVIOUS
  <2> HIDE DEF QueryMethods, Handlers5, Matches, Agree, ReadAs, InPlace, Numbers,
               OnContext
  <2> QED
    BY <2>1, <2>2, <2>3, <2>4, <2>5, <2>6, HandlerNames, MethodNames
<1> QED
  BY <1>1, <1>2, <1>3

LEMMA ArraysMatch ==
    \A x \in DOMAIN ArrayMethods :
        /\ Agree(ArrayMethods[x], ArrayHandlers[x])
        /\ ArrayMethods[x].type = ArrayHandlers[x].type \/ x = "strlen"
<1> USE DEF ReadAs, InPlace, Numbers, None, OnArray, Create
<1>1. Agree(ArrayMethods["mem_alloc<char>"], ArrayHandlers["mem_alloc<char>"])
  BY DEF ArrayMethods, ArrayHandlers, Agree
<1>2. Agree(ArrayMethods["set<char>"], ArrayHandlers["set<char>"])
  BY DEF ArrayMethods, ArrayHandlers, Agree
<1>3. Agree(ArrayMethods["get<char>"], ArrayHandlers["get<char>"])
  BY DEF ArrayMethods, ArrayHandlers, Agree
<1>4. Agree(ArrayMethods["strlen"], ArrayHandlers["strlen"])
  BY DEF ArrayMethods, ArrayHandlers, Agree
<1>5. Agree(ArrayMethods["mem_alloc<Z3_ast>"], ArrayHandlers["mem_alloc<Z3_ast>"])
  BY DEF ArrayMethods, ArrayHandlers, Agree
<1>6. Agree(ArrayMethods["set<Z3_ast>"], ArrayHandlers["set<Z3_ast>"])
  BY DEF ArrayMethods, ArrayHandlers, Agree
<1>7. Agree(ArrayMethods["get<Z3_ast>"], ArrayHandlers["get<Z3_ast>"])
  BY DEF ArrayMethods, ArrayHandlers, Agree
<1>8. \A x \in DOMAIN ArrayMethods \ {"strlen"} : ArrayMethods[x].type = ArrayHandlers[x].type
  BY DEF ArrayMethods, ArrayHandlers
<1> QED
  BY <1>1, <1>2, <1>3, <1>4, <1>5, <1>6, <1>7, <1>8, MethodNames

LEMMA MethodsOf ==
    /\ DOMAIN Methods = DOMAIN ConfigAndTermMethods \cup DOMAIN SolverMethods
                           \cup DOMAIN QueryMethods \cup DOMAIN ArrayMethods
    /\ \A x \in DOMAIN ConfigAndTermMethods : Methods[x] = ConfigAndTermMethods[x]
    /\ \A x \in DOMAIN SolverMethods : Methods[x] = SolverMethods[x]
    /\ \A x \in DOMAIN QueryMethods : Methods[x] = QueryMethods[x]
    /\ \A x \in DOMAIN ArrayMethods : Methods[x] = ArrayMethods[x]
<1>1. PICK a, b : /\ a = Joined(ConfigAndTermMethods, SolverMethods)
                  /\ b = Joined(QueryMethods, ArrayMethods)
  OBVIOUS
<1>2. Methods = Joined(a, b)
  BY <1>1 DEF Methods
<1>3. /\ DOMAIN a = DOMAIN ConfigAndTermMethods \cup DOMAIN SolverMethods
      /\ \A x \in DOMAIN ConfigAndTermMethods : a[x] = ConfigAndTermMethods[x]
      /\ \A x \in DOMAIN SolverMethods : a[x] = SolverMethods[x]
  <2>1. \A x \in DOMAIN SolverMethods : x \notin DOMAIN ConfigAndTermMethods
    BY MethodNames
  <2> QED
    BY <1>1, <2>1 DEF Joined
<1>4. /\ DOMAIN b = DOMAIN QueryMethods \cup DOMAIN ArrayMethods
      /\ \A x \in DOMAIN QueryMethods : b[x] = QueryMethods[x]
      /\ \A x \in DOMAIN ArrayMethods : b[x] = ArrayMethods[x]
  <2>1. \A x \in DOMAIN ArrayMethods : x \notin DOMAIN QueryMethods
    BY MethodNames
  <2> QED
    BY <1>1, <2>1 DEF Joined
<1>5. \A x \in DOMAIN b : x \notin DOMAIN a
  BY <1>3, <1>4, MethodNames
<1>6. /\ DOMAIN Methods = DOMAIN a \cup DOMAIN b
      /\ \A x \in DOMAIN a : Methods[x] = a[x]
      /\ \A x \in DOMAIN b : Methods[x] = b[x]
  BY <1>2, <1>5 DEF Joined
<1> QED
  BY <1>3, <1>4, <1>6

(***************************************************************************)
(* The tables of the wrapper and of the receiver, which two runs of the    *)
(* generator wrote in two languages: every method has a handler of its     *)
(* name, for the same type of object (strlen is found by its name alone),  *)
(* with the same number of parameters, which reads each as what the        *)
(* wrapper passes, and whose result is what the wrapper takes it for.      *)
(***************************************************************************)
THEOREM TablesAgree == \A name \in DOMAIN Methods : Paired(name)
<1>1. ASSUME NEW x \in DOMAIN ConfigAndTermMethods PROVE Paired(x)
  <2>1. x \in DOMAIN Handlers1 \/ x \in DOMAIN Handlers2
    BY HandlerNames, MethodNames
  <2>2. CASE x \in DOMAIN Handlers1
    BY <2>2, HandlersOf, MethodsOf, TermsMatch DEF Paired, Matches
  <2>3. CASE x \in DOMAIN Handlers2
    BY <2>3, HandlersOf, MethodsOf, TermsMatch DEF Paired, Matches
  <2> QED
    BY <2>1, <2>2, <2>3
<1>2. ASSUME NEW x \in DOMAIN SolverMethods PROVE Paired(x)
  <2>1. x \in DOMAIN Handlers2 \/ x \in DOMAIN Handlers3
    BY HandlerNames, MethodNames
  <2>2. CASE x \in DOMAIN Handlers2
    BY <2>2, HandlersOf, MethodsOf, SolversMatch DEF Paired, Matches
  <2>3. CASE x \in DOMAIN Handlers3
    BY <2>3, HandlersOf, MethodsOf, SolversMatch DEF Paired, Matches
  <2> QED
    BY <2>1, <2>2, <2>3
<1>3. ASSUME NEW x \in DOMAIN QueryMethods PROVE Paired(x)
  <2>1. x \in DOMAIN Handlers3 \/ x \in DOMAIN Handlers4 \/ x \in DOMAIN Handlers5
    BY HandlerNames, MethodNames
  <2>2. CASE x \in DOMAIN Handlers3
    BY <2>2, HandlersOf, MethodsOf, QueriesMatch DEF Paired, Matches
  <2>3. CASE x \in DOMAIN Handlers4
    BY <2>3, HandlersOf, MethodsOf, QueriesMatch DEF Paired, Matches
  <2>4. CASE x \in DOMAIN Handlers5
    BY <2>4, HandlersOf, MethodsOf, QueriesMatch DEF Paired, Matches
  <2> QED
    BY <2>1, <2>2, <2>3, <2>4
<1>4. ASSUME NEW x \in DOMAIN ArrayMethods PROVE Paired(x)
  <2>1. x \in DOMAIN ArrayHandlers
    BY HandlerNames, MethodNames
  <2> QED
    BY <2>1, HandlersOf, MethodsOf, ArraysMatch DEF Paired
<1> QED
  BY <1>1, <1>2, <1>3, <1>4, MethodsOf

-----------------------------------------------------------------------------
(***************************************************************************)
(* The inductive invariant: ids in the table are numbers that the counter  *)
(* has passed, so that the next one replaces nothing; a handle names an    *)
(* object of its class; a request passes handles of the classes of its     *)
(* method; a response holds what its method takes it for.                  *)
(***************************************************************************)

Counted == counter \in Nat /\ \A id \in DOMAIN persistence : id \in 0 .. counter - 1

Passes(class, arg) == IF class \in InPlace THEN arg = Inplace ELSE PointsTo(arg, class)

RequestFits ==
    request # NoRequest =>
        /\ request.name \in DOMAIN Methods
        /\ request.type = Methods[request.name].type
        /\ Methods[request.name].object # None =>
              PointsTo(request.object, Methods[request.name].object)
        /\ DOMAIN request.args = DOMAIN Methods[request.name].params
        /\ \A i \in DOMAIN request.args :
              Passes(Methods[request.name].params[i], request.args[i])

ResponseFits ==
    response # NoResponse =>
        /\ request # NoRequest
        /\ Methods[request.name].result \in InPlace => response.number
        /\ Methods[request.name].result \in Classes =>
              ~response.number /\ PointsTo(response.id, Methods[request.name].result)

IInv == Counted /\ HandlesFit /\ RequestFits /\ ResponseFits

\* The number that the next request takes names nothing yet.
LEMMA Fresh ==
    ASSUME Counted
    PROVE counter \notin DOMAIN persistence
BY DEF Counted

\* Storing under a fresh id keeps every pointer that is in persistence.
LEMMA StoredKeeps ==
    ASSUME NEW new, NEW type, new \notin DOMAIN persistence,
           persistence' = Stored(new, type)
    PROVE /\ DOMAIN persistence' = DOMAIN persistence \cup {new}
          /\ persistence'[new] = type
          /\ \A id \in DOMAIN persistence : persistence'[id] = persistence[id]
BY DEF Stored

LEMMA InitIInv == Init => IInv
<1> SUFFICES ASSUME Init PROVE IInv
  OBVIOUS
<1>1. DOMAIN persistence = {}
  BY DEF Init
<1> QED
  BY <1>1 DEF Init, IInv, Counted, HandlesFit, RequestFits, ResponseFits

\* Handles, requests and responses keep what they point to if the pointers stay.
LEMMA PointersKept ==
    ASSUME \A id \in DOMAIN persistence :
              id \in DOMAIN persistence' /\ persistence'[id] = persistence[id],
           NEW id, NEW type, PointsTo(id, type)
    PROVE PointsTo(id, type)'
BY DEF PointsTo

LEMMA CallIInv ==
    ASSUME IInv, request = NoRequest,
           NEW name \in DOMAIN Methods, NEW object, NEW args,
           DOMAIN args = DOMAIN Methods[name].params,
           MakeRequest(name, object, args)
    PROVE IInv'
<1>1. /\ response' = response /\ handles' = handles
      /\ counter' = counter /\ persistence' = persistence
      /\ request' = [name |-> name, type |-> Methods[name].type, object |-> object,
                     args |-> args]
  BY DEF MakeRequest
<1>2. Counted' /\ HandlesFit'
  BY <1>1 DEF IInv, Counted, HandlesFit, PointsTo
<1>3. response = NoResponse
  BY DEF IInv, ResponseFits
<1>4. Paired(name)
  BY TablesAgree
<1>5. ASSUME NEW class, NEW a \in Arguments(class) PROVE Passes(class, a)'
  <2>1. CASE class \in InPlace
    BY <1>5, <2>1 DEF Arguments, InPlace, Passes
  <2>2. CASE class \notin InPlace
    <3>1. PICK h \in handles : h.class = class /\ h.id = a
      BY <1>5, <2>2 DEF Arguments, InPlace
    <3> QED
      BY <1>1, <2>2, <3>1 DEF IInv, HandlesFit, PointsTo, Passes
  <2> QED
    BY <2>1, <2>2
<1>6. Methods[name].object # None => PointsTo(object, Methods[name].object)'
  <2>1. Methods[name].object \notin InPlace
    BY <1>4 DEF Paired, Agree
  <2>2. Methods[name].object # None => object \in Arguments(Methods[name].object)
    BY DEF MakeRequest, Objects
  <2> QED
    BY <1>5, <2>1, <2>2 DEF Passes
<1>7. \A i \in DOMAIN args : Passes(Methods[name].params[i], args[i])'
  <2>1. \A i \in DOMAIN args : args[i] \in Arguments(Methods[name].params[i])
    BY DEF MakeRequest
  <2> QED
    BY <1>5, <2>1
<1>8. RequestFits'
  BY <1>1, <1>6, <1>7 DEF RequestFits
<1>9. ResponseFits'
  BY <1>1, <1>3 DEF ResponseFits
<1> QED
  BY <1>2, <1>8, <1>9 DEF IInv

LEMMA ExecuteKeeps ==
    ASSUME Counted, Execute
    PROVE /\ Counted'
          /\ \A id \in DOMAIN persistence :
                id \in DOMAIN persistence' /\ persistence'[id] = persistence[id]
<1>1. PICK type : type = Handlers[request.name].result
  OBVIOUS
<1>2. counter' = counter + 1
  BY DEF Execute
<1>3. CASE type \in {"void", "number"}
  <2>1. persistence' = persistence
    BY <1>1, <1>3 DEF Execute, Process
  <2> QED
    BY <1>2, <2>1 DEF Counted
<1>4. CASE type \notin {"void", "number"}
  <2>1. persistence' = Stored(counter, type)
    BY <1>1, <1>4 DEF Execute, Process
  <2>2. /\ DOMAIN persistence' = DOMAIN persistence \cup {counter}
        /\ \A id \in DOMAIN persistence : persistence'[id] = persistence[id]
    BY <2>1, Fresh, StoredKeeps
  <2>3. Counted'
    BY <1>2, <2>2 DEF Counted
  <2> QED
    BY <2>2, <2>3
<1> QED
  BY <1>3, <1>4

LEMMA ExecuteIInv ==
    ASSUME IInv, Execute
    PROVE IInv'
<1>1. /\ Counted'
      /\ \A id \in DOMAIN persistence :
            id \in DOMAIN persistence' /\ persistence'[id] = persistence[id]
  BY ExecuteKeeps DEF IInv
<1>2. \A id, type : PointsTo(id, type) => PointsTo(id, type)'
  BY <1>1, PointersKept
<1>3. handles' = handles /\ request' = request /\ request # NoRequest
  BY DEF Execute
<1>4. HandlesFit'
  BY <1>2, <1>3 DEF IInv, HandlesFit
<1>5. RequestFits'
  BY <1>2, <1>3 DEF IInv, RequestFits, Passes
<1>6. PICK name : name = request.name
  OBVIOUS
<1>7. PICK type : type = Handlers[name].result
  OBVIOUS
<1>8. Paired(name)
  BY <1>3, <1>6, TablesAgree DEF IInv, RequestFits
<1>9. ASSUME Methods[name].result \in InPlace
      PROVE response'.number
  <2>1. type = "number"
    BY <1>7, <1>8, <1>9 DEF Paired, Agree
  <2>2. response' = [id |-> counter, number |-> type = "number"]
    BY <1>6, <1>7 DEF Execute, Process
  <2> QED
    BY <2>1, <2>2
<1>10. ASSUME Methods[name].result \in Classes
       PROVE ~response'.number /\ PointsTo(response.id, Methods[name].result)'
  <2>1. Methods[name].result \notin InPlace \cup {"Unit"}
    BY <1>10 DEF Classes, InPlace
  <2>2. Methods[name].result = type /\ type \notin {"void", "number"}
    BY <1>7, <1>8, <2>1 DEF Paired, Agree
  <2>3. /\ persistence' = Stored(counter, type)
        /\ response' = [id |-> counter, number |-> type = "number"]
    BY <1>6, <1>7, <2>2 DEF Execute, Process
  <2>4. counter \in DOMAIN persistence' /\ persistence'[counter] = type
    BY <2>3 DEF Stored
  <2>5. response'.id = counter /\ ~response'.number
    BY <2>2, <2>3
  <2> QED
    BY <2>2, <2>4, <2>5 DEF PointsTo
<1>11. ResponseFits'
  BY <1>3, <1>6, <1>9, <1>10 DEF ResponseFits
<1> QED
  BY <1>1, <1>4, <1>5, <1>11 DEF IInv

LEMMA ReceiveIInv ==
    ASSUME IInv, Receive
    PROVE IInv'
<1>1. PICK class : class = Methods[request.name].result
  OBVIOUS
<1>2. /\ counter' = counter /\ persistence' = persistence
      /\ request' = NoRequest /\ response' = NoResponse
      /\ handles' = handles \cup {[class |-> c, id |-> response.id] :
                                      c \in {class} \cap Classes}
  BY <1>1 DEF Receive
<1>3. class \in Classes => PointsTo(response.id, class)
  BY <1>1 DEF Receive, IInv, ResponseFits
<1>4. \A h \in handles' : PointsTo(h.id, h.class)'
  BY <1>2, <1>3 DEF IInv, HandlesFit, PointsTo
<1> QED
  BY <1>2, <1>4 DEF IInv, Counted, HandlesFit, RequestFits, ResponseFits

(***************************************************************************)
(* The invariant that the others follow from: ids below the counter, and   *)
(* handles, request and response that fit their method's classes.          *)
(***************************************************************************)
THEOREM HandlesInvariance == Spec => []IInv
<1>1. IInv /\ [Next]_vars => IInv'
  <2> SUFFICES ASSUME IInv, [Next]_vars PROVE IInv'
    OBVIOUS
  <2>1. CASE Call
    <3>1. PICK name \in DOMAIN Methods :
             \E object, args : /\ DOMAIN args = DOMAIN Methods[name].params
                               /\ MakeRequest(name, object, args)
      BY <2>1 DEF Call
    <3>2. request = NoRequest
      BY <2>1 DEF Call
    <3> QED
      BY <3>1, <3>2, CallIInv
  <2>2. CASE Execute
    BY <2>2, ExecuteIInv
  <2>3. CASE Receive
    BY <2>3, ReceiveIInv
  <2>4. CASE UNCHANGED vars
    BY <2>4 DEF vars, IInv, Counted, HandlesFit, RequestFits, Passes,
                ResponseFits, PointsTo
  <2> QED
    BY <2>1, <2>2, <2>3, <2>4 DEF Next
<1> QED
  BY <1>1, InitIInv, PTL DEF Spec

(***************************************************************************)
(* z3.cpp never casts a pointer to another type than the object's: every   *)
(* request of the wrapper is found, with its object and its parameters of  *)
(* the types that the handler casts to (CastsFit).                         *)
(***************************************************************************)
THEOREM Casts == Spec => []CastsFit
<1>1. IInv => CastsFit
  <2> SUFFICES ASSUME IInv, request # NoRequest PROVE CastsFit
    BY DEF CastsFit
  <2>1. PICK name : name = request.name
    OBVIOUS
  <2>2. name \in DOMAIN Methods /\ request.type = Methods[name].type
    BY <2>1 DEF IInv, RequestFits
  <2>3. Paired(name)
    BY <2>2, TablesAgree
  <2>4. Found(request)
    BY <2>1, <2>2, <2>3 DEF Found, Paired
  <2>5. Handlers[name].object # None => PointsTo(request.object, Handlers[name].object)
    BY <2>1, <2>3 DEF IInv, RequestFits, Paired, Agree
  <2>6. DOMAIN Handlers[name].params = DOMAIN request.args
    BY <2>1, <2>3 DEF IInv, RequestFits, Paired, Agree
  <2>7. ASSUME NEW i \in DOMAIN Handlers[name].params
        PROVE IF Handlers[name].params[i] \in Numbers THEN request.args[i] = Inplace
              ELSE PointsTo(request.args[i], Handlers[name].params[i])
    <3>1. PICK class : class = Methods[name].params[i]
      OBVIOUS
    <3>2. ReadAs(class, Handlers[name].params[i])
      BY <2>3, <3>1 DEF Paired, Agree
    <3>3. Passes(class, request.args[i])
      BY <2>1, <2>6, <3>1 DEF IInv, RequestFits
    <3> QED
      BY <3>2, <3>3 DEF ReadAs, Passes
  <2> QED
    BY <2>1, <2>4, <2>5, <2>6, <2>7 DEF CastsFit
<1> QED
  BY <1>1, HandlesInvariance, PTL

(***************************************************************************)
(* bindTo never gives a handle the id of an object of another class, for   *)
(* any history of calls (HandlesFit).                                      *)
(***************************************************************************)
THEOREM HandlesNameTheirObjects == Spec => []HandlesFit
<1>1. IInv => HandlesFit
  BY DEF IInv
<1> QED
  BY <1>1, HandlesInvariance, PTL

(***************************************************************************)
(* asInstanceOf finds a number, and bindTo an id, in every response        *)
(* (ResultsConvert).                                                       *)
(***************************************************************************)
THEOREM Conversions == Spec => []ResultsConvert
<1>1. IInv => ResultsConvert
  BY DEF IInv, ResponseFits, ResultsConvert, InPlace
<1> QED
  BY <1>1, HandlesInvariance, PTL

=============================================================================
