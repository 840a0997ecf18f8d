-------------------------- MODULE MCRequestTransfer --------------------------
(***************************************************************************)
(* TLC instance of RequestTransfer: a constructor, methods with each kind  *)
(* of parameter and result, and one that is found by its name alone.  Two  *)
(* methods differ in their types only, one name begins another.            *)
(***************************************************************************)
EXTENDS RequestTransfer

Parameter(kind) == [kind |-> kind, key |-> <<107>>]

Method(name, type, params, kind) ==
    [name |-> name, type |-> type, object |-> TRUE, static |-> FALSE, params |-> params,
     returns |-> kind # "void", result |-> kind, byName |-> FALSE]

Construct ==
    [Method(<<109>>, <<97>>, <<>>, "object") EXCEPT !.object = FALSE, !.static = TRUE]

SomeMethods ==
    {Construct,
     Method(<<109>>, <<97, 98>>, <<Parameter("object"), Parameter("number")>>, "object"),
     Method(<<103>>, <<97>>, <<Parameter("number")>>, "number"),
     Method(<<103>>, <<98>>, <<Parameter("string")>>, "void"),
     [Method(<<115, 108>>, <<99>>, <<>>, "number") EXCEPT !.byName = TRUE]}

BooleanMethod == {Method(<<101>>, <<97>>, <<Parameter("boolean")>>, "number")}

\* "1" and "10"
SomeObjects == {<<49>>, <<49, 48>>}

SomeNames == {<<105>>}

SomeNumbers == {-1, 0, 256}

SomeStrings == {<<>>, <<49>>}

=============================================================================
