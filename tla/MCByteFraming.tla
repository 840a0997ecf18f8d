--------------------------- MODULE MCByteFraming ---------------------------
(***************************************************************************)
(* TLC instance of ByteFraming.                                            *)
(***************************************************************************)
EXTENDS ByteFraming

Link(w, r) == [writer |-> w, reader |-> r]

\* Requests go from a wrapper to a receiver, responses back.
AllLinks ==
    {Link("kotlin", "cpp"), Link("kotlin", "go"), Link("kotlin", "python"),
     Link("cpp", "kotlin"), Link("go", "kotlin")}

\* The C++ receiver answers.
Responses == {Link("cpp", "kotlin")}

SomeLengths == {1, 4, 8}

=============================================================================
