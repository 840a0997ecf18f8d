---------------------------- MODULE MCArrayHandles ----------------------------
(***************************************************************************)
(* TLC instance of ArrayHandles.                                           *)
(***************************************************************************)
EXTENDS ArrayHandles

SomeObjects == {1, 2}

\* A letter, and a character that a signed byte has no room for.
SomeChars == {65, 200}

=============================================================================
