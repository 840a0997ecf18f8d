------------------------------ MODULE MCCallbacks ------------------------------
(***************************************************************************)
(* TLC instance of Callbacks.                                              *)
(***************************************************************************)
EXTENDS Callbacks

=============================================================================
