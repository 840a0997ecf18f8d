-------------------------- MODULE MCRequestExchange --------------------------
(***************************************************************************)
(* Model checking of RequestExchange on small instances.                   *)
(***************************************************************************)
EXTENDS RequestExchange, TLC

\* Threads and channels are interchangeable in the safety properties.
Symmetry == Permutations(Threads) \cup Permutations(Channels)

=============================================================================
