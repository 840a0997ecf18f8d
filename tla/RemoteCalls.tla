----------------------------- MODULE RemoteCalls -----------------------------
(***************************************************************************)
(* What the library-link layer promises to the code that uses a wrapper    *)
(* class: a call that was issued is executed by the library at most once,  *)
(* and makeRequest returns normally only after the library has executed    *)
(* the very call that was issued.  A call may also end in an exception, or *)
(* vanish with the wrapper process: then nothing is said about whether the *)
(* library has executed it or will still do so.                            *)
(***************************************************************************)
EXTENDS Naturals

CONSTANT MaxCalls      \* bound: how many calls are issued in a behaviour

Calls == 0 .. MaxCalls - 1

VARIABLES
    issued,     \* number of calls issued so far; the next call gets this number
    waiting,    \* the calls whose caller is still inside makeRequest
    runs,       \* runs[k]: how often the library has executed call k
    returned    \* the calls whose makeRequest has returned a response

vars == <<issued, waiting, runs, returned>>

Init ==
    /\ issued = 0
    /\ waiting = {}
    /\ runs = [k \in Calls |-> 0]
    /\ returned = {}

Issue ==
    /\ issued < MaxCalls
    /\ issued' = issued + 1
    /\ waiting' = waiting \cup {issued}
    /\ UNCHANGED <<runs, returned>>

\* A lost call may still be executed, so this does not ask for k \in waiting.
Execute(k) ==
    /\ k < issued
    /\ runs[k] = 0
    /\ runs' = [runs EXCEPT ![k] = 1]
    /\ UNCHANGED <<issued, waiting, returned>>

Return(k) ==
    /\ k \in waiting
    /\ runs[k] = 1
    /\ waiting' = waiting \ {k}
    /\ returned' = returned \cup {k}
    /\ UNCHANGED <<issued, runs>>

\* Exceptions, or the end of the wrapper process.
Lose(K) ==
    /\ K # {}
    /\ waiting' = waiting \ K
    /\ UNCHANGED <<issued, runs, returned>>

Next ==
    \/ Issue
    \/ \E k \in Calls : Execute(k) \/ Return(k)
    \/ \E K \in SUBSET waiting : Lose(K)

Spec == Init /\ [][Next]_vars

=============================================================================
