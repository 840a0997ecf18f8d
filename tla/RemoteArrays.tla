----------------------------- MODULE RemoteArrays -----------------------------
(***************************************************************************)
(* What an ArrayHandle promises to the wrapper's threads: an array of      *)
(* values, at first zeros, of which get returns what set left there.  set  *)
(* is a get and a write, and another thread may write in between.          *)
(***************************************************************************)
EXTENDS Integers

CONSTANTS
    Threads,
    Arrays,  \* names of arrays
    MaxSize, \* size of the largest array
    Values,  \* values of elements
    Kept,    \* values that get returns as set was given them
    Lengths  \* what the length of a string can be

VARIABLES
    arrays,   \* the elements of each array, none of one that is not allocated
    pending,  \* the set that each thread is in, if any
    returned  \* what the thread's last operation returned

vars == <<arrays, pending, returned>>

Init ==
    /\ arrays = [a \in Arrays |-> [i \in {} |-> 0]]
    /\ pending = [t \in Threads |-> {}]
    /\ returned = [t \in Threads |-> 0]

Allocate(t, a, size) ==
    /\ pending[t] = {}
    /\ DOMAIN arrays[a] = {}
    /\ arrays' = [arrays EXCEPT ![a] = [i \in 0 .. size - 1 |-> 0]]
    /\ UNCHANGED <<pending, returned>>

Get(t, a, i) ==
    /\ pending[t] = {}
    /\ returned' = [returned EXCEPT ![t] = arrays[a][i]]
    /\ UNCHANGED <<arrays, pending>>

\* The get that set begins with.
BeginSet(t, a, i, v) ==
    /\ pending[t] = {}
    /\ pending' = [pending EXCEPT ![t] =
                      {[array |-> a, index |-> i, value |-> v,
                        previous |-> arrays[a][i]]}]
    /\ UNCHANGED <<arrays, returned>>

\* A value that is not kept is replaced by another one.
EndSet(t, p, v) ==
    /\ p \in pending[t]
    /\ p.value \in Kept => v = p.value
    /\ arrays' = [arrays EXCEPT ![p.array][p.index] = v]
    /\ returned' = [returned EXCEPT ![t] = p.previous]
    /\ pending' = [pending EXCEPT ![t] = {}]

\* The elements before the first zero, or any number if there is none.
Length(t, a, n) ==
    /\ pending[t] = {}
    /\ \A i \in DOMAIN arrays[a] : i < n => arrays[a][i] # 0
    /\ n \in DOMAIN arrays[a] => arrays[a][n] = 0
    /\ returned' = [returned EXCEPT ![t] = n]
    /\ UNCHANGED <<arrays, pending>>

Next ==
    \E t \in Threads :
        \/ \E a \in Arrays :
              \/ \E size \in 1 .. MaxSize : Allocate(t, a, size)
              \/ \E i \in DOMAIN arrays[a] :
                    Get(t, a, i) \/ \E v \in Values : BeginSet(t, a, i, v)
              \/ DOMAIN arrays[a] # {} /\ \E n \in Lengths : Length(t, a, n)
        \/ \E p \in pending[t], v \in Values : EndSet(t, p, v)

Spec == Init /\ [][Next]_vars
=============================================================================
