----------------------------- MODULE ArrayHandles -----------------------------
(***************************************************************************)
(* Arrays in the receiver's memory as the wrapper's ArrayHandle uses them  *)
(* through mem_alloc, set and get, each of which is one request.  An array *)
(* of objects has copies of the pointers that the objects' ids lead to,    *)
(* an array of chars has signed bytes.  A request is one step; what        *)
(* happens to the bytes of requests is in RequestTransfer.                 *)
(***************************************************************************)
EXTENDS Integers, FiniteSets

CONSTANTS
    Threads,  \* threads of the wrapper
    Objects,  \* objects of the library
    Chars,    \* characters that are put into arrays of chars
    MaxSize,  \* bound: elements of an array
    Slack,    \* bound: non-zero bytes that strlen finds behind an array
    MaxIds,   \* bound: ids that the receiver gives to objects and arrays
    MaxArrays \* bound: arrays

\* An object has no number that is a character whose byte is extended.
ASSUME ObjectsAssumption == \A n \in Objects \cap Chars : n < 128

ASSUME CharsAssumption == \A c \in Chars : c \in Nat /\ c < 65536

ASSUME BoundsAssumption ==
    /\ Objects \subseteq 1 .. MaxIds
    /\ MaxSize \in Nat
    /\ Slack \in Nat
    /\ MaxIds \in Nat
    /\ MaxArrays \in Nat

Ids == 1 .. MaxIds
ArrayTypes == {"Char[]", "Z3_ast[]"}

VARIABLES
    persistence,  \* what each id leads to
    memory,       \* the bytes or pointers of each array
    pending,      \* the set that each thread is in, after its get
    returned,     \* what the thread's last operation returned
    overlapped    \* history: threads whose element was set since their get

vars == <<persistence, memory, pending, returned, overlapped>>

Unused == [type |-> "unused", to |-> 0]
Nothing == [type |-> "nothing", value |-> 0]

\* An object has its own id in the beginning; the id of an array names its memory.
Init ==
    /\ persistence = [id \in Ids |->
                         IF id \in Objects THEN [type |-> "Z3_ast", to |-> id]
                         ELSE Unused]
    /\ memory = [id \in Ids |-> [i \in {} |-> 0]]
    /\ pending = [t \in Threads |-> {}]
    /\ returned = [t \in Threads |-> Nothing]
    /\ overlapped = {}

\* The id that the next request which stores something uses.
Fresh == {id \in Ids : /\ persistence[id] = Unused
                       /\ \A k \in 1 .. id - 1 : persistence[k] # Unused}

ArrayIds == {id \in Ids : persistence[id].type \in ArrayTypes}
ObjectIds == {id \in Ids : persistence[id].type = "Z3_ast"}

-----------------------------------------------------------------------------
\* static_cast<char>, and the char that becomes an int again.
Byte(n) == ((n + 128) % 256) - 128
ToChar(n) == n % 65536

\* (*array)[pos], where array is what the id leads to.
Element(a, i) == memory[persistence[a].to][i]

IsChars(a) == persistence[a].type = "Char[]"
Char(n) == [type |-> "char", value |-> n]
Handle(id) == [type |-> "handle", value |-> id]

\* As it would be if the array were of unsigned chars.
ResultUnsigned(a, i, id) == IF IsChars(a) THEN Char(Element(a, i) % 256) ELSE Handle(id)

\* As it would be if the copy took the id of the array.
StoreAtArray(a, i, id) ==
    persistence' =
        IF IsChars(a) THEN persistence
        ELSE [persistence EXCEPT ![a] = [type |-> "Z3_ast", to |-> Element(a, i)]]

\* What a get returns: a char, or a new pointer to a copy of the element.
Result(a, i, id) == IF IsChars(a) THEN Char(ToChar(Element(a, i))) ELSE Handle(id)

Store(a, i, id) ==
    persistence' =
        IF IsChars(a) THEN persistence
        ELSE [persistence EXCEPT ![id] = [type |-> "Z3_ast", to |-> Element(a, i)]]

\* The elements that the wrapper can put into an array.
Elements(a) ==
    IF IsChars(a) THEN {Char(c) : c \in Chars} ELSE {Handle(id) : id \in ObjectIds}

\* What set puts into the array for an element.
Written(element) ==
    IF element.type = "char" THEN Byte(element.value) ELSE persistence[element.value].to

-----------------------------------------------------------------------------
\* ArrayHandle's init: calloc, whose elements are zeros, and a pointer to the array.
Allocate(t, type, size, id) ==
    /\ pending[t] = {}
    /\ id \in Fresh
    /\ Cardinality(ArrayIds) < MaxArrays
    /\ memory' = [memory EXCEPT ![id] = [i \in 0 .. size - 1 |-> 0]]
    /\ persistence' = [persistence EXCEPT ![id] = [type |-> type, to |-> id]]
    /\ UNCHANGED <<pending, returned, overlapped>>

Get(t, a, i, id) ==
    /\ pending[t] = {}
    /\ id \in Fresh
    /\ Store(a, i, id)
    /\ returned' = [returned EXCEPT ![t] = Result(a, i, id)]
    /\ UNCHANGED <<memory, pending, overlapped>>

\* ArrayHandle.set begins with a get.
BeginSet(t, a, i, element, id) ==
    /\ pending[t] = {}
    /\ id \in Fresh
    /\ Store(a, i, id)
    /\ pending' = [pending EXCEPT ![t] =
                      {[array |-> a, index |-> i, element |-> element,
                        previous |-> Result(a, i, id)]}]
    /\ UNCHANGED <<memory, returned, overlapped>>

\* As it would be if the element were moved into the array.
EndSetMoves(t, p) ==
    /\ p \in pending[t]
    /\ memory' =
          [memory EXCEPT ![persistence[p.array].to][p.index] = Written(p.element)]
    /\ returned' = [returned EXCEPT ![t] = p.previous]
    /\ pending' = [pending EXCEPT ![t] = {}]
    /\ overlapped' = overlapped \ {t}
    /\ persistence' = IF IsChars(p.array) THEN persistence
                      ELSE [persistence EXCEPT ![p.element.value].to = 0]

\* The request that sets the element.
EndSet(t, p) ==
    /\ p \in pending[t]
    /\ memory' =
          [memory EXCEPT ![persistence[p.array].to][p.index] = Written(p.element)]
    /\ returned' = [returned EXCEPT ![t] = p.previous]
    /\ pending' = [pending EXCEPT ![t] = {}]
    /\ overlapped' = (overlapped \ {t})
                        \cup {u \in Threads \ {t} : \E q \in pending[u] :
                                 q.array = p.array /\ q.index = p.index}
    /\ UNCHANGED persistence

\* Nothing writes a zero behind the last character: without one in the array, strlen
\* goes on behind it.
Strlen(t, a, n) ==
    /\ pending[t] = {}
    /\ IsChars(a)
    /\ \A i \in DOMAIN memory[persistence[a].to] : i < n => Element(a, i) # 0
    /\ n \in DOMAIN memory[persistence[a].to] => Element(a, n) = 0
    /\ returned' = [returned EXCEPT ![t] = Char(n)]
    /\ UNCHANGED <<persistence, memory, pending, overlapped>>

Lengths == 0 .. MaxSize + Slack

Next ==
    \E t \in Threads :
        \/ \E type \in ArrayTypes, size \in 1 .. MaxSize, id \in Ids :
              Allocate(t, type, size, id)
        \/ \E a \in ArrayIds :
              \/ \E i \in DOMAIN memory[persistence[a].to], id \in Ids :
                    \/ Get(t, a, i, id)
                    \/ \E element \in Elements(a) : BeginSet(t, a, i, element, id)
              \/ \E n \in Lengths : Strlen(t, a, n)
        \/ \E p \in pending[t] : EndSet(t, p)

Spec == Init /\ [][Next]_vars

-----------------------------------------------------------------------------
\* What the wrapper's value for an element stands for.
Meaning(element) ==
    IF element.type = "handle" THEN persistence[element.value].to ELSE element.value

Contents(a) ==
    IF a \in ArrayIds
    THEN [i \in DOMAIN memory[persistence[a].to] |->
            IF IsChars(a) THEN ToChar(Element(a, i)) ELSE Element(a, i)]
    ELSE [i \in {} |-> 0]

Values == {0} \cup Objects \cup Chars \cup {ToChar(Byte(c)) : c \in Chars}

Abstract ==
    INSTANCE RemoteArrays WITH
        Arrays <- Ids,
        Kept <- 0 .. 127 \cup Objects,
        arrays <- [a \in Ids |-> Contents(a)],
        pending <- [t \in Threads |->
                       {[array |-> p.array, index |-> p.index,
                         value |-> Meaning(p.element),
                         previous |-> Meaning(p.previous)] : p \in pending[t]}],
        returned <- [t \in Threads |-> Meaning(returned[t])]

(***************************************************************************)
(* The arrays behave as the abstract ones do: through two pointers, the    *)
(* copies of pointers and the conversions of chars, get returns what set   *)
(* was given, and zero before, and no set changes what an earlier get      *)
(* returned.  Of chars this holds below 128.                               *)
(***************************************************************************)
Implements == Abstract!Spec

(***************************************************************************)
(* set returns the element that it replaces, unless another thread has set *)
(* the same element between the get and the set of which it consists.      *)
(***************************************************************************)
SetReturnsReplaced ==
    \A t \in Threads \ overlapped : \A p \in pending[t] :
        Meaning(p.previous) = Contents(p.array)[p.index]

TypeOK ==
    /\ persistence \in [Ids -> [type : ArrayTypes \cup {"Z3_ast", "unused"}, to : Nat]]
    /\ \A a \in ArrayIds : persistence[a].to \in ArrayIds
    /\ \A id \in ObjectIds : persistence[id].to \in Objects \cup {0}
    /\ \A t \in Threads : \A p \in pending[t] :
          p.array \in ArrayIds /\ p.index \in DOMAIN memory[persistence[p.array].to]
    /\ overlapped \subseteq Threads
=============================================================================
