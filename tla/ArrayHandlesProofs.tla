-------------------------- MODULE ArrayHandlesProofs --------------------------
(***************************************************************************)
(* Proofs about ArrayHandles: an inductive invariant on what ids lead to,  *)
(* what memory holds and what the sets in progress name; from it the type  *)
(* invariant, the promise of set, and that the arrays in the receiver's    *)
(* memory implement the abstract ones of RemoteArrays.                     *)
(***************************************************************************)
EXTENDS ArrayHandles, TLAPS

-----------------------------------------------------------------------------
(* The inductive invariant. *)

Bytes == {0} \cup {Byte(c) : c \in Chars}
Pointers == {0} \cup Objects

\* What an element of array a can be.
ElementValues(a) == IF IsChars(a) THEN Bytes ELSE Pointers

Typed ==
    /\ persistence \in [Ids -> [type : ArrayTypes \cup {"Z3_ast", "unused"}, to : Nat]]
    /\ DOMAIN pending = Threads
    /\ DOMAIN returned = Threads
    /\ DOMAIN memory = Ids
    /\ overlapped \subseteq Threads

\* Every array has memory of its own, with one value for each of its elements.
OwnMemory ==
    \A a \in ArrayIds :
        /\ persistence[a].to = a
        /\ \E size \in 1 .. MaxSize : memory[a] \in [0 .. size - 1 -> ElementValues(a)]

\* An id of an object leads to an object, or nowhere for an element that was not set.
ObjectsLead == \A id \in ObjectIds : persistence[id].to \in Pointers

\* A value of the wrapper never holds an id that stands for nothing.
Known(value) == value.type = "handle" => value.value \in ObjectIds

PendingKnown ==
    \A t \in Threads : \A p \in pending[t] :
        /\ p.array \in ArrayIds
        /\ p.index \in DOMAIN memory[p.array]
        /\ p.element \in Elements(p.array)
        /\ Known(p.previous)

ReturnedKnown == \A t \in Threads : Known(returned[t])

Inv ==
    /\ Typed
    /\ OwnMemory
    /\ ObjectsLead
    /\ PendingKnown
    /\ ReturnedKnown
    /\ SetReturnsReplaced

-----------------------------------------------------------------------------
(* Conversions of chars. *)

LEMMA ByteRange == ASSUME NEW n \in Int PROVE Byte(n) \in -128 .. 127
BY DEF Byte

LEMMA ByteKeeps == ASSUME NEW n \in 0 .. 127 PROVE ToChar(Byte(n)) = n
BY DEF Byte, ToChar

LEMMA ToCharZero == ASSUME NEW n \in -128 .. 127 PROVE ToChar(n) = 0 <=> n = 0
BY DEF ToChar

LEMMA BytesRange == Bytes \subseteq -128 .. 127
<1>1. ASSUME NEW c \in Chars PROVE Byte(c) \in -128 .. 127
  <2>1. c \in Int
    BY CharsAssumption
  <2> QED
    BY <2>1, ByteRange
<1> QED
  BY <1>1 DEF Bytes

LEMMA PointersRange == ASSUME NEW n \in Pointers PROVE n \in Nat
BY BoundsAssumption DEF Pointers

\* A character that is kept is one that a signed byte has room for.
LEMMA CharsKept == ASSUME NEW c \in Chars, c \in 0 .. 127 \cup Objects PROVE c \in 0 .. 127
BY CharsAssumption, ObjectsAssumption

-----------------------------------------------------------------------------
(* What is stored under a fresh id leaves alone what the other ids lead to. *)

\* No id that leads to an array or an object leads elsewhere after the step.
Grows == \A k \in ArrayIds \cup ObjectIds : persistence'[k] = persistence[k]

LEMMA FreshIsNew ==
    ASSUME NEW id \in Fresh
    PROVE  id \in Ids /\ persistence[id] = Unused /\ id \notin ArrayIds \cup ObjectIds
BY DEF Fresh, ArrayIds, ObjectIds, Unused, ArrayTypes

LEMMA GrowsKeeps ==
    ASSUME Grows
    PROVE  /\ ArrayIds \subseteq ArrayIds'
           /\ ObjectIds \subseteq ObjectIds'
           /\ \A v : Known(v) => Known(v)' /\ Meaning(v)' = Meaning(v)
           /\ \A a \in ArrayIds : IsChars(a)' = IsChars(a)
BY DEF Grows, ArrayIds, ObjectIds, Known, Meaning, IsChars

\* The elements that were put into an array still can be.
LEMMA GrowsElements ==
    ASSUME Grows, NEW a \in ArrayIds
    PROVE  /\ Elements(a) \subseteq Elements(a)'
           /\ ElementValues(a)' = ElementValues(a)
<1>1. IsChars(a)' = IsChars(a) /\ ObjectIds \subseteq ObjectIds'
  BY GrowsKeeps
<1> QED
  BY <1>1 DEF Elements, ElementValues, Bytes, Pointers

LEMMA ContentsOfArray ==
    ASSUME OwnMemory, NEW a \in ArrayIds
    PROVE  Contents(a) = [i \in DOMAIN memory[a] |->
                             IF IsChars(a) THEN ToChar(memory[a][i]) ELSE memory[a][i]]
BY DEF OwnMemory, Contents, Element

LEMMA ContentsKept ==
    ASSUME OwnMemory, OwnMemory', Grows, NEW a \in ArrayIds, memory'[a] = memory[a]
    PROVE  Contents(a)' = Contents(a)
<1>1. a \in ArrayIds' /\ IsChars(a)' = IsChars(a)
  BY GrowsKeeps
<1>2. Contents(a) = [i \in DOMAIN memory[a] |->
                        IF IsChars(a) THEN ToChar(memory[a][i]) ELSE memory[a][i]]
  BY ContentsOfArray
<1>3. Contents(a)' = [i \in DOMAIN memory'[a] |->
                         IF IsChars(a)' THEN ToChar(memory'[a][i]) ELSE memory'[a][i]]
  BY <1>1 DEF OwnMemory, Contents, Element
<1> QED
  BY <1>1, <1>2, <1>3

\* A value in memory as the wrapper sees it.
LEMMA ElementSeen ==
    ASSUME OwnMemory, NEW a \in ArrayIds, NEW i \in DOMAIN memory[persistence[a].to]
    PROVE  /\ i \in DOMAIN memory[a]
           /\ Element(a, i) = memory[a][i]
           /\ Element(a, i) \in ElementValues(a)
           /\ Contents(a)[i] = IF IsChars(a) THEN ToChar(memory[a][i]) ELSE memory[a][i]
<1>1. persistence[a].to = a
  BY DEF OwnMemory
<1>2. PICK size \in 1 .. MaxSize : memory[a] \in [0 .. size - 1 -> ElementValues(a)]
  BY DEF OwnMemory
<1> QED
  BY <1>1, <1>2, ContentsOfArray DEF Element

\* The get that Get and BeginSet begin with.
LEMMA StoreGrows ==
    ASSUME Typed, OwnMemory, ObjectsLead,
           NEW a \in ArrayIds, NEW i \in DOMAIN memory[persistence[a].to],
           NEW id \in Fresh, Store(a, i, id)
    PROVE  /\ persistence' \in [Ids -> [type : ArrayTypes \cup {"Z3_ast", "unused"},
                                        to : Nat]]
           /\ Grows
           /\ ArrayIds' = ArrayIds
           /\ ObjectsLead'
           /\ LET r == Result(a, i, id) IN
                 /\ r.type = "handle" => r.value \in ObjectIds'
                 /\ (IF r.type = "handle" THEN persistence'[r.value].to ELSE r.value)
                       = Contents(a)[i]
<1> DEFINE stored == [type |-> "Z3_ast", to |-> Element(a, i)]
<1>1. id \in Ids /\ persistence[id] = Unused /\ id \notin ArrayIds \cup ObjectIds
  BY FreshIsNew
<1>2. CASE IsChars(a)
  <2>1. persistence' = persistence
    BY <1>2 DEF Store
  <2>2. Result(a, i, id) = Char(ToChar(Element(a, i)))
    BY <1>2 DEF Result
  <2>3. Contents(a)[i] = ToChar(Element(a, i))
    BY <1>2, ElementSeen
  <2> QED
    BY <2>1, <2>2, <2>3 DEF Typed, Grows, ArrayIds, ObjectIds, ObjectsLead, Char
<1>3. CASE ~IsChars(a)
  <2>1. persistence' = [persistence EXCEPT ![id] = stored]
    BY <1>3 DEF Store
  <2>2. Element(a, i) \in Pointers /\ Contents(a)[i] = Element(a, i)
    BY <1>3, ElementSeen DEF ElementValues
  <2>3. Element(a, i) \in Nat
    BY <2>2, PointersRange
  <2>4. stored \in [type : ArrayTypes \cup {"Z3_ast", "unused"}, to : Nat]
    BY <2>3
  <2>5. persistence' \in [Ids -> [type : ArrayTypes \cup {"Z3_ast", "unused"}, to : Nat]]
    BY <1>1, <2>1, <2>4 DEF Typed
  <2>6. /\ \A k \in Ids \ {id} : persistence'[k] = persistence[k]
        /\ persistence'[id].type = "Z3_ast" /\ persistence'[id].to = Element(a, i)
    BY <1>1, <2>1 DEF Typed
  <2>7. Grows
    BY <1>1, <2>5, <2>6 DEF Grows, ArrayIds, ObjectIds
  <2>8. ArrayIds' = ArrayIds
    BY <1>1, <2>6 DEF ArrayIds, ArrayTypes, Unused
  <2>9. ObjectIds' = ObjectIds \cup {id}
    BY <1>1, <2>6 DEF ObjectIds
  <2>10. ObjectsLead'
    BY <1>1, <2>2, <2>6, <2>9 DEF ObjectsLead, ObjectIds, Pointers
  <2>11. Result(a, i, id).type = "handle" /\ Result(a, i, id).value = id
    BY <1>3 DEF Result, Handle
  <2> QED
    BY <2>2, <2>5, <2>6, <2>7, <2>8, <2>9, <2>10, <2>11
<1> QED
  BY <1>2, <1>3

-----------------------------------------------------------------------------
(* Every action preserves the invariant. *)

LEMMA InitInv == Init => Inv
<1> SUFFICES ASSUME Init PROVE Inv
  OBVIOUS
<1>1. \A id \in Ids :
         /\ persistence[id].type = IF id \in Objects THEN "Z3_ast" ELSE "unused"
         /\ persistence[id].to = IF id \in Objects THEN id ELSE 0
  BY DEF Init, Unused
<1>2. \A id \in Ids : id \in Nat
  BY DEF Ids
<1>3. Typed
  BY <1>2 DEF Init, Typed, Unused
<1>4. ArrayIds = {}
  BY <1>1 DEF ArrayIds, ArrayTypes
<1>5. ObjectsLead
  BY <1>1 DEF ObjectsLead, ObjectIds, Pointers
<1>6. OwnMemory /\ PendingKnown /\ ReturnedKnown /\ SetReturnsReplaced
  BY <1>4 DEF Init, OwnMemory, PendingKnown, ReturnedKnown, SetReturnsReplaced, Known,
              Nothing
<1> QED
  BY <1>3, <1>5, <1>6 DEF Inv

\* What is known stays known, and means what it meant.
LEMMA GrowsPending ==
    ASSUME PendingKnown, Grows,
           \A a \in ArrayIds : DOMAIN memory'[a] = DOMAIN memory[a],
           NEW t \in Threads, NEW p \in pending[t]
    PROVE  /\ p.array \in ArrayIds'
           /\ p.index \in DOMAIN memory'[p.array]
           /\ p.element \in Elements(p.array)'
           /\ Known(p.previous)'
           /\ Meaning(p.element)' = Meaning(p.element)
           /\ Meaning(p.previous)' = Meaning(p.previous)
<1>1. /\ p.array \in ArrayIds /\ p.index \in DOMAIN memory[p.array]
      /\ p.element \in Elements(p.array) /\ Known(p.previous)
  BY DEF PendingKnown
<1>2. Known(p.element)
  BY <1>1 DEF Known, Elements, Char, Handle
<1>3. /\ ArrayIds \subseteq ArrayIds'
      /\ \A v : Known(v) => Known(v)' /\ Meaning(v)' = Meaning(v)
  BY GrowsKeeps
<1>4. Elements(p.array) \subseteq Elements(p.array)'
  BY <1>1, GrowsElements
<1> QED
  BY <1>1, <1>2, <1>3, <1>4

LEMMA AllocateInv ==
    ASSUME Inv, NEW t \in Threads, NEW type \in ArrayTypes, NEW size \in 1 .. MaxSize,
           NEW id \in Ids, Allocate(t, type, size, id)
    PROVE  /\ Inv'
           /\ Grows
           /\ id \notin ArrayIds
           /\ ArrayIds' = ArrayIds \cup {id}
           /\ Contents(id)' = [i \in 0 .. size - 1 |-> 0]
           /\ \A a \in ArrayIds : Contents(a)' = Contents(a)
<1> DEFINE zeros == [i \in 0 .. size - 1 |-> 0]
           array == [type |-> type, to |-> id]
<1> USE DEF Inv
<1>1. id \in Fresh /\ persistence' = [persistence EXCEPT ![id] = array]
      /\ memory' = [memory EXCEPT ![id] = zeros]
      /\ UNCHANGED <<pending, returned, overlapped>>
  BY DEF Allocate
<1>2. id \in Ids /\ persistence[id] = Unused /\ id \notin ArrayIds \cup ObjectIds
  BY <1>1, FreshIsNew
<1>3. /\ \A k \in Ids \ {id} : persistence'[k] = persistence[k] /\ memory'[k] = memory[k]
      /\ persistence'[id].type = type /\ persistence'[id].to = id /\ memory'[id] = zeros
  BY <1>1, <1>2 DEF Typed
<1>4. array \in [type : ArrayTypes \cup {"Z3_ast", "unused"}, to : Nat]
  BY DEF Ids
<1>5. Typed'
  BY <1>1, <1>2, <1>4 DEF Typed
<1>6. Grows
  BY <1>2, <1>3 DEF Grows, ArrayIds, ObjectIds
<1>7. ArrayIds' = ArrayIds \cup {id} /\ ObjectIds' = ObjectIds
  BY <1>2, <1>3 DEF ArrayIds, ObjectIds, ArrayTypes
<1>8. OwnMemory'
  <2> SUFFICES ASSUME NEW a \in ArrayIds'
               PROVE  /\ persistence'[a].to = a
                      /\ \E n \in 1 .. MaxSize :
                            memory'[a] \in [0 .. n - 1 -> ElementValues(a)']
    BY DEF OwnMemory
  <2>1. CASE a = id
    <3>1. 0 \in ElementValues(id)'
      BY DEF ElementValues, Bytes, Pointers
    <3>2. memory'[id] \in [0 .. size - 1 -> ElementValues(id)']
      BY <1>3, <3>1
    <3> QED
      BY <1>3, <2>1, <3>2
  <2>2. CASE a \in ArrayIds
    <3>1. ElementValues(a)' = ElementValues(a)
      BY <1>6, <2>2, GrowsElements
    <3>2. a \in Ids \ {id}
      BY <1>2, <2>2 DEF ArrayIds
    <3> QED
      BY <1>3, <2>2, <3>1, <3>2 DEF OwnMemory
  <2> QED
    BY <1>7, <2>1, <2>2
<1>9. ObjectsLead'
  BY <1>2, <1>3, <1>7 DEF ObjectsLead, ObjectIds
<1>10. \A a \in ArrayIds : memory'[a] = memory[a]
  BY <1>2, <1>3 DEF ArrayIds
<1>11. \A a \in ArrayIds : Contents(a)' = Contents(a)
  BY <1>6, <1>8, <1>10, ContentsKept
<1>12. Contents(id)' = zeros
  <2>1. Contents(id)' = [i \in DOMAIN memory'[id] |->
                          IF IsChars(id)' THEN ToChar(memory'[id][i]) ELSE memory'[id][i]]
    BY <1>3, <1>7 DEF Contents, Element
  <2>2. ToChar(0) = 0
    BY DEF ToChar
  <2> QED
    BY <1>3, <2>1, <2>2
<1>13. PendingKnown'
  BY <1>1, <1>6, <1>10, GrowsPending DEF PendingKnown
<1>14. ReturnedKnown'
  BY <1>1, <1>6, GrowsKeeps DEF ReturnedKnown, Known
<1>15. SetReturnsReplaced'
  <2> SUFFICES ASSUME NEW u \in Threads \ overlapped, NEW p \in pending[u]
               PROVE  Meaning(p.previous)' = Contents(p.array)'[p.index]
    BY <1>1 DEF SetReturnsReplaced
  <2>1. Meaning(p.previous)' = Meaning(p.previous)
    BY <1>6, <1>10, GrowsPending
  <2>2. p.array \in ArrayIds
    BY DEF PendingKnown
  <2> QED
    BY <1>11, <2>1, <2>2 DEF SetReturnsReplaced
<1> QED
  BY <1>2, <1>5, <1>6, <1>7, <1>8, <1>9, <1>11, <1>12, <1>13, <1>14, <1>15

LEMMA GetInv ==
    ASSUME Inv, NEW t \in Threads, NEW a \in ArrayIds,
           NEW i \in DOMAIN memory[persistence[a].to], NEW id \in Ids, Get(t, a, i, id)
    PROVE  /\ Inv'
           /\ Grows
           /\ ArrayIds' = ArrayIds
           /\ \A b \in ArrayIds : Contents(b)' = Contents(b)
           /\ Meaning(returned[t])' = Contents(a)[i]
<1> DEFINE r == Result(a, i, id)
<1> USE DEF Inv
<1>1. /\ id \in Fresh /\ Store(a, i, id)
      /\ returned' = [returned EXCEPT ![t] = r]
      /\ UNCHANGED <<memory, pending, overlapped>>
  BY DEF Get
<1>2. /\ persistence' \in [Ids -> [type : ArrayTypes \cup {"Z3_ast", "unused"}, to : Nat]]
      /\ Grows
      /\ ArrayIds' = ArrayIds
      /\ ObjectsLead'
      /\ r.type = "handle" => r.value \in ObjectIds'
      /\ (IF r.type = "handle" THEN persistence'[r.value].to ELSE r.value) = Contents(a)[i]
  BY <1>1, StoreGrows
<1> HIDE DEF r
<1>3. returned'[t] = r /\ \A u \in Threads \ {t} : returned'[u] = returned[u]
  BY <1>1 DEF Typed
<1>4. Typed'
  BY <1>1, <1>2 DEF Typed
<1>5. OwnMemory'
  BY <1>1, <1>2, GrowsElements DEF OwnMemory, Grows
<1>6. \A b \in ArrayIds : Contents(b)' = Contents(b)
  BY <1>1, <1>2, <1>5, ContentsKept
<1>7. PendingKnown'
  BY <1>1, <1>2, GrowsPending DEF PendingKnown
<1>8. ReturnedKnown'
  BY <1>2, <1>3, GrowsKeeps DEF ReturnedKnown, Known
<1>9. SetReturnsReplaced'
  <2> SUFFICES ASSUME NEW u \in Threads \ overlapped, NEW p \in pending[u]
               PROVE  Meaning(p.previous)' = Contents(p.array)'[p.index]
    BY <1>1 DEF SetReturnsReplaced
  <2>1. Meaning(p.previous)' = Meaning(p.previous)
    BY <1>1, <1>2, GrowsPending
  <2>2. p.array \in ArrayIds
    BY DEF PendingKnown
  <2> QED
    BY <1>6, <2>1, <2>2 DEF SetReturnsReplaced
<1>10. Meaning(returned[t])' = Contents(a)[i]
  BY <1>2, <1>3 DEF Meaning
<1> QED
  BY <1>2, <1>4, <1>5, <1>6, <1>7, <1>8, <1>9, <1>10

LEMMA BeginSetInv ==
    ASSUME Inv, NEW t \in Threads, NEW a \in ArrayIds,
           NEW i \in DOMAIN memory[persistence[a].to], NEW id \in Ids,
           NEW element \in Elements(a), BeginSet(t, a, i, element, id)
    PROVE  /\ Inv'
           /\ Grows
           /\ ArrayIds' = ArrayIds
           /\ \A b \in ArrayIds : Contents(b)' = Contents(b)
           /\ \E p : /\ pending'[t] = {p}
                     /\ p.array = a /\ p.index = i
                     /\ Meaning(p.element)' = Meaning(element)
                     /\ Meaning(p.previous)' = Contents(a)[i]
<1> USE DEF Inv
<1>r. PICK r : r = Result(a, i, id)
  OBVIOUS
<1>q. PICK q : q = [array |-> a, index |-> i, element |-> element, previous |-> r]
  OBVIOUS
<1>1. /\ id \in Fresh /\ Store(a, i, id)
      /\ pending' = [pending EXCEPT ![t] = {q}]
      /\ UNCHANGED <<memory, returned, overlapped>>
  BY <1>r, <1>q DEF BeginSet
<1>2. /\ persistence' \in [Ids -> [type : ArrayTypes \cup {"Z3_ast", "unused"}, to : Nat]]
      /\ Grows
      /\ ArrayIds' = ArrayIds
      /\ ObjectsLead'
      /\ r.type = "handle" => r.value \in ObjectIds'
      /\ (IF r.type = "handle" THEN persistence'[r.value].to ELSE r.value) = Contents(a)[i]
  BY <1>1, <1>r, StoreGrows
<1>3. q.array = a /\ q.index = i /\ q.element = element /\ q.previous = r
  BY <1>q
<1>4. pending'[t] = {q} /\ \A u \in Threads \ {t} : pending'[u] = pending[u]
  BY <1>1 DEF Typed
<1>5. Typed'
  BY <1>1, <1>2 DEF Typed
<1>6. OwnMemory'
  BY <1>1, <1>2, GrowsElements DEF OwnMemory, Grows
<1>7. \A b \in ArrayIds : Contents(b)' = Contents(b)
  BY <1>1, <1>2, <1>6, ContentsKept
<1>8. /\ element \in Elements(a)' /\ i \in DOMAIN memory'[a]
      /\ Meaning(element)' = Meaning(element)
  <2>1. Known(element)
    BY DEF Known, Elements, Char, Handle
  <2> QED
    BY <1>1, <1>2, <2>1, GrowsKeeps, GrowsElements, ElementSeen
<1>9. Known(q.previous)' /\ Meaning(q.previous)' = Contents(a)[i]
  BY <1>2, <1>3 DEF Known, Meaning
<1>10. PendingKnown'
  <2> SUFFICES ASSUME NEW u \in Threads, NEW p \in pending'[u]
               PROVE  /\ p.array \in ArrayIds'
                      /\ p.index \in DOMAIN memory'[p.array]
                      /\ p.element \in Elements(p.array)'
                      /\ Known(p.previous)'
    BY DEF PendingKnown
  <2>1. CASE u = t
    <3>1. p = q
      BY <1>4, <2>1
    <3> QED
      BY <1>2, <1>3, <1>8, <1>9, <3>1
  <2>2. CASE u # t
    <3>1. p \in pending[u]
      BY <1>4, <2>2
    <3> QED
      BY <1>1, <1>2, <3>1, GrowsPending
  <2> QED
    BY <2>1, <2>2
<1>11. ReturnedKnown'
  BY <1>1, <1>2, GrowsKeeps DEF ReturnedKnown, Known
<1>12. SetReturnsReplaced'
  <2> SUFFICES ASSUME NEW u \in Threads \ overlapped, NEW p \in pending'[u]
               PROVE  Meaning(p.previous)' = Contents(p.array)'[p.index]
    BY <1>1 DEF SetReturnsReplaced
  <2>1. CASE u = t
    <3>1. p = q
      BY <1>4, <2>1
    <3> QED
      BY <1>3, <1>7, <1>9, <3>1
  <2>2. CASE u # t
    <3>1. p \in pending[u]
      BY <1>4, <2>2
    <3>2. Meaning(p.previous)' = Meaning(p.previous) /\ p.array \in ArrayIds
      BY <1>1, <1>2, <3>1, GrowsPending DEF PendingKnown
    <3> QED
      BY <1>7, <3>1, <3>2 DEF SetReturnsReplaced
  <2> QED
    BY <2>1, <2>2
<1>13. \E p : /\ pending'[t] = {p}
              /\ p.array = a /\ p.index = i
              /\ Meaning(p.element)' = Meaning(element)
              /\ Meaning(p.previous)' = Contents(a)[i]
  BY <1>3, <1>4, <1>8, <1>9
<1> QED
  BY <1>2, <1>5, <1>6, <1>7, <1>10, <1>11, <1>12, <1>13

\* What EndSet puts into the array is the element, as far as the array can hold it.
LEMMA WrittenMeans ==
    ASSUME Inv, NEW a \in ArrayIds, NEW element \in Elements(a)
    PROVE  /\ Written(element) \in ElementValues(a)
           /\ LET v == IF IsChars(a) THEN ToChar(Written(element)) ELSE Written(element) IN
                 Meaning(element) \in 0 .. 127 \cup Objects => v = Meaning(element)
<1>1. CASE IsChars(a)
  <2>1. PICK c \in Chars : element = Char(c)
    BY <1>1 DEF Elements
  <2>2. Written(element) = Byte(c) /\ Meaning(element) = c
    BY <2>1 DEF Written, Meaning, Char
  <2> QED
    BY <1>1, <2>2, ByteKeeps, CharsKept DEF ElementValues, Bytes
<1>2. CASE ~IsChars(a)
  <2>1. PICK id \in ObjectIds : element = Handle(id)
    BY <1>2 DEF Elements
  <2>2. Written(element) = persistence[id].to /\ Meaning(element) = persistence[id].to
    BY <2>1 DEF Written, Meaning, Handle
  <2> QED
    BY <1>2, <2>2 DEF Inv, ObjectsLead, ElementValues
<1> QED
  BY <1>1, <1>2

LEMMA EndSetInv ==
    ASSUME Inv, NEW t \in Threads, NEW p \in pending[t], EndSet(t, p)
    PROVE  /\ Inv'
           /\ Grows
           /\ ArrayIds' = ArrayIds
           /\ p.array \in ArrayIds /\ p.index \in DOMAIN Contents(p.array)
           /\ \A b \in ArrayIds \ {p.array} : Contents(b)' = Contents(b)
           /\ LET v == IF IsChars(p.array) THEN ToChar(Written(p.element))
                       ELSE Written(p.element) IN
                 Contents(p.array)' = [Contents(p.array) EXCEPT ![p.index] = v]
<1> USE DEF Inv
<1>1. /\ memory' = [memory EXCEPT ![persistence[p.array].to][p.index] = Written(p.element)]
      /\ returned' = [returned EXCEPT ![t] = p.previous]
      /\ pending' = [pending EXCEPT ![t] = {}]
      /\ overlapped' = (overlapped \ {t}) \cup {u \in Threads \ {t} : \E q \in pending[u] :
                                                  q.array = p.array /\ q.index = p.index}
      /\ UNCHANGED persistence
  BY DEF EndSet
<1>2. /\ p.array \in ArrayIds /\ p.index \in DOMAIN memory[p.array]
      /\ p.element \in Elements(p.array) /\ Known(p.previous)
  BY DEF PendingKnown
<1>3. persistence[p.array].to = p.array /\ p.array \in Ids
  BY <1>2 DEF OwnMemory, ArrayIds
<1>4. Grows /\ ArrayIds' = ArrayIds /\ ObjectIds' = ObjectIds
  BY <1>1 DEF Grows, ArrayIds, ObjectIds
<1>5. /\ memory'[p.array] = [memory[p.array] EXCEPT ![p.index] = Written(p.element)]
      /\ \A k \in Ids \ {p.array} : memory'[k] = memory[k]
      /\ DOMAIN memory' = Ids
  BY <1>1, <1>3 DEF Typed
<1>6. pending'[t] = {} /\ \A u \in Threads \ {t} : pending'[u] = pending[u]
  BY <1>1 DEF Typed
<1>7. returned'[t] = p.previous /\ \A u \in Threads \ {t} : returned'[u] = returned[u]
  BY <1>1 DEF Typed
<1>8. Typed'
  BY <1>1, <1>5 DEF Typed
<1>9. Written(p.element) \in ElementValues(p.array)
  BY <1>2, WrittenMeans
<1>10. OwnMemory'
  <2> SUFFICES ASSUME NEW a \in ArrayIds
               PROVE  /\ persistence'[a].to = a
                      /\ \E n \in 1 .. MaxSize :
                            memory'[a] \in [0 .. n - 1 -> ElementValues(a)']
    BY <1>4 DEF OwnMemory
  <2>1. ElementValues(a)' = ElementValues(a) /\ a \in Ids
    BY <1>4, GrowsElements DEF ArrayIds
  <2>2. PICK n \in 1 .. MaxSize : memory[a] \in [0 .. n - 1 -> ElementValues(a)]
    BY DEF OwnMemory
  <2>3. memory'[a] \in [0 .. n - 1 -> ElementValues(a)]
    <3>1. CASE a = p.array
      BY <1>2, <1>5, <1>9, <2>2, <3>1
    <3>2. CASE a # p.array
      BY <1>5, <2>1, <2>2, <3>2
    <3> QED
      BY <3>1, <3>2
  <2> QED
    BY <1>1, <2>1, <2>2, <2>3 DEF OwnMemory
<1>11. ObjectsLead'
  BY <1>1, <1>4 DEF ObjectsLead
<1>12. \A a \in ArrayIds \ {p.array} : Contents(a)' = Contents(a)
  <2> TAKE a \in ArrayIds \ {p.array}
  <2>1. memory'[a] = memory[a]
    BY <1>5 DEF ArrayIds
  <2> QED
    BY <1>4, <1>10, <2>1, ContentsKept
<1>13. \A a \in ArrayIds : DOMAIN memory'[a] = DOMAIN memory[a]
  BY <1>5 DEF ArrayIds
<1>14. LET v == IF IsChars(p.array) THEN ToChar(Written(p.element))
                ELSE Written(p.element) IN
          Contents(p.array)' = [Contents(p.array) EXCEPT ![p.index] = v]
  <2>1. Contents(p.array) = [i \in DOMAIN memory[p.array] |->
                               IF IsChars(p.array) THEN ToChar(memory[p.array][i])
                               ELSE memory[p.array][i]]
    BY <1>2, ContentsOfArray
  <2>2. PICK a \in ArrayIds : a = p.array
    BY <1>2
  <2>3. Contents(a)' = [i \in DOMAIN memory'[a] |->
                          IF IsChars(a)' THEN ToChar(memory'[a][i]) ELSE memory'[a][i]]
    <3>1. a \in ArrayIds' /\ persistence'[a].to = a
      BY <1>1, <1>4 DEF OwnMemory
    <3> QED
      BY <3>1 DEF Contents, Element
  <2>4. IsChars(a)' = IsChars(a)
    BY <1>1 DEF IsChars
  <2> QED
    BY <1>2, <1>5, <2>1, <2>2, <2>3, <2>4
<1>15. p.index \in DOMAIN Contents(p.array)
  BY <1>2, ContentsOfArray
<1>16. PendingKnown'
  BY <1>4, <1>6, <1>13, GrowsPending DEF PendingKnown
<1>17. ReturnedKnown'
  BY <1>2, <1>4, <1>7 DEF ReturnedKnown, Known
<1>18. SetReturnsReplaced'
  <2> SUFFICES ASSUME NEW u \in Threads \ overlapped', NEW q \in pending'[u]
               PROVE  Meaning(q.previous)' = Contents(q.array)'[q.index]
    BY DEF SetReturnsReplaced
  <2>1. u # t /\ q \in pending[u]
    BY <1>6
  <2>2. u \notin overlapped /\ ~(q.array = p.array /\ q.index = p.index)
    BY <1>1, <2>1
  <2>3. Meaning(q.previous)' = Meaning(q.previous) /\ q.array \in ArrayIds
    BY <1>4, <1>13, <2>1, GrowsPending DEF PendingKnown
  <2>4. Meaning(q.previous) = Contents(q.array)[q.index]
    BY <2>1, <2>2 DEF SetReturnsReplaced
  <2>5. Contents(q.array)'[q.index] = Contents(q.array)[q.index]
    <3>1. CASE q.array # p.array
      BY <1>12, <2>3, <3>1
    <3>2. CASE q.array = p.array /\ q.index # p.index
      <4>1. q.index \in DOMAIN Contents(p.array)
        BY <2>1, <2>3, <3>2, ContentsOfArray DEF PendingKnown
      <4> QED
        BY <1>14, <3>2, <4>1
    <3> QED
      BY <2>2, <3>1, <3>2
  <2> QED
    BY <2>3, <2>4, <2>5
<1> QED
  BY <1>2, <1>4, <1>8, <1>10, <1>11, <1>12, <1>14, <1>15, <1>16, <1>17, <1>18

LEMMA StrlenInv ==
    ASSUME Inv, NEW t \in Threads, NEW a \in ArrayIds, NEW n \in Lengths, Strlen(t, a, n)
    PROVE  /\ Inv'
           /\ Grows
           /\ ArrayIds' = ArrayIds
           /\ \A b \in ArrayIds : Contents(b)' = Contents(b)
           /\ Meaning(returned[t])' = n
<1> USE DEF Inv
<1>1. returned' = [returned EXCEPT ![t] = Char(n)]
      /\ UNCHANGED <<persistence, memory, pending, overlapped>>
  BY DEF Strlen
<1>2. returned'[t] = Char(n) /\ \A u \in Threads \ {t} : returned'[u] = returned[u]
  BY <1>1 DEF Typed
<1>3. Typed'
  BY <1>1 DEF Typed
<1>4. Grows /\ ArrayIds' = ArrayIds /\ ObjectIds' = ObjectIds
  BY <1>1 DEF Grows, ArrayIds, ObjectIds
<1>5. OwnMemory'
  BY <1>1, <1>4, GrowsElements DEF OwnMemory
<1>6. ObjectsLead'
  BY <1>1, <1>4 DEF ObjectsLead
<1>7. \A b \in ArrayIds : Contents(b)' = Contents(b)
  BY <1>1, <1>4, <1>5, ContentsKept
<1>8. PendingKnown'
  BY <1>1, <1>4, GrowsPending DEF PendingKnown
<1>9. ReturnedKnown'
  BY <1>2, <1>4 DEF ReturnedKnown, Known, Char
<1>10. SetReturnsReplaced'
  <2> SUFFICES ASSUME NEW u \in Threads \ overlapped, NEW p \in pending[u]
               PROVE  Meaning(p.previous)' = Contents(p.array)'[p.index]
    BY <1>1 DEF SetReturnsReplaced
  <2>1. Meaning(p.previous)' = Meaning(p.previous) /\ p.array \in ArrayIds
    BY <1>1, <1>4, GrowsPending DEF PendingKnown
  <2> QED
    BY <1>7, <2>1 DEF SetReturnsReplaced
<1>11. Meaning(returned[t])' = n
  BY <1>2 DEF Meaning, Char
<1> QED
  BY <1>3, <1>4, <1>5, <1>6, <1>7, <1>8, <1>9, <1>10, <1>11

LEMMA StutterInv == Inv /\ UNCHANGED vars => Inv'
<1> SUFFICES ASSUME Inv, UNCHANGED vars PROVE Inv'
  OBVIOUS
<1> USE DEF Inv, vars
<1>1. ArrayIds' = ArrayIds /\ ObjectIds' = ObjectIds
  BY DEF ArrayIds, ObjectIds
<1>2. Typed' /\ ObjectsLead'
  BY <1>1 DEF Typed, ObjectsLead
<1>3. OwnMemory'
  BY <1>1 DEF OwnMemory, ElementValues, IsChars
<1>4. PendingKnown' /\ ReturnedKnown'
  BY <1>1 DEF PendingKnown, ReturnedKnown, Known, Elements, IsChars
<1>5. /\ \A v : Meaning(v)' = Meaning(v)
      /\ \A a : Contents(a)' = Contents(a)
  BY <1>1 DEF Meaning, Contents, Element, IsChars
<1>6. SetReturnsReplaced'
  BY <1>5 DEF SetReturnsReplaced
<1> QED
  BY <1>2, <1>3, <1>4, <1>6

LEMMA NextInv == Inv /\ Next => Inv'
<1> SUFFICES ASSUME Inv, Next PROVE Inv'
  OBVIOUS
<1> PICK t \in Threads :
        \/ \E type \in ArrayTypes, size \in 1 .. MaxSize, id \in Ids :
              Allocate(t, type, size, id)
        \/ \E a \in ArrayIds :
              \/ \E i \in DOMAIN memory[persistence[a].to], id \in Ids :
                    \/ Get(t, a, i, id)
                    \/ \E element \in Elements(a) : BeginSet(t, a, i, element, id)
              \/ \E n \in Lengths : Strlen(t, a, n)
        \/ \E p \in pending[t] : EndSet(t, p)
  BY DEF Next
<1>1. ASSUME NEW type \in ArrayTypes, NEW size \in 1 .. MaxSize, NEW id \in Ids,
             Allocate(t, type, size, id)
      PROVE  Inv'
  BY <1>1, AllocateInv
<1>2. ASSUME NEW a \in ArrayIds, NEW i \in DOMAIN memory[persistence[a].to], NEW id \in Ids,
             Get(t, a, i, id)
      PROVE  Inv'
  BY <1>2, GetInv
<1>3. ASSUME NEW a \in ArrayIds, NEW i \in DOMAIN memory[persistence[a].to], NEW id \in Ids,
             NEW element \in Elements(a), BeginSet(t, a, i, element, id)
      PROVE  Inv'
  BY <1>3, BeginSetInv
<1>4. ASSUME NEW a \in ArrayIds, NEW n \in Lengths, Strlen(t, a, n)
      PROVE  Inv'
  BY <1>4, StrlenInv
<1>5. ASSUME NEW p \in pending[t], EndSet(t, p)
      PROVE  Inv'
  BY <1>5, EndSetInv
<1> QED
  BY <1>1, <1>2, <1>3, <1>4, <1>5

\* What ids lead to, what memory holds and what sets in progress name fit together.
THEOREM Invariance == Spec => []Inv
<1>1. Inv /\ [Next]_vars => Inv'
  BY NextInv, StutterInv
<1> QED
  BY InitInv, <1>1, PTL DEF Spec

\* The ids of pointers to arrays and objects lead to memory that exists, whichever
\* requests the threads send.
THEOREM TypeCorrect == Spec => []TypeOK
<1>1. Inv => TypeOK
  <2> SUFFICES ASSUME Inv PROVE TypeOK
    OBVIOUS
  <2> USE DEF Inv
  <2>1. \A a \in ArrayIds : persistence[a].to \in ArrayIds
    BY DEF OwnMemory
  <2>2. \A id \in ObjectIds : persistence[id].to \in Objects \cup {0}
    BY DEF ObjectsLead, Pointers
  <2>3. \A t \in Threads : \A p \in pending[t] :
           p.array \in ArrayIds /\ p.index \in DOMAIN memory[persistence[p.array].to]
    BY DEF PendingKnown, OwnMemory
  <2> QED
    BY <2>1, <2>2, <2>3 DEF Typed, TypeOK
<1> QED
  BY Invariance, <1>1, PTL

\* ArrayHandle.set returns the element it replaces, unless another thread's set comes
\* between its get and its write.
THEOREM SetReturns == Spec => []SetReturnsReplaced
<1>1. Inv => SetReturnsReplaced
  BY DEF Inv
<1> QED
  BY Invariance, <1>1, PTL

-----------------------------------------------------------------------------
(* ArrayHandles implements RemoteArrays: what the refinement mapping maps. *)

AbstractArrays == [a \in Ids |-> Contents(a)]

Promised(p) == [array |-> p.array, index |-> p.index, value |-> Meaning(p.element),
                previous |-> Meaning(p.previous)]

AbstractPending == [t \in Threads |-> {Promised(p) : p \in pending[t]}]

AbstractReturned == [t \in Threads |-> Meaning(returned[t])]

LEMMA ArraysKept ==
    ASSUME ArrayIds' = ArrayIds, \A a \in ArrayIds : Contents(a)' = Contents(a)
    PROVE  AbstractArrays' = AbstractArrays
<1>1. \A a \in Ids \ ArrayIds : Contents(a)' = Contents(a)
  BY DEF Contents
<1> QED
  BY <1>1 DEF AbstractArrays

LEMMA PendingKept ==
    ASSUME PendingKnown, Grows, NEW t \in Threads,
           \A a \in ArrayIds : DOMAIN memory'[a] = DOMAIN memory[a],
           pending'[t] = pending[t]
    PROVE  {Promised(p)' : p \in pending'[t]} = {Promised(p) : p \in pending[t]}
<1>1. \A p \in pending[t] : Promised(p)' = Promised(p)
  BY GrowsPending DEF Promised
<1> QED
  BY <1>1

LEMMA ReturnedKept ==
    ASSUME ReturnedKnown, Grows, NEW t \in Threads, returned'[t] = returned[t]
    PROVE  Meaning(returned[t])' = Meaning(returned[t])
BY GrowsKeeps DEF ReturnedKnown, Meaning

\* The value of an element is one of the abstract arrays' values.
LEMMA MeaningsAreValues ==
    ASSUME Inv, NEW a \in ArrayIds, NEW element \in Elements(a)
    PROVE  /\ Meaning(element) \in Values
           /\ (IF IsChars(a) THEN ToChar(Written(element)) ELSE Written(element)) \in Values
<1>1. CASE IsChars(a)
  <2>1. PICK c \in Chars : element = Char(c)
    BY <1>1 DEF Elements
  <2>2. Written(element) = Byte(c) /\ Meaning(element) = c
    BY <2>1 DEF Written, Meaning, Char
  <2> QED
    BY <1>1, <2>2 DEF Values
<1>2. CASE ~IsChars(a)
  <2>1. PICK id \in ObjectIds : element = Handle(id)
    BY <1>2 DEF Elements
  <2>2. Written(element) = persistence[id].to /\ Meaning(element) = persistence[id].to
    BY <2>1 DEF Written, Meaning, Handle
  <2> QED
    BY <1>2, <2>2 DEF Inv, ObjectsLead, Pointers, Values
<1> QED
  BY <1>1, <1>2

LEMMA InitImplements == Init => Abstract!Init
<1> SUFFICES ASSUME Init PROVE Abstract!Init
  OBVIOUS
<1>1. \A a \in Ids : a \notin ArrayIds
  BY DEF Init, ArrayIds, ArrayTypes, Unused
<1>2. \A a \in Ids : Contents(a) = [i \in {} |-> 0]
  BY <1>1 DEF Contents
<1>3. \A t \in Threads : Meaning(returned[t]) = 0
  BY DEF Init, Meaning, Nothing
<1>4. \A t \in Threads : {Promised(p) : p \in pending[t]} = {}
  BY DEF Init
<1> QED
  BY <1>2, <1>3, <1>4 DEF Abstract!Init, Promised

LEMMA AllocateImplements ==
    ASSUME Inv, NEW t \in Threads, NEW type \in ArrayTypes, NEW size \in 1 .. MaxSize,
           NEW id \in Ids, Allocate(t, type, size, id)
    PROVE  Abstract!Allocate(t, id, size)
<1> DEFINE zeros == [i \in 0 .. size - 1 |-> 0]
<1>1. /\ Grows
      /\ id \notin ArrayIds
      /\ ArrayIds' = ArrayIds \cup {id}
      /\ Contents(id)' = zeros
      /\ \A a \in ArrayIds : Contents(a)' = Contents(a)
  BY AllocateInv
<1>2. /\ pending[t] = {}
      /\ UNCHANGED <<pending, returned>>
      /\ \A a \in Ids \ {id} : memory'[a] = memory[a]
  BY DEF Allocate, Inv, Typed
<1>3. DOMAIN Contents(id) = {}
  BY <1>1 DEF Contents
<1> HIDE DEF zeros
<1>4. \A a \in Ids \ {id} : Contents(a)' = Contents(a)
  <2> TAKE a \in Ids \ {id}
  <2>1. CASE a \in ArrayIds
    BY <1>1, <2>1
  <2>2. CASE a \notin ArrayIds
    BY <1>1, <2>2 DEF Contents
  <2> QED
    BY <2>1, <2>2
<1>5. AbstractArrays' = [AbstractArrays EXCEPT ![id] = zeros]
  BY <1>1, <1>4 DEF AbstractArrays
<1>6. \A a \in ArrayIds : DOMAIN memory'[a] = DOMAIN memory[a]
  BY <1>1, <1>2 DEF ArrayIds
<1>7. AbstractPending' = AbstractPending
  BY <1>1, <1>2, <1>6, PendingKept DEF AbstractPending, Inv
<1>8. AbstractReturned' = AbstractReturned
  BY <1>1, <1>2, ReturnedKept DEF AbstractReturned, Inv
<1>9. AbstractPending[t] = {} /\ DOMAIN AbstractArrays[id] = {}
  BY <1>2, <1>3 DEF AbstractPending, AbstractArrays
<1> QED
  BY <1>5, <1>7, <1>8, <1>9
     DEF Abstract!Allocate, AbstractArrays, AbstractPending, AbstractReturned, Promised,
         zeros

LEMMA GetImplements ==
    ASSUME Inv, NEW t \in Threads, NEW a \in ArrayIds,
           NEW i \in DOMAIN memory[persistence[a].to], NEW id \in Ids, Get(t, a, i, id)
    PROVE  Abstract!Get(t, a, i)
<1>1. /\ Grows
      /\ ArrayIds' = ArrayIds
      /\ \A b \in ArrayIds : Contents(b)' = Contents(b)
      /\ Meaning(returned[t])' = Contents(a)[i]
  BY GetInv
<1>2. /\ pending[t] = {}
      /\ UNCHANGED <<memory, pending>>
      /\ \A u \in Threads \ {t} : returned'[u] = returned[u]
  BY DEF Get, Inv, Typed
<1>3. AbstractArrays' = AbstractArrays
  BY <1>1, ArraysKept
<1>4. AbstractPending' = AbstractPending
  BY <1>1, <1>2, PendingKept DEF AbstractPending, Inv
<1>5. \A u \in Threads \ {t} : Meaning(returned[u])' = Meaning(returned[u])
  BY <1>1, <1>2, ReturnedKept DEF Inv
<1>6. a \in Ids
  BY DEF ArrayIds
<1>7. AbstractReturned' = [AbstractReturned EXCEPT ![t] = AbstractArrays[a][i]]
  BY <1>1, <1>5, <1>6 DEF AbstractReturned, AbstractArrays
<1>8. AbstractPending[t] = {}
  BY <1>2 DEF AbstractPending
<1> QED
  BY <1>3, <1>4, <1>7, <1>8
     DEF Abstract!Get, AbstractArrays, AbstractPending, AbstractReturned, Promised

LEMMA BeginSetImplements ==
    ASSUME Inv, NEW t \in Threads, NEW a \in ArrayIds,
           NEW i \in DOMAIN memory[persistence[a].to], NEW id \in Ids,
           NEW element \in Elements(a), BeginSet(t, a, i, element, id)
    PROVE  \E v \in Values : Abstract!BeginSet(t, a, i, v)
<1>1. /\ Grows
      /\ ArrayIds' = ArrayIds
      /\ \A b \in ArrayIds : Contents(b)' = Contents(b)
  BY BeginSetInv
<1>2. PICK p : /\ pending'[t] = {p}
               /\ p.array = a /\ p.index = i
               /\ Meaning(p.element)' = Meaning(element)
               /\ Meaning(p.previous)' = Contents(a)[i]
  BY BeginSetInv
<1>3. /\ pending[t] = {}
      /\ UNCHANGED <<memory, returned>>
      /\ \A u \in Threads \ {t} : pending'[u] = pending[u]
  BY DEF BeginSet, Inv, Typed
<1>4. AbstractArrays' = AbstractArrays
  BY <1>1, ArraysKept
<1>5. AbstractReturned' = AbstractReturned
  BY <1>1, <1>3, ReturnedKept DEF AbstractReturned, Inv
<1>6. \A u \in Threads \ {t} :
         {Promised(q)' : q \in pending'[u]} = {Promised(q) : q \in pending[u]}
  BY <1>1, <1>3, PendingKept DEF Inv
<1>7. a \in Ids
  BY DEF ArrayIds
<1>v. PICK v \in Values : v = Meaning(element)
  BY MeaningsAreValues
<1> DEFINE promise == [array |-> a, index |-> i, value |-> v,
                       previous |-> AbstractArrays[a][i]]
<1>8. Promised(p)' = promise
  BY <1>2, <1>7, <1>v DEF Promised, AbstractArrays
<1>9. {Promised(q)' : q \in pending'[t]} = {promise}
  BY <1>2, <1>8
<1> HIDE DEF promise
<1>10. AbstractPending' = [AbstractPending EXCEPT ![t] = {promise}]
  BY <1>6, <1>9 DEF AbstractPending
<1>11. AbstractPending[t] = {}
  BY <1>3 DEF AbstractPending
<1>12. Abstract!BeginSet(t, a, i, v)
  BY <1>4, <1>5, <1>10, <1>11
     DEF Abstract!BeginSet, AbstractArrays, AbstractPending, AbstractReturned, Promised,
         promise
<1> QED
  BY <1>12

LEMMA EndSetImplements ==
    ASSUME Inv, NEW t \in Threads, NEW p \in pending[t], EndSet(t, p)
    PROVE  \E q \in AbstractPending[t], v \in Values : Abstract!EndSet(t, q, v)
<1>v. PICK v : v = IF IsChars(p.array) THEN ToChar(Written(p.element))
                   ELSE Written(p.element)
  OBVIOUS
<1>1. /\ Grows
      /\ ArrayIds' = ArrayIds
      /\ p.array \in ArrayIds
      /\ \A b \in ArrayIds \ {p.array} : Contents(b)' = Contents(b)
      /\ Contents(p.array)' = [Contents(p.array) EXCEPT ![p.index] = v]
  BY <1>v, EndSetInv
<1>2. /\ p.element \in Elements(p.array) /\ Known(p.previous)
      /\ persistence[p.array].to = p.array
  BY DEF Inv, PendingKnown, OwnMemory
<1>3. /\ v \in Values
      /\ Meaning(p.element) \in 0 .. 127 \cup Objects => v = Meaning(p.element)
  BY <1>1, <1>2, <1>v, MeaningsAreValues, WrittenMeans
<1>4. /\ pending'[t] = {}
      /\ \A u \in Threads \ {t} : pending'[u] = pending[u]
      /\ returned'[t] = p.previous
      /\ \A u \in Threads \ {t} : returned'[u] = returned[u]
  BY DEF EndSet, Inv, Typed
<1>5. \A a \in ArrayIds : DOMAIN memory'[a] = DOMAIN memory[a]
  BY <1>2 DEF EndSet, Inv, Typed, ArrayIds
<1>6. p.array \in Ids
  BY <1>1 DEF ArrayIds
<1>7. \A a \in Ids \ {p.array} : Contents(a)' = Contents(a)
  <2> TAKE a \in Ids \ {p.array}
  <2>1. CASE a \in ArrayIds
    BY <1>1, <2>1
  <2>2. CASE a \notin ArrayIds
    BY <1>1, <2>2 DEF Contents
  <2> QED
    BY <2>1, <2>2
<1>8. AbstractArrays' = [AbstractArrays EXCEPT ![p.array][p.index] = v]
  BY <1>1, <1>6, <1>7 DEF AbstractArrays
<1>9. \A u \in Threads \ {t} :
         {Promised(q)' : q \in pending'[u]} = {Promised(q) : q \in pending[u]}
  BY <1>1, <1>4, <1>5, PendingKept DEF Inv
<1>10. AbstractPending' = [AbstractPending EXCEPT ![t] = {}]
  BY <1>4, <1>9 DEF AbstractPending
<1>11. Meaning(p.previous)' = Meaning(p.previous)
  BY <1>1, <1>2, GrowsKeeps
<1>12. \A u \in Threads \ {t} : Meaning(returned[u])' = Meaning(returned[u])
  BY <1>1, <1>4, ReturnedKept DEF Inv
<1>13. Meaning(returned[t])' = Meaning(p.previous)
  BY <1>4, <1>11 DEF Meaning
<1>14. AbstractReturned' = [AbstractReturned EXCEPT ![t] = Meaning(p.previous)]
  BY <1>12, <1>13 DEF AbstractReturned
<1>15. PICK q : q = Promised(p)
  OBVIOUS
<1>16. /\ q.array = p.array /\ q.index = p.index
       /\ q.value = Meaning(p.element) /\ q.previous = Meaning(p.previous)
  BY <1>15 DEF Promised
<1>17. q \in AbstractPending[t]
  BY <1>15 DEF AbstractPending
<1>18. Abstract!EndSet(t, q, v)
  BY <1>3, <1>8, <1>10, <1>14, <1>16, <1>17
     DEF Abstract!EndSet, AbstractArrays, AbstractPending, AbstractReturned, Promised
<1> QED
  BY <1>3, <1>17, <1>18

LEMMA StrlenImplements ==
    ASSUME Inv, NEW t \in Threads, NEW a \in ArrayIds, NEW n \in Lengths, Strlen(t, a, n)
    PROVE  Abstract!Length(t, a, n)
<1>1. /\ Grows
      /\ ArrayIds' = ArrayIds
      /\ \A b \in ArrayIds : Contents(b)' = Contents(b)
      /\ Meaning(returned[t])' = n
  BY StrlenInv
<1>2. /\ pending[t] = {}
      /\ UNCHANGED <<memory, pending>>
      /\ \A u \in Threads \ {t} : returned'[u] = returned[u]
      /\ IsChars(a)
      /\ \A i \in DOMAIN memory[persistence[a].to] : i < n => Element(a, i) # 0
      /\ n \in DOMAIN memory[persistence[a].to] => Element(a, n) = 0
  BY DEF Strlen, Inv, Typed
<1>3. AbstractArrays' = AbstractArrays
  BY <1>1, ArraysKept
<1>4. AbstractPending' = AbstractPending
  BY <1>1, <1>2, PendingKept DEF AbstractPending, Inv
<1>5. \A u \in Threads \ {t} : Meaning(returned[u])' = Meaning(returned[u])
  BY <1>1, <1>2, ReturnedKept DEF Inv
<1>6. AbstractReturned' = [AbstractReturned EXCEPT ![t] = n]
  BY <1>1, <1>5 DEF AbstractReturned
<1>7. persistence[a].to = a /\ AbstractArrays[a] = Contents(a)
  BY DEF Inv, OwnMemory, ArrayIds, AbstractArrays
<1>8. DOMAIN Contents(a) = DOMAIN memory[a]
  BY ContentsOfArray DEF Inv
<1>9. \A i \in DOMAIN memory[a] : Contents(a)[i] = 0 <=> Element(a, i) = 0
  <2> TAKE i \in DOMAIN memory[a]
  <2>1. Element(a, i) \in Bytes /\ Contents(a)[i] = ToChar(Element(a, i))
    BY <1>2, <1>7, ElementSeen DEF Inv, ElementValues
  <2>2. Element(a, i) \in -128 .. 127
    BY <2>1, BytesRange
  <2> QED
    BY <2>1, <2>2, ToCharZero
<1>10. AbstractPending[t] = {}
  BY <1>2 DEF AbstractPending
<1>11. /\ \A i \in DOMAIN AbstractArrays[a] : i < n => AbstractArrays[a][i] # 0
       /\ n \in DOMAIN AbstractArrays[a] => AbstractArrays[a][n] = 0
  BY <1>2, <1>7, <1>8, <1>9
<1> QED
  BY <1>3, <1>4, <1>6, <1>10, <1>11
     DEF Abstract!Length, AbstractArrays, AbstractPending, AbstractReturned, Promised

LEMMA NextImplements == Inv /\ Next => Abstract!Next
<1> SUFFICES ASSUME Inv, Next PROVE Abstract!Next
  OBVIOUS
<1> PICK t \in Threads :
        \/ \E type \in ArrayTypes, size \in 1 .. MaxSize, id \in Ids :
              Allocate(t, type, size, id)
        \/ \E a \in ArrayIds :
              \/ \E i \in DOMAIN memory[persistence[a].to], id \in Ids :
                    \/ Get(t, a, i, id)
                    \/ \E element \in Elements(a) : BeginSet(t, a, i, element, id)
              \/ \E n \in Lengths : Strlen(t, a, n)
        \/ \E p \in pending[t] : EndSet(t, p)
  BY DEF Next
<1>1. \A a \in ArrayIds :
         /\ a \in Ids
         /\ DOMAIN Contents(a) = DOMAIN memory[persistence[a].to]
         /\ DOMAIN Contents(a) # {}
  <2> TAKE a \in ArrayIds
  <2>1. persistence[a].to = a /\ DOMAIN Contents(a) = DOMAIN memory[a]
    BY ContentsOfArray DEF Inv, OwnMemory
  <2>2. PICK size \in 1 .. MaxSize : memory[a] \in [0 .. size - 1 -> ElementValues(a)]
    BY DEF Inv, OwnMemory
  <2>3. 0 \in DOMAIN memory[a]
    BY <2>2
  <2> QED
    BY <2>1, <2>3 DEF ArrayIds
<1>2. ASSUME NEW type \in ArrayTypes, NEW size \in 1 .. MaxSize, NEW id \in Ids,
             Allocate(t, type, size, id)
      PROVE  Abstract!Next
  BY <1>2, AllocateImplements DEF Abstract!Next
<1>3. ASSUME NEW a \in ArrayIds, NEW i \in DOMAIN memory[persistence[a].to], NEW id \in Ids,
             Get(t, a, i, id)
      PROVE  Abstract!Next
  BY <1>1, <1>3, GetImplements DEF Abstract!Next
<1>4. ASSUME NEW a \in ArrayIds, NEW i \in DOMAIN memory[persistence[a].to], NEW id \in Ids,
             NEW element \in Elements(a), BeginSet(t, a, i, element, id)
      PROVE  Abstract!Next
  BY <1>1, <1>4, BeginSetImplements DEF Abstract!Next
<1>5. ASSUME NEW a \in ArrayIds, NEW n \in Lengths, Strlen(t, a, n)
      PROVE  Abstract!Next
  BY <1>1, <1>5, StrlenImplements DEF Abstract!Next
<1>6. ASSUME NEW p \in pending[t], EndSet(t, p)
      PROVE  Abstract!Next
  BY <1>6, EndSetImplements DEF Abstract!Next, AbstractPending, Promised
<1> QED
  BY <1>2, <1>3, <1>4, <1>5, <1>6

LEMMA StutterImplements == Inv /\ UNCHANGED vars => UNCHANGED Abstract!vars
<1> SUFFICES ASSUME Inv, UNCHANGED vars PROVE UNCHANGED Abstract!vars
  OBVIOUS
<1>1. \A a \in Ids : Contents(a)' = Contents(a)
  BY DEF vars, Contents, ArrayIds, Element, IsChars
<1>2. \A v : Meaning(v)' = Meaning(v)
  BY DEF vars, Meaning
<1> QED
  BY <1>1, <1>2 DEF vars, Abstract!vars

\* The arrays in the receiver's memory behave as the abstract ones do: through pointers,
\* copies of pointers and conversions of chars, get returns what set was given.
THEOREM ArraysImplement == Spec => Implements
<1>1. Inv /\ [Next]_vars => [Abstract!Next]_(Abstract!vars)
  BY NextImplements, StutterImplements
<1> QED
  BY InitImplements, Invariance, <1>1, PTL DEF Spec, Implements, Abstract!Spec
=============================================================================
