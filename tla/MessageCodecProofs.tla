-------------------------- MODULE MessageCodecProofs --------------------------
(***************************************************************************)
(* Proofs about MessageCodec: for messages with any contents, ByteSizeLong *)
(* returns as many bytes as are written, reading what was written gives    *)
(* the merge of it, and a response is read as a request without a method.  *)
(* Folds and recursive functions are taken apart by induction, which is    *)
(* done on sets of numbers.                                                *)
(***************************************************************************)
EXTENDS MessageCodec, FiniteSetTheorems, SequenceTheorems, WellFoundedInduction, TLAPS

-----------------------------------------------------------------------------
(* Numbers.                                                                *)

\* Every set of numbers that is not empty has a least element.
LEMMA LeastExists ==
    ASSUME NEW T, T \subseteq Nat, T # {}
    PROVE  \E m \in T : \A y \in T : m <= y
<1> DEFINE R == OpToRel(<, Nat)
<1>1. IsWellFoundedOn(R, Nat)
  BY NatLessThanWellFounded
<1> HIDE DEF R
<1>2. PICK m \in T : \A y \in T : <<y, m>> \notin R
  BY <1>1, WFMin
<1>3. \A y \in T : ~ (y < m)
  BY <1>2 DEF R, OpToRel
<1> QED
  BY <1>3

\* Induction, for a set in the place of a predicate.
LEMMA SetInduction ==
    ASSUME NEW S, 0 \in S, \A n \in Nat : n \in S => n + 1 \in S
    PROVE  Nat \subseteq S
<1>1. SUFFICES ASSUME NEW x \in Nat, x \notin S PROVE FALSE
  OBVIOUS
<1>2. PICK T : T = Nat \ S
  OBVIOUS
<1>3. PICK m \in T : \A y \in T : m <= y
  BY <1>1, <1>2, LeastExists
<1>4. m # 0 /\ m \in Nat /\ m - 1 \in Nat
  BY <1>2
<1>5. m - 1 \in S
  BY <1>2, <1>3, <1>4
<1> QED
  BY <1>2, <1>4, <1>5

LEMMA MinIsLeast ==
    ASSUME NEW s, s \subseteq Nat, s # {}
    PROVE  Min(s) \in s /\ \A y \in s : Min(s) <= y
<1>1. \E m \in s : \A y \in s : m <= y
  BY LeastExists
<1> QED
  BY <1>1 DEF Min

LEMMA MaxIsGreatest ==
    ASSUME NEW n \in Nat, NEW s, s \subseteq 1 .. n, s # {}
    PROVE  Max(s) \in s /\ \A y \in s : y <= Max(s)
<1>1. PICK T : T = {n - x : x \in s}
  OBVIOUS
<1>2. T \subseteq Nat /\ T # {}
  <2>1. \A x \in s : n - x \in Nat
    OBVIOUS
  <2>2. \E x \in s : n - x \in T
    BY <1>1
  <2> QED
    BY <1>1, <2>1, <2>2
<1>3. PICK k \in T : \A y \in T : k <= y
  BY <1>2, LeastExists
<1>4. PICK m \in s : k = n - m
  BY <1>1, <1>3
<1>5. \A y \in s : m >= y
  <2> TAKE y \in s
  <2>1. n - y \in T
    BY <1>1
  <2>2. n - m <= n - y /\ y \in Int /\ m \in Int
    BY <1>3, <1>4, <2>1
  <2> QED
    BY <2>2
<1>6. Max(s) \in s /\ \A y \in s : Max(s) >= y
  BY <1>4, <1>5 DEF Max
<1>7. s \subseteq Int
  OBVIOUS
<1> QED
  BY <1>6, <1>7

-----------------------------------------------------------------------------
(* Folds.  The provers cannot instantiate a lemma about any operator, so    *)
(* the operators that are folded are told apart by a name.                  *)

FoldStep(k, r, x) ==
    CASE k = "Digit" -> x + 256 * r
      [] k = "ArgumentSize" -> 1 + MessageSize(ArgumentSize(x)) + r
      [] k = "RequestSize" -> RequestSize(x) + r
      [] k = "ChannelResponseSize" -> ChannelResponseSize(x) + r
      [] k = "Value" -> IF r.ok THEN ValueField(r.message, x) ELSE r
      [] k = "Argument" -> IF r.ok THEN ArgumentField(r.message, x) ELSE r
      [] k = "MethodCallRequest" -> IF r.ok THEN MethodCallRequestField(r.message, x) ELSE r
      [] k = "ImportRequest" -> IF r.ok THEN ImportRequestField(r.message, x) ELSE r
      [] k = "ConstructorRequest" ->
            IF r.ok THEN ConstructorRequestField(r.message, x) ELSE r
      [] k = "Request" -> IF r.ok THEN RequestField(r.message, x) ELSE r
      [] k = "ChannelResponse" -> IF r.ok THEN ChannelResponseField(r.message, x) ELSE r
      [] k = "MergeRequest" -> MergeRequest(r, x)
      [] k = "MergeChannelResponse" -> MergeChannelResponse(r, x)

\* The function on subsets of D that the folds choose: c[s] is the element of s that is
\* taken out of s, and comes last.
IsFold(it, k, base, D, c, q) ==
    it = [s \in SUBSET D |-> IF s = {} THEN base ELSE FoldStep(k, it[s \ {c[s]}], q[c[s]])]

LEMMA FoldExists ==
    ASSUME NEW k, NEW base, NEW D, IsFiniteSet(D), NEW c, NEW q,
           \A s \in SUBSET D : s # {} => c[s] \in s
    PROVE  \E it : IsFold(it, k, base, D, c, q)
<1> DEFINE Next1(g, s) == IF s = {} THEN base ELSE FoldStep(k, g[s \ {c[s]}], q[c[s]])
           Small(l) == {s \in SUBSET D : Cardinality(s) <= l}
           Good(l) == \E g : \A s \in Small(l) : g[s] = Next1(g, s)
<1>1. \A s \in SUBSET D : IsFiniteSet(s) /\ Cardinality(s) \in Nat
  BY FS_Subset, FS_CardinalityType
<1>2. PICK S : S = {l \in Nat : Good(l)}
  OBVIOUS
<1>3. Good(0)
  <2>1. PICK g : g = [s \in SUBSET D |-> base]
    OBVIOUS
  <2>2. \A s \in Small(0) : s = {}
    BY <1>1, FS_EmptySet
  <2>3. \A s \in Small(0) : g[s] = Next1(g, s)
    BY <2>1, <2>2
  <2> QED
    BY <2>3
<1>4. ASSUME NEW l \in Nat, Good(l) PROVE Good(l + 1)
  <2>1. PICK g : \A s \in Small(l) : g[s] = Next1(g, s)
    BY <1>4
  <2>2. PICK h : h = [s \in SUBSET D |-> Next1(g, s)]
    OBVIOUS
  <2>3. ASSUME NEW s \in Small(l + 1), s # {} PROVE h[s \ {c[s]}] = g[s \ {c[s]}]
    <3>1. c[s] \in s /\ IsFiniteSet(s) /\ Cardinality(s) \in Nat
      BY <1>1, <2>3
    <3>2. Cardinality(s \ {c[s]}) = Cardinality(s) - 1
      BY <3>1, FS_RemoveElement
    <3>3. s \ {c[s]} \in Small(l)
      BY <3>1, <3>2
    <3> QED
      BY <2>1, <2>2, <3>3
  <2>4. \A s \in Small(l + 1) : h[s] = Next1(h, s)
    BY <2>2, <2>3
  <2> QED
    BY <2>4
<1>5. Cardinality(D) \in S
  <2> HIDE DEF Good
  <2>1. Nat \subseteq S
    BY <1>2, <1>3, <1>4, SetInduction
  <2> QED
    BY <2>1, FS_CardinalityType
<1>6. PICK g : \A s \in Small(Cardinality(D)) : g[s] = Next1(g, s)
  BY <1>2, <1>5
<1>7. \A s \in SUBSET D : g[s] = Next1(g, s)
  BY <1>6, FS_Subset
<1>8. PICK it : it = [s \in SUBSET D |-> g[s]]
  OBVIOUS
<1>9. IsFold(it, k, base, D, c, q)
  BY <1>7, <1>8 DEF IsFold
<1> QED
  BY <1>9

\* r is what k makes of base and the elements of q, taken from the first to the last;
\* g has what it makes of the first ones.
Folds(k, base, q, r) ==
    \E g : /\ g[0] = base
           /\ \A i \in 1 .. Len(q) : g[i] = FoldStep(k, g[i - 1], q[i])
           /\ r = g[Len(q)]

LEMMA FoldsNothing == ASSUME NEW k, NEW base PROVE Folds(k, base, <<>>, base)
<1>1. PICK g : g = [i \in {0} |-> base]
  OBVIOUS
<1>2. g[0] = base /\ 1 .. Len(<<>>) = {} /\ Len(<<>>) = 0
  BY <1>1
<1> QED
  BY <1>2 DEF Folds

LEMMA FoldsOne == ASSUME NEW k, NEW base, NEW x PROVE Folds(k, base, <<x>>, FoldStep(k, base, x))
<1>1. PICK g : g = [i \in {0, 1} |-> IF i = 0 THEN base ELSE FoldStep(k, base, x)]
  OBVIOUS
<1>2. g[0] = base /\ g[1] = FoldStep(k, base, x) /\ Len(<<x>>) = 1 /\ <<x>>[1] = x
  BY <1>1
<1>3. \A i \in 1 .. Len(<<x>>) : g[i] = FoldStep(k, g[i - 1], <<x>>[i])
  BY <1>2
<1> QED
  BY <1>2, <1>3 DEF Folds

\* What is folded over one sequence and then over another is folded over both.
LEMMA FoldsJoin ==
    ASSUME NEW k, NEW S, NEW p \in Seq(S), NEW q \in Seq(S), NEW r1, NEW r2, NEW r3,
           Folds(k, r1, p, r2), Folds(k, r2, q, r3)
    PROVE  Folds(k, r1, p \o q, r3)
<1>1. PICK m, n \in Nat : m = Len(p) /\ n = Len(q)
  OBVIOUS
<1>2. PICK g : /\ g[0] = r1
               /\ \A i \in 1 .. m : g[i] = FoldStep(k, g[i - 1], p[i])
               /\ r2 = g[m]
  BY <1>1 DEF Folds
<1>3. PICK h : /\ h[0] = r2
               /\ \A i \in 1 .. n : h[i] = FoldStep(k, h[i - 1], q[i])
               /\ r3 = h[n]
  BY <1>1 DEF Folds
<1>4. PICK s : s = p \o q
  OBVIOUS
<1>5. /\ Len(s) = m + n
      /\ \A i \in 1 .. m : s[i] = p[i]
      /\ \A i \in 1 .. n : s[m + i] = q[i]
  BY <1>1, <1>4
<1>6. PICK f : f = [i \in 0 .. m + n |-> IF i <= m THEN g[i] ELSE h[i - m]]
  OBVIOUS
<1>7. f[0] = r1 /\ f[m + n] = r3
  BY <1>1, <1>2, <1>3, <1>6
<1>8. ASSUME NEW i \in 1 .. m + n PROVE f[i] = FoldStep(k, f[i - 1], s[i])
  <2>1. CASE i <= m
    BY <1>1, <1>2, <1>5, <1>6, <2>1
  <2>2. CASE i > m
    <3>1. PICK j \in 1 .. n : i = m + j
      <4>1. i - m \in 1 .. n /\ i = m + (i - m)
        BY <1>1, <2>2
      <4> QED
        BY <4>1
    <3>2. f[i] = h[j]
      BY <1>1, <1>6, <2>2, <3>1
    <3>3. f[i - 1] = h[j - 1]
      <4>1. CASE j = 1
        BY <1>1, <1>2, <1>3, <1>6, <3>1, <4>1
      <4>2. CASE j # 1
        BY <1>1, <1>6, <3>1, <4>2
      <4> QED
        BY <4>1, <4>2
    <3> QED
      BY <1>3, <1>5, <3>1, <3>2, <3>3
  <2> QED
    BY <1>1, <2>1, <2>2
<1>9. \A i \in 1 .. Len(s) : f[i] = FoldStep(k, f[i - 1], s[i])
  BY <1>5, <1>8
<1> QED
  BY <1>4, <1>5, <1>7, <1>9 DEF Folds

\* A fold has one result.
LEMMA FoldsUnique ==
    ASSUME NEW k, NEW base, NEW q, Len(q) \in Nat, NEW r1, NEW r2,
           Folds(k, base, q, r1), Folds(k, base, q, r2)
    PROVE  r1 = r2
<1>1. PICK n \in Nat : n = Len(q)
  OBVIOUS
<1>2. PICK g : /\ g[0] = base
               /\ \A i \in 1 .. n : g[i] = FoldStep(k, g[i - 1], q[i])
               /\ r1 = g[n]
  BY <1>1 DEF Folds
<1>3. PICK h : /\ h[0] = base
               /\ \A i \in 1 .. n : h[i] = FoldStep(k, h[i - 1], q[i])
               /\ r2 = h[n]
  BY <1>1 DEF Folds
<1>4. PICK T : T = {i \in Nat : i <= n => g[i] = h[i]}
  OBVIOUS
<1>5. 0 \in T
  BY <1>2, <1>3, <1>4
<1>6. ASSUME NEW i \in Nat, i \in T PROVE i + 1 \in T
  <2>1. SUFFICES ASSUME i + 1 <= n PROVE g[i + 1] = h[i + 1]
    BY <1>4
  <2>2. i + 1 \in 1 .. n /\ (i + 1) - 1 = i /\ g[i] = h[i]
    BY <1>4, <1>6, <2>1
  <2>3. g[i + 1] = FoldStep(k, g[(i + 1) - 1], q[i + 1])
    BY <1>2, <2>2
  <2>4. h[i + 1] = FoldStep(k, h[(i + 1) - 1], q[i + 1])
    BY <1>3, <2>2
  <2> QED
    BY <2>2, <2>3, <2>4
<1>7. Nat \subseteq T
  BY <1>5, <1>6, SetInduction
<1> QED
  BY <1>2, <1>3, <1>4, <1>7

LeftFold(k, base, q) == FoldLeft(LAMBDA r, x : FoldStep(k, r, x), base, q)

\* FoldLeft takes the greatest index last.
LEMMA LeftFolds ==
    ASSUME NEW k, NEW base, NEW n \in Nat, NEW q, DOMAIN q = 1 .. n, Len(q) = n
    PROVE  Folds(k, base, q, LeftFold(k, base, q))
<1> DEFINE Sums(it) ==
              it = [s \in SUBSET DOMAIN q |->
                      IF s = {} THEN base
                      ELSE FoldStep(k, it[s \ {Max(s)}], q[Max(s)])]
<1>1. LeftFold(k, base, q) = (CHOOSE it : Sums(it))[DOMAIN q]
  BY DEF LeftFold, FoldLeft, MapThenFoldSet
<1>2. PICK c : c = [s \in SUBSET (1 .. n) |-> Max(s)]
  OBVIOUS
<1>3. \A s \in SUBSET (1 .. n) : s # {} => Max(s) \in s
  BY MaxIsGreatest
<1>4. PICK it : IsFold(it, k, base, 1 .. n, c, q)
  <2>1. IsFiniteSet(1 .. n)
    BY FS_Interval
  <2>2. \A s \in SUBSET (1 .. n) : s # {} => c[s] \in s
    BY <1>2, <1>3
  <2> QED
    BY <2>1, <2>2, FoldExists
<1>5. Sums(it)
  BY <1>2, <1>4 DEF IsFold
<1>6. PICK fold : fold = (CHOOSE g : Sums(g))
  OBVIOUS
<1>7. Sums(fold)
  <2> HIDE DEF Sums
  <2> QED
    BY <1>5, <1>6
<1>8. \A s \in SUBSET (1 .. n) :
         fold[s] = IF s = {} THEN base ELSE FoldStep(k, fold[s \ {Max(s)}], q[Max(s)])
  BY <1>7
<1> HIDE DEF Sums
<1>9. PICK g : g = [i \in 0 .. n |-> fold[1 .. i]]
  OBVIOUS
<1>10. g[0] = base
  <2>1. 1 .. 0 = {} /\ 0 \in 0 .. n
    OBVIOUS
  <2> QED
    BY <1>8, <1>9, <2>1
<1>11. ASSUME NEW i \in 1 .. n PROVE g[i] = FoldStep(k, g[i - 1], q[i])
  <2>1. PICK s : s = 1 .. i
    OBVIOUS
  <2>2. i \in s /\ s \subseteq 1 .. n /\ \A x \in s : x <= i /\ x \in Nat
    BY <2>1
  <2>3. Max(s) \in s /\ i <= Max(s)
    BY <2>2, MaxIsGreatest
  <2>4. Max(s) = i
    <3>1. PICK m : m = Max(s)
      OBVIOUS
    <3>2. m \in Nat /\ i \in Nat
      BY <2>2, <2>3, <3>1
    <3> QED
      BY <2>2, <2>3, <3>1, <3>2
  <2>5. s \ {i} = 1 .. i - 1
    <3>1. \A x : x \in s \ {i} <=> x \in 1 .. i - 1
      BY <2>1
    <3> QED
      BY <3>1
  <2>6. fold[s] = FoldStep(k, fold[s \ {i}], q[i])
    BY <1>8, <2>2, <2>4
  <2>7. g[i] = fold[1 .. i] /\ g[i - 1] = fold[1 .. i - 1]
    BY <1>9
  <2> QED
    BY <2>1, <2>5, <2>6, <2>7
<1>12. LeftFold(k, base, q) = g[n]
  BY <1>1, <1>6, <1>9
<1> QED
  BY <1>10, <1>11, <1>12 DEF Folds

\* A fold from the last element to the first; g[i] has what it makes of those from i on.
FoldsBack(g, k, base, q, n) ==
    /\ g[n + 1] = base
    /\ \A i \in 1 .. n : g[i] = FoldStep(k, g[i + 1], q[i])

RightFold(k, base, q) == FoldRight(LAMBDA x, r : FoldStep(k, r, x), q, base)

\* FoldRight takes the least index last.
LEMMA RightFolds ==
    ASSUME NEW k, NEW base, NEW n \in Nat, NEW q, DOMAIN q = 1 .. n
    PROVE  \E g : FoldsBack(g, k, base, q, n) /\ RightFold(k, base, q) = g[1]
<1> DEFINE Sums(it) ==
              it = [s \in SUBSET DOMAIN q |->
                      IF s = {} THEN base
                      ELSE FoldStep(k, it[s \ {Min(s)}], q[Min(s)])]
<1>1. RightFold(k, base, q) = (CHOOSE it : Sums(it))[DOMAIN q]
  BY DEF RightFold, FoldRight, MapThenFoldSet
<1>2. PICK c : c = [s \in SUBSET (1 .. n) |-> Min(s)]
  OBVIOUS
<1>3. ASSUME NEW s \in SUBSET (1 .. n), s # {} PROVE Min(s) \in s
  <2>1. s \subseteq Nat
    OBVIOUS
  <2> QED
    BY <1>3, <2>1, MinIsLeast
<1>4. PICK it : IsFold(it, k, base, 1 .. n, c, q)
  <2>1. IsFiniteSet(1 .. n)
    BY FS_Interval
  <2>2. \A s \in SUBSET (1 .. n) : s # {} => c[s] \in s
    BY <1>2, <1>3
  <2> QED
    BY <2>1, <2>2, FoldExists
<1>5. Sums(it)
  BY <1>2, <1>4 DEF IsFold
<1>6. PICK fold : fold = (CHOOSE g : Sums(g))
  OBVIOUS
<1>7. Sums(fold)
  <2> HIDE DEF Sums
  <2> QED
    BY <1>5, <1>6
<1>8. \A s \in SUBSET (1 .. n) :
         fold[s] = IF s = {} THEN base ELSE FoldStep(k, fold[s \ {Min(s)}], q[Min(s)])
  BY <1>7
<1> HIDE DEF Sums
<1>9. PICK g : g = [i \in 1 .. n + 1 |-> fold[i .. n]]
  OBVIOUS
<1>10. g[n + 1] = base
  <2>1. n + 1 .. n = {} /\ n + 1 \in 1 .. n + 1
    OBVIOUS
  <2> QED
    BY <1>8, <1>9, <2>1
<1>11. ASSUME NEW i \in 1 .. n PROVE g[i] = FoldStep(k, g[i + 1], q[i])
  <2>1. PICK s : s = i .. n
    OBVIOUS
  <2>2. i \in s /\ s \subseteq 1 .. n /\ \A x \in s : x >= i /\ x \in Nat
    BY <2>1
  <2>3. Min(s) \in s /\ Min(s) <= i
    <3>1. s \subseteq Nat /\ s # {}
      BY <2>2
    <3> QED
      BY <2>2, <3>1, MinIsLeast
  <2>4. Min(s) = i
    <3>1. PICK m : m = Min(s)
      OBVIOUS
    <3>2. m \in Nat /\ i \in Nat
      BY <2>2, <2>3, <3>1
    <3> QED
      BY <2>2, <2>3, <3>1, <3>2
  <2>5. s \ {i} = i + 1 .. n
    <3>1. \A x : x \in s \ {i} <=> x \in i + 1 .. n
      BY <2>1
    <3> QED
      BY <3>1
  <2>6. fold[s] = FoldStep(k, fold[s \ {i}], q[i])
    BY <1>8, <2>2, <2>4
  <2>7. g[i] = fold[i .. n] /\ g[i + 1] = fold[i + 1 .. n]
    BY <1>9
  <2> QED
    BY <2>1, <2>5, <2>6, <2>7
<1>12. RightFold(k, base, q) = g[1]
  BY <1>1, <1>6, <1>9
<1> QED
  BY <1>10, <1>11, <1>12 DEF FoldsBack

\* FlattenSeq puts the sequences one behind another from the first to the last.
JoinsFromFirst(f, q, n) ==
    /\ FlattenSeq(q) = f[n]
    /\ f[1] = q[1]
    /\ \A i \in 1 .. n : i # 1 => f[i] = f[i - 1] \o q[i]

LEMMA FlattenJoins ==
    ASSUME NEW n \in Nat \ {0}, NEW q, Len(q) = n
    PROVE  \E f : JoinsFromFirst(f, q, n)
<1> DEFINE Joined(f, i) == IF i = 1 THEN q[i] ELSE f[i - 1] \o q[i]
           Flat(f) == f = [i \in 1 .. n |-> Joined(f, i)]
           Good(k) == \E g : \A i \in 1 .. k : g[i] = Joined(g, i)
<1>1. FlattenSeq(q) = (CHOOSE f : Flat(f))[n]
  BY DEF FlattenSeq
<1>2. Good(0)
  OBVIOUS
<1>3. ASSUME NEW k \in Nat, Good(k) PROVE Good(k + 1)
  <2>1. PICK g : \A i \in 1 .. k : g[i] = Joined(g, i)
    BY <1>3
  <2>2. PICK h : h = [i \in 1 .. k + 1 |-> Joined(g, i)]
    OBVIOUS
  <2>3. \A i \in 1 .. k : h[i] = g[i]
    BY <2>1, <2>2
  <2>4. \A i \in 1 .. k + 1 : h[i] = Joined(h, i)
    <3> TAKE i \in 1 .. k + 1
    <3>1. h[i] = Joined(g, i)
      BY <2>2
    <3>2. i # 1 => h[i - 1] = g[i - 1]
      BY <2>3
    <3> QED
      BY <3>1, <3>2
  <2> QED
    BY <2>4
<1>4. Good(n)
  <2> HIDE DEF Good
  <2>1. PICK S : S = {k \in Nat : Good(k)}
    OBVIOUS
  <2>2. 0 \in S /\ \A k \in Nat : k \in S => k + 1 \in S
    BY <1>2, <1>3, <2>1
  <2>3. Nat \subseteq S
    BY <2>2, SetInduction
  <2> QED
    BY <2>1, <2>3
<1>5. PICK g : \A i \in 1 .. n : g[i] = Joined(g, i)
  BY <1>4
<1>6. PICK f : f = [i \in 1 .. n |-> g[i]]
  OBVIOUS
<1>7. Flat(f)
  <2>1. \A i \in 1 .. n : Joined(f, i) = Joined(g, i)
    BY <1>6
  <2> QED
    BY <1>5, <1>6, <2>1
<1>8. PICK flat : flat = (CHOOSE h : Flat(h))
  OBVIOUS
<1>9. Flat(flat)
  <2> HIDE DEF Flat
  <2> QED
    BY <1>7, <1>8
<1>10. flat[1] = q[1] /\ \A i \in 1 .. n : i # 1 => flat[i] = flat[i - 1] \o q[i]
  <2>1. \A i \in 1 .. n : flat[i] = Joined(flat, i)
    BY <1>9
  <2>2. 1 \in 1 .. n
    OBVIOUS
  <2>3. \A i \in 1 .. n : i # 1 => Joined(flat, i) = flat[i - 1] \o q[i]
    OBVIOUS
  <2> QED
    BY <2>1, <2>2, <2>3
<1> HIDE DEF Flat
<1>11. FlattenSeq(q) = flat[n]
  BY <1>1, <1>8
<1> QED
  BY <1>10, <1>11 DEF JoinsFromFirst

-----------------------------------------------------------------------------
(* Numbers as bytes.                                                       *)

\* A function that is defined from each number to the next one, up to n.
Iterates(f, n, base, next) ==
    f = [i \in 0 .. n |-> IF i = 0 THEN base ELSE next[f[i - 1]]]

LEMMA IterationExists ==
    ASSUME NEW n \in Nat, NEW base \in Int, NEW next \in [Int -> Int]
    PROVE  \E f \in [0 .. n -> Int] : Iterates(f, n, base, next)
<1> DEFINE Good(k) == \E g \in [0 .. k -> Int] : Iterates(g, k, base, next)
<1>1. Good(0)
  <2>1. PICK g : g = [i \in 0 .. 0 |-> base]
    OBVIOUS
  <2>2. g \in [0 .. 0 -> Int] /\ Iterates(g, 0, base, next)
    BY <2>1 DEF Iterates
  <2> QED
    BY <2>2
<1>2. ASSUME NEW k \in Nat, Good(k) PROVE Good(k + 1)
  <2>1. PICK g \in [0 .. k -> Int] : Iterates(g, k, base, next)
    BY <1>2
  <2>2. PICK h : h = [i \in 0 .. k + 1 |-> IF i <= k THEN g[i] ELSE next[g[k]]]
    OBVIOUS
  <2>3. h \in [0 .. k + 1 -> Int]
    BY <2>2
  <2>4. ASSUME NEW i \in 0 .. k + 1
        PROVE  h[i] = IF i = 0 THEN base ELSE next[h[i - 1]]
    <3>1. CASE i = 0
      BY <2>1, <2>2, <3>1 DEF Iterates
    <3>2. CASE i \in 1 .. k
      <4>1. i # 0 /\ i \in 0 .. k /\ i - 1 \in 0 .. k /\ i - 1 \in 0 .. k + 1
        BY <3>2
      <4>2. g[i] = next[g[i - 1]]
        BY <2>1, <4>1 DEF Iterates
      <4>3. h[i] = g[i] /\ h[i - 1] = g[i - 1]
        BY <2>2, <4>1
      <4> QED
        BY <4>1, <4>2, <4>3
    <3>3. CASE i = k + 1
      BY <2>2, <3>3
    <3> QED
      BY <3>1, <3>2, <3>3
  <2>5. h = [i \in 0 .. k + 1 |-> IF i = 0 THEN base ELSE next[h[i - 1]]]
    BY <2>2, <2>4
  <2> QED
    BY <2>3, <2>5 DEF Iterates
<1> HIDE DEF Good
<1>3. PICK S : S = {k \in Nat : Good(k)}
  OBVIOUS
<1>4. 0 \in S /\ \A k \in Nat : k \in S => k + 1 \in S
  BY <1>1, <1>2, <1>3
<1>5. Nat \subseteq S
  BY <1>4, SetInduction
<1>6. Good(n)
  BY <1>3, <1>5
<1> QED
  BY <1>6 DEF Good

LEMMA PowerSteps ==
    /\ Power[0] = 1
    /\ \A i \in 1 .. Width : Power[i] = 256 * Power[i - 1]
    /\ \A i \in 0 .. Width : Power[i] \in Int
<1> DEFINE Powers(f) == f = [i \in 0 .. Width |-> IF i = 0 THEN 1 ELSE 256 * f[i - 1]]
<1>1. PICK next \in [Int -> Int] : next = [x \in Int |-> 256 * x]
  <2>1. [x \in Int |-> 256 * x] \in [Int -> Int]
    OBVIOUS
  <2> QED
    BY <2>1
<1>2. PICK f \in [0 .. Width -> Int] : Iterates(f, Width, 1, next)
  <2>1. Width \in Nat /\ 1 \in Int
    BY WidthAssumption
  <2> QED
    BY <2>1, IterationExists
<1>3. Powers(f)
  <2>1. ASSUME NEW i \in 0 .. Width, i # 0 PROVE next[f[i - 1]] = 256 * f[i - 1]
    <3>1. i - 1 \in 0 .. Width
      BY <2>1, WidthAssumption
    <3>2. f[i - 1] \in Int
      BY <3>1
    <3> QED
      BY <1>1, <3>2
  <2> QED
    BY <1>2, <2>1 DEF Iterates
<1>4. Power = CHOOSE g : Powers(g)
  BY DEF Power
<1>5. Powers(Power)
  <2> HIDE DEF Powers
  <2> QED
    BY <1>3, <1>4
<1>6. Power[0] = 1 /\ \A i \in 1 .. Width : Power[i] = 256 * Power[i - 1]
  <2>1. 0 \in 0 .. Width /\ \A i \in 1 .. Width : i \in 0 .. Width /\ i # 0
    BY WidthAssumption
  <2> QED
    BY <1>5, <2>1
<1> HIDE DEF Powers
<1>7. PICK T : T = {i \in Nat : i <= Width => Power[i] \in Int}
  OBVIOUS
<1>8. 0 \in T
  BY <1>6, <1>7
<1>9. ASSUME NEW i \in Nat, i \in T PROVE i + 1 \in T
  <2>1. SUFFICES ASSUME i + 1 <= Width PROVE Power[i + 1] \in Int
    BY <1>7
  <2>2. i + 1 \in 1 .. Width /\ (i + 1) - 1 = i /\ Power[i] \in Int
    BY <1>7, <1>9, <2>1, WidthAssumption
  <2>3. PICK p \in Int : p = Power[(i + 1) - 1]
    BY <2>2
  <2>4. PICK q : q = Power[i + 1]
    OBVIOUS
  <2>5. q = 256 * p
    BY <1>6, <2>2, <2>3, <2>4
  <2>6. q \in Int
    BY <2>3, <2>5
  <2> QED
    BY <2>4, <2>6
<1>10. Nat \subseteq T
  BY <1>8, <1>9, SetInduction
<1>11. \A i \in 0 .. Width : Power[i] \in Int
  BY <1>7, <1>10, WidthAssumption
<1> QED
  BY <1>6, <1>11

LEMMA ShiftedSteps ==
    ASSUME NEW n \in Int
    PROVE  /\ Shifted(n)[0] = n
           /\ \A i \in 1 .. Width : Shifted(n)[i] = Shifted(n)[i - 1] \div 256
           /\ \A i \in 0 .. Width : Shifted(n)[i] \in Int
<1> DEFINE Shifts(f) == f = [i \in 0 .. Width |-> IF i = 0 THEN n ELSE f[i - 1] \div 256]
<1>1. PICK next \in [Int -> Int] : next = [x \in Int |-> x \div 256]
  <2>1. [x \in Int |-> x \div 256] \in [Int -> Int]
    OBVIOUS
  <2> QED
    BY <2>1
<1>2. PICK f \in [0 .. Width -> Int] : Iterates(f, Width, n, next)
  <2>1. Width \in Nat /\ n \in Int
    BY WidthAssumption
  <2> QED
    BY <2>1, IterationExists
<1>3. Shifts(f)
  <2>1. ASSUME NEW i \in 0 .. Width, i # 0 PROVE next[f[i - 1]] = f[i - 1] \div 256
    <3>1. i - 1 \in 0 .. Width
      BY <2>1, WidthAssumption
    <3>2. f[i - 1] \in Int
      BY <3>1
    <3> QED
      BY <1>1, <3>2
  <2> QED
    BY <1>2, <2>1 DEF Iterates
<1>4. PICK sh : sh = CHOOSE g : Shifts(g)
  OBVIOUS
<1>5. Shifted(n) = sh
  BY <1>4 DEF Shifted
<1>6. Shifts(sh)
  <2> HIDE DEF Shifts
  <2> QED
    BY <1>3, <1>4
<1>7. sh[0] = n /\ \A i \in 1 .. Width : sh[i] = sh[i - 1] \div 256
  <2>1. 0 \in 0 .. Width /\ \A i \in 1 .. Width : i \in 0 .. Width /\ i # 0
    BY WidthAssumption
  <2> QED
    BY <1>6, <2>1
<1> HIDE DEF Shifts
<1>8. PICK T : T = {i \in Nat : i <= Width => sh[i] \in Int}
  OBVIOUS
<1>9. 0 \in T
  BY <1>7, <1>8
<1>10. ASSUME NEW i \in Nat, i \in T PROVE i + 1 \in T
  <2>1. SUFFICES ASSUME i + 1 <= Width PROVE sh[i + 1] \in Int
    BY <1>8
  <2>2. i + 1 \in 1 .. Width /\ (i + 1) - 1 = i /\ sh[i] \in Int
    BY <1>8, <1>10, <2>1, WidthAssumption
  <2>3. sh[i + 1] = sh[(i + 1) - 1] \div 256
    BY <1>7, <2>2
  <2>4. PICK x \in Int : x = sh[i]
    BY <2>2
  <2>5. x \div 256 \in Int
    BY <2>4
  <2> QED
    BY <2>2, <2>3, <2>4, <2>5
<1>11. Nat \subseteq T
  BY <1>9, <1>10, SetInduction
<1>12. \A i \in 0 .. Width : sh[i] \in Int
  BY <1>8, <1>11, WidthAssumption
<1> QED
  BY <1>5, <1>7, <1>12

\* What is left of a number after i shifts has i bytes less.
LEMMA ShiftedBounds ==
    ASSUME NEW n \in Int, - Power[Width] <= n, n < Power[Width]
    PROVE  \A i \in 0 .. Width : /\ - Power[Width - i] <= Shifted(n)[i]
                                 /\ Shifted(n)[i] < Power[Width - i]
<1>1. PICK sh : sh = Shifted(n)
  OBVIOUS
<1>2. PICK T : T = {i \in Nat : i <= Width => /\ - Power[Width - i] <= sh[i]
                                              /\ sh[i] < Power[Width - i]}
  OBVIOUS
<1>3. 0 \in T
  <2>1. sh[0] = n /\ Width - 0 = Width
    BY <1>1, ShiftedSteps, WidthAssumption
  <2> QED
    BY <1>2, <2>1
<1>4. ASSUME NEW i \in Nat, i \in T PROVE i + 1 \in T
  <2>1. SUFFICES ASSUME i + 1 <= Width
                 PROVE  /\ - Power[Width - (i + 1)] <= sh[i + 1]
                        /\ sh[i + 1] < Power[Width - (i + 1)]
    BY <1>2
  <2>2. PICK j \in 1 .. Width : j = Width - i /\ j - 1 = Width - (i + 1)
    BY <2>1, WidthAssumption
  <2>3. PICK p, q \in Int : p = Power[j] /\ q = Power[j - 1] /\ p = 256 * q
    BY <2>2, PowerSteps, WidthAssumption
  <2>4. i \in 0 .. Width /\ i + 1 \in 1 .. Width /\ i + 1 \in 0 .. Width /\ (i + 1) - 1 = i
    BY <2>1, WidthAssumption
  <2>5. sh[i + 1] = sh[(i + 1) - 1] \div 256 /\ sh[i] \in Int
    BY <1>1, <2>4, ShiftedSteps
  <2>6. PICK x, y \in Int : x = sh[i] /\ y = sh[i + 1] /\ y = x \div 256
    <3>1. sh[i] \div 256 \in Int
      BY <2>5
    <3> QED
      BY <2>4, <2>5, <3>1
  <2>7. - p <= x /\ x < p
    <3>1. i <= Width /\ Width - i = j
      BY <2>2, <2>4
    <3>2. - Power[Width - i] <= sh[i] /\ sh[i] < Power[Width - i]
      BY <1>2, <1>4, <3>1
    <3> QED
      BY <2>3, <2>6, <3>1, <3>2
  <2>8. - q <= y /\ y < q
    BY <2>3, <2>6, <2>7
  <2> QED
    BY <2>2, <2>3, <2>6, <2>8
<1>5. Nat \subseteq T
  BY <1>3, <1>4, SetInduction
<1> QED
  BY <1>1, <1>2, <1>5, WidthAssumption

\* The bytes of a number give it back, but for what their sign is worth.
LEMMA BytesValue ==
    ASSUME NEW n \in Int, - Power[Width] <= n, n < Power[Width]
    PROVE  Unsigned(FixedBytes(n)) = IF n < 0 THEN n + Power[Width] ELSE n
<1>1. PICK sh : sh = Shifted(n)
  OBVIOUS
<1>2. PICK b : b = FixedBytes(n)
  OBVIOUS
<1>3. DOMAIN b = 1 .. Width /\ \A i \in 1 .. Width : b[i] = sh[i - 1] % 256
  BY <1>1, <1>2 DEF FixedBytes
<1>4. Unsigned(b) = RightFold("Digit", 0, b)
  BY DEF Unsigned, RightFold, FoldStep, FoldRight, MapThenFoldSet
<1>5. PICK g : FoldsBack(g, "Digit", 0, b, Width) /\ RightFold("Digit", 0, b) = g[1]
  <2>1. Width \in Nat
    BY WidthAssumption
  <2> QED
    BY <1>3, <2>1, RightFolds
<1>6. g[Width + 1] = 0 /\ \A i \in 1 .. Width : g[i] = b[i] + 256 * g[i + 1]
  BY <1>5 DEF FoldsBack, FoldStep
<1>7. PICK l \in {0, -1} : l = sh[Width] /\ (n < 0 <=> l = -1)
  <2>1. Width - Width = 0 /\ Width \in 0 .. Width
    BY WidthAssumption
  <2>2. -1 <= sh[Width] /\ sh[Width] < 1 /\ sh[Width] \in Int
    BY <1>1, <2>1, ShiftedBounds, ShiftedSteps, PowerSteps
  <2>3. \A i \in 0 .. Width : n < 0 <=> sh[i] < 0
    <3>1. PICK T : T = {i \in Nat : i <= Width => (n < 0 <=> sh[i] < 0)}
      OBVIOUS
    <3>2. 0 \in T
      BY <1>1, <3>1, ShiftedSteps
    <3>3. ASSUME NEW i \in Nat, i \in T PROVE i + 1 \in T
      <4>1. SUFFICES ASSUME i + 1 <= Width PROVE n < 0 <=> sh[i + 1] < 0
        BY <3>1
      <4>2. i \in 0 .. Width /\ i + 1 \in 1 .. Width /\ (i + 1) - 1 = i
        BY <4>1, WidthAssumption
      <4>3. sh[i + 1] = sh[i] \div 256 /\ sh[i] \in Int
        BY <1>1, <4>2, ShiftedSteps
      <4>4. n < 0 <=> sh[i] < 0
        BY <3>1, <3>3, <4>2
      <4> QED
        BY <4>3, <4>4
    <3>4. Nat \subseteq T
      BY <3>2, <3>3, SetInduction
    <3> QED
      BY <3>1, <3>4, WidthAssumption
  <2>4. n < 0 <=> sh[Width] < 0
    BY <2>1, <2>3
  <2>5. PICK x \in Int : x = sh[Width]
    BY <2>2
  <2> QED
    BY <2>2, <2>4, <2>5
<1>8. \A i \in 0 .. Width : g[(Width - i) + 1] = sh[Width - i] - l * Power[i]
  <2>1. PICK T : T = {i \in Nat :
                        i <= Width => g[(Width - i) + 1] = sh[Width - i] - l * Power[i]}
    OBVIOUS
  <2>2. 0 \in T
    <3>1. (Width - 0) + 1 = Width + 1 /\ Width - 0 = Width
      BY WidthAssumption
    <3>2. l - l * 1 = 0
      BY <1>7
    <3> QED
      BY <1>6, <1>7, <2>1, <3>1, <3>2, PowerSteps
  <2>3. ASSUME NEW i \in Nat, i \in T PROVE i + 1 \in T
    <3>1. SUFFICES ASSUME i + 1 <= Width
                   PROVE  g[(Width - (i + 1)) + 1]
                            = sh[Width - (i + 1)] - l * Power[i + 1]
      BY <2>1
    <3>2. PICK j \in 1 .. Width : /\ j = Width - i
                                  /\ (Width - (i + 1)) + 1 = j
                                  /\ Width - (i + 1) = j - 1
                                  /\ j - 1 \in 0 .. Width
                                  /\ j \in 0 .. Width
      BY <3>1, WidthAssumption
    <3>3. g[j] = b[j] + 256 * g[j + 1] /\ b[j] = sh[j - 1] % 256
      BY <1>3, <1>6, <3>2
    <3>4. PICK x, y \in Int : x = sh[j - 1] /\ y = sh[j] /\ y = x \div 256
      BY <1>1, <3>2, ShiftedSteps
    <3>5. PICK p, q \in Int : p = Power[i + 1] /\ q = Power[i] /\ p = 256 * q
      <4>1. i \in 0 .. Width /\ i + 1 \in 1 .. Width /\ i + 1 \in 0 .. Width
            /\ (i + 1) - 1 = i
        BY <3>1, WidthAssumption
      <4> QED
        BY <4>1, PowerSteps
    <3>6. g[j + 1] = y - l * q
      <4>1. i <= Width /\ (Width - i) + 1 = j + 1 /\ Width - i = j
        BY <3>1, <3>2, WidthAssumption
      <4>2. g[(Width - i) + 1] = sh[Width - i] - l * Power[i]
        BY <2>1, <2>3, <4>1
      <4> QED
        BY <3>4, <3>5, <4>1, <4>2
    <3>7. g[j] = (x % 256) + 256 * (y - l * q)
      BY <3>3, <3>4, <3>6
    <3>8. x = (x % 256) + 256 * y
      BY <3>4
    <3>9. CASE l = 0
      <4>1. y - l * q = y /\ x - l * p = x
        BY <3>4, <3>5, <3>9
      <4> QED
        BY <3>2, <3>4, <3>5, <3>7, <3>8, <4>1
    <3>10. CASE l = -1
      <4>1. y - l * q = y + q /\ x - l * p = x + p
        BY <3>4, <3>5, <3>10
      <4> QED
        BY <3>2, <3>4, <3>5, <3>7, <3>8, <4>1
    <3> QED
      BY <1>7, <3>9, <3>10
  <2>4. Nat \subseteq T
    BY <2>2, <2>3, SetInduction
  <2> QED
    BY <2>1, <2>4, WidthAssumption
<1>9. g[1] = n - l * Power[Width]
  <2>1. Width \in 0 .. Width /\ (Width - Width) + 1 = 1 /\ Width - Width = 0
    BY WidthAssumption
  <2>2. g[(Width - Width) + 1] = sh[Width - Width] - l * Power[Width]
    BY <1>8, <2>1
  <2>3. sh[0] = n
    BY <1>1, ShiftedSteps
  <2> QED
    BY <2>1, <2>2, <2>3
<1>10. Power[Width] \in Int
  BY PowerSteps, WidthAssumption
<1>11. n - l * Power[Width] = IF n < 0 THEN n + Power[Width] ELSE n
  BY <1>7, <1>10
<1> QED
  BY <1>2, <1>4, <1>5, <1>9, <1>11

\* fixed64 and sfixed64 give back every number of their width.
LEMMA FixedReads ==
    /\ \A n \in Int64s : Signed(FixedBytes(n)) = n
    /\ \A n \in Uint64s : Unsigned(FixedBytes(n)) = n
<1>1. PICK p \in Int : p = Power[Width] /\ Power[Width] \in Int
  BY PowerSteps, WidthAssumption
<1>2. ASSUME NEW n \in Int64s PROVE Signed(FixedBytes(n)) = n
  <2>1. n \in Int /\ - p <= 2 * n /\ 2 * n < p
    BY <1>1 DEF Int64s
  <2>2. - p <= n /\ n < p
    BY <2>1
  <2>3. Unsigned(FixedBytes(n)) = IF n < 0 THEN n + p ELSE n
    BY <1>1, <2>1, <2>2, BytesValue
  <2>4. PICK u : u = Unsigned(FixedBytes(n))
    OBVIOUS
  <2>5. Signed(FixedBytes(n)) = IF 2 * u < p THEN u ELSE u - p
    BY <1>1, <2>4 DEF Signed
  <2> QED
    BY <2>1, <2>3, <2>4, <2>5
<1>3. ASSUME NEW n \in Uint64s PROVE Unsigned(FixedBytes(n)) = n
  <2>1. n \in Nat /\ n < p
    BY <1>1 DEF Uint64s
  <2>2. - p <= n
    BY <2>1
  <2> QED
    BY <1>1, <2>1, <2>2, BytesValue
<1> QED
  BY <1>2, <1>3

-----------------------------------------------------------------------------
(* The fields of a string of bytes.                                        *)

FieldSet == [tag : Nat, bytes : Seq(Nat)]

\* What Fields finds from the byte i on, if it finds from[j] from a later j on.
FieldsAt(from, s, i) ==
    IF i = Len(s) + 1 THEN [fields |-> <<>>, end |-> "limit"]
    ELSE IF s[i] = 0 THEN [fields |-> <<>>, end |-> "zero"]
    ELSE IF ~Readable(s, i) THEN [fields |-> <<>>, end |-> "bad"]
    ELSE [from[Payload(s, i)[2] + 1] EXCEPT
            !.fields = <<[tag |-> s[i],
                          bytes |-> SubSeq(s, Payload(s, i)[1], Payload(s, i)[2])]>> \o @]

LEMMA PayloadIs ==
    ASSUME NEW s, NEW i, NEW w, w = s[i] % 8
    PROVE  /\ w = Varint => Payload(s, i) = <<i + 1, i + 1>>
           /\ w = Fixed64 => Payload(s, i) = <<i + 1, i + Width>>
           /\ w = Fixed32 => Payload(s, i) = <<i + 1, i + Width \div 2>>
           /\ w = Delimited /\ i < Len(s) => Payload(s, i) = <<i + 2, i + 1 + s[i + 1]>>
           /\ w \notin {Varint, Fixed64, Fixed32} /\ ~ (w = Delimited /\ i < Len(s))
                => Payload(s, i) = <<i + 1, Len(s) + 1>>
BY DEF Payload, Varint, Fixed64, Fixed32, Delimited

\* A field that can be read ends within the string.
LEMMA PayloadEnds ==
    ASSUME NEW s \in Seq(Nat), NEW i \in 1 .. Len(s), Readable(s, i)
    PROVE  /\ Payload(s, i)[1] \in Nat /\ Payload(s, i)[1] > i
           /\ Payload(s, i)[2] \in i .. Len(s)
<1>1. s[i] \in Nat /\ Len(s) \in Nat /\ i \in Nat
  OBVIOUS
<1>2. Payload(s, i)[2] <= Len(s)
  BY DEF Readable
<1>3. PICK w : w = s[i] % 8
  OBVIOUS
<1>4. CASE w = Varint \/ w = Fixed64 \/ w = Fixed32
  <2>1. Width \in Nat /\ Width \div 2 \in Nat
    BY WidthAssumption
  <2>2. PICK l \in Nat : Payload(s, i) = <<i + 1, i + l>>
    BY <1>3, <1>4, <2>1, PayloadIs
  <2> QED
    BY <1>1, <1>2, <2>2
<1>5. CASE w = Delimited /\ i < Len(s)
  <2>1. PICK l \in Nat : l = s[i + 1]
    BY <1>1, <1>5
  <2>2. Payload(s, i) = <<i + 2, i + 1 + l>>
    BY <1>3, <1>5, <2>1, PayloadIs
  <2>3. Payload(s, i)[1] = i + 2 /\ Payload(s, i)[2] = i + 1 + l
    BY <2>2
  <2>4. PICK e \in Nat : e = i + 1 + l
    BY <1>1, <2>1
  <2>5. e <= Len(s) /\ i <= e
    BY <1>1, <1>2, <2>1, <2>3, <2>4
  <2> QED
    BY <1>1, <2>3, <2>4, <2>5
<1>6. CASE w \notin {Varint, Fixed64, Fixed32} /\ ~ (w = Delimited /\ i < Len(s))
  <2>1. Payload(s, i) = <<i + 1, Len(s) + 1>>
    BY <1>3, <1>6, PayloadIs
  <2> QED
    BY <1>1, <1>2, <2>1
<1> QED
  BY <1>4, <1>5, <1>6

IsFields(from, s) == \A i \in 1 .. Len(s) + 1 : from[i] = FieldsAt(from, s, i)

LEMMA FieldsFound ==
    ASSUME NEW s \in Seq(Nat)
    PROVE  \E from : IsFields(from, s) /\ Fields(s) = from[1]
<1> DEFINE All(f) == f = [i \in 1 .. Len(s) + 1 |-> FieldsAt(f, s, i)]
           Good(k) == \E g : \A i \in 1 .. Len(s) + 1 :
                                i + k > Len(s) + 1 => g[i] = FieldsAt(g, s, i)
<1>1. PICK n \in Nat : n = Len(s)
  OBVIOUS
<1>2. Good(0)
  BY <1>1
<1>3. ASSUME NEW k \in Nat, Good(k) PROVE Good(k + 1)
  <2>1. PICK g : \A i \in 1 .. n + 1 : i + k > n + 1 => g[i] = FieldsAt(g, s, i)
    BY <1>1, <1>3
  <2>2. PICK h : h = [i \in 1 .. n + 1 |-> FieldsAt(g, s, i)]
    OBVIOUS
  <2>3. ASSUME NEW i \in 1 .. n + 1, i + (k + 1) > n + 1 PROVE h[i] = FieldsAt(h, s, i)
    <3>1. h[i] = FieldsAt(g, s, i)
      BY <2>2
    <3>2. ASSUME i \in 1 .. n, Readable(s, i)
          PROVE  h[Payload(s, i)[2] + 1] = g[Payload(s, i)[2] + 1]
      <4>1. PICK e \in i .. n : e = Payload(s, i)[2]
        BY <1>1, <3>2, PayloadEnds
      <4>2. e \in Nat /\ i \in Nat /\ e >= i /\ e <= n
        BY <1>1, <3>2, <4>1
      <4>3. e + 1 \in 1 .. n + 1 /\ (e + 1) + k > n + 1
        BY <2>3, <4>2
      <4> QED
        BY <2>1, <2>2, <4>1, <4>3
    <3>3. FieldsAt(g, s, i) = FieldsAt(h, s, i)
      <4>1. CASE i = n + 1
        BY <1>1, <4>1 DEF FieldsAt
      <4>2. CASE i \in 1 .. n /\ Readable(s, i)
        BY <3>2, <4>2 DEF FieldsAt
      <4>3. CASE i \in 1 .. n /\ ~ Readable(s, i)
        BY <4>3 DEF FieldsAt
      <4> QED
        BY <1>1, <4>1, <4>2, <4>3
    <3> QED
      BY <3>1, <3>3
  <2> QED
    BY <1>1, <2>3
<1>4. Good(n + 1)
  <2> HIDE DEF Good
  <2>1. PICK S : S = {k \in Nat : Good(k)}
    OBVIOUS
  <2>2. 0 \in S /\ \A k \in Nat : k \in S => k + 1 \in S
    BY <1>2, <1>3, <2>1
  <2>3. Nat \subseteq S
    BY <2>2, SetInduction
  <2> QED
    BY <2>1, <2>3
<1>5. PICK g : \A i \in 1 .. n + 1 : g[i] = FieldsAt(g, s, i)
  <2>1. PICK g : \A i \in 1 .. n + 1 : i + (n + 1) > n + 1 => g[i] = FieldsAt(g, s, i)
    BY <1>1, <1>4
  <2> QED
    BY <2>1
<1>6. PICK f : f = [i \in 1 .. n + 1 |-> g[i]]
  OBVIOUS
<1>7. ASSUME NEW i \in 1 .. n + 1 PROVE f[i] = FieldsAt(f, s, i)
  <2>1. ASSUME i \in 1 .. n, Readable(s, i)
        PROVE  f[Payload(s, i)[2] + 1] = g[Payload(s, i)[2] + 1]
    <3>1. PICK e \in i .. n : e = Payload(s, i)[2]
      BY <1>1, <2>1, PayloadEnds
    <3>2. e + 1 \in 1 .. n + 1
      BY <1>1, <2>1, <3>1
    <3> QED
      BY <1>6, <3>1, <3>2
  <2>2. FieldsAt(g, s, i) = FieldsAt(f, s, i)
    <3>1. CASE i = n + 1
      BY <1>1, <3>1 DEF FieldsAt
    <3>2. CASE i \in 1 .. n /\ Readable(s, i)
      BY <2>1, <3>2 DEF FieldsAt
    <3>3. CASE i \in 1 .. n /\ ~ Readable(s, i)
      BY <3>3 DEF FieldsAt
    <3> QED
      BY <1>1, <3>1, <3>2, <3>3
  <2> QED
    BY <1>5, <1>6, <2>2
<1>8. All(f)
  BY <1>1, <1>6, <1>7
<1>9. PICK from : from = (CHOOSE h : All(h))
  OBVIOUS
<1>10. All(from)
  <2> HIDE DEF All
  <2> QED
    BY <1>8, <1>9
<1>11. IsFields(from, s)
  BY <1>10 DEF IsFields
<1>12. Fields(s) = from[1]
  BY <1>9 DEF Fields, FieldsAt
<1> QED
  BY <1>11, <1>12

FieldsType == [fields : Seq(FieldSet), end : {"limit", "zero", "bad"}]

LEMMA FieldsTyped ==
    ASSUME NEW s \in Seq(Nat), NEW from, IsFields(from, s)
    PROVE  \A i \in 1 .. Len(s) + 1 : from[i] \in FieldsType
<1>1. PICK n \in Nat : n = Len(s)
  OBVIOUS
<1>2. PICK T : T = {k \in Nat : \A i \in 1 .. n + 1 : i + k > n + 1 => from[i] \in FieldsType}
  OBVIOUS
<1>3. 0 \in T
  BY <1>2
<1>4. ASSUME NEW k \in Nat, k \in T PROVE k + 1 \in T
  <2>1. SUFFICES ASSUME NEW i \in 1 .. n + 1, i + (k + 1) > n + 1
                 PROVE  from[i] \in FieldsType
    BY <1>2
  <2>2. from[i] = FieldsAt(from, s, i)
    BY <1>1 DEF IsFields
  <2>3. CASE i \in 1 .. n /\ s[i] # 0 /\ Readable(s, i)
    <3>1. PICK a, e \in Nat : /\ Payload(s, i)[1] = a /\ a > i
                              /\ Payload(s, i)[2] = e /\ e \in i .. n
      BY <1>1, <2>3, PayloadEnds
    <3>2. from[e + 1] \in FieldsType
      BY <1>2, <1>4, <2>1, <2>3, <3>1
    <3>3. SubSeq(s, a, e) \in Seq(Nat)
      <4>1. \A j \in a .. e : s[j] \in Nat
        BY <1>1, <2>3, <3>1
      <4> QED
        BY <4>1, SubSeqProperties
    <3>4. PICK f \in FieldSet : f = [tag |-> s[i], bytes |-> SubSeq(s, a, e)]
      <4>1. s[i] \in Nat
        BY <1>1, <2>3
      <4>2. [tag |-> s[i], bytes |-> SubSeq(s, a, e)] \in FieldSet
        BY <3>3, <4>1 DEF FieldSet
      <4> QED
        BY <4>2
    <3>5. from[i] = [from[e + 1] EXCEPT !.fields = <<f>> \o @]
      BY <1>1, <2>2, <2>3, <3>1, <3>4 DEF FieldsAt
    <3>6. <<f>> \o from[e + 1].fields \in Seq(FieldSet)
      BY <3>2 DEF FieldsType
    <3> QED
      BY <3>2, <3>5, <3>6 DEF FieldsType
  <2>4. CASE i = n + 1 \/ s[i] = 0 \/ ~ Readable(s, i)
    <3>1. <<>> \in Seq(FieldSet)
      OBVIOUS
    <3> QED
      BY <1>1, <2>2, <2>4, <3>1 DEF FieldsAt, FieldsType
  <2> QED
    BY <1>1, <2>3, <2>4
<1>5. Nat \subseteq T
  BY <1>3, <1>4, SetInduction
<1>6. n + 1 \in T /\ \A i \in 1 .. n + 1 : i + (n + 1) > n + 1
  BY <1>5
<1> QED
  BY <1>1, <1>2, <1>6

LEMMA FieldsHaveType == ASSUME NEW s \in Seq(Nat) PROVE Fields(s) \in FieldsType
<1>1. PICK from : IsFields(from, s) /\ Fields(s) = from[1]
  BY FieldsFound
<1>2. Len(s) \in Nat
  OBVIOUS
<1>3. 1 \in 1 .. Len(s) + 1
  BY <1>2
<1> QED
  BY <1>1, <1>3, FieldsTyped

LEMMA FieldsOfNothing == Fields(<<>>) = [fields |-> <<>>, end |-> "limit"]
<1>1. PICK s \in Seq(Nat) : s = <<>> /\ Len(s) = 0
  <2>1. <<>> \in Seq(Nat) /\ Len(<<>>) = 0
    OBVIOUS
  <2> QED
    BY <2>1
<1>2. PICK from : IsFields(from, s) /\ Fields(s) = from[1]
  BY FieldsFound
<1>3. from[1] = FieldsAt(from, s, 1)
  BY <1>1, <1>2 DEF IsFields
<1> QED
  BY <1>1, <1>2, <1>3 DEF FieldsAt

\* The field at s[m + j] is the one at t[j].
SamePayload(s, m, t, j) ==
    /\ s[m + j] = t[j]
    /\ Payload(s, m + j)[1] = m + Payload(t, j)[1]
    /\ Payload(s, m + j)[2] = m + Payload(t, j)[2]
    /\ Payload(t, j)[1] \in Int /\ Payload(t, j)[2] \in Int

\* A payload lies behind its tag, wherever this is.
LEMMA PayloadMoves ==
    ASSUME NEW p \in Seq(Nat), NEW t \in Seq(Nat), NEW j \in 1 .. Len(t)
    PROVE  SamePayload(p \o t, Len(p), t, j)
<1> SUFFICES ASSUME NEW s, s = p \o t, NEW m, m = Len(p)
             PROVE  /\ s[m + j] = t[j]
                    /\ Payload(s, m + j)[1] = m + Payload(t, j)[1]
                    /\ Payload(s, m + j)[2] = m + Payload(t, j)[2]
                    /\ Payload(t, j)[1] \in Int /\ Payload(t, j)[2] \in Int
  BY DEF SamePayload
<1>1. m \in Nat /\ Len(t) \in Nat /\ j \in Nat /\ Len(s) = m + Len(t)
  BY ConcatProperties
<1>2. \A i \in 1 .. Len(t) : s[m + i] = t[i]
  <2> TAKE i \in 1 .. Len(t)
  <2>1. m + i \in 1 .. Len(p) + Len(t) /\ ~ (m + i <= Len(p)) /\ (m + i) - Len(p) = i
    BY <1>1
  <2> QED
    BY <2>1, ConcatProperties
<1>3. s[m + j] = t[j] /\ t[j] \in Nat
  BY <1>2
<1>4. m + j < Len(s) <=> j < Len(t)
  BY <1>1
<1>5. Width \in Nat /\ Width \div 2 \in Nat
  BY WidthAssumption
<1>6. PICK w : w = s[m + j] % 8 /\ w = t[j] % 8
  BY <1>3
<1>7. CASE w = Delimited /\ j < Len(t)
  <2>1. s[(m + j) + 1] = t[j + 1] /\ t[j + 1] \in Nat
    <3>1. j + 1 \in 1 .. Len(t) /\ m + (j + 1) = (m + j) + 1
      BY <1>1, <1>7
    <3> QED
      BY <1>2, <3>1
  <2>2. Payload(t, j) = <<j + 2, j + 1 + t[j + 1]>>
    BY <1>6, <1>7, PayloadIs
  <2>3. Payload(s, m + j) = <<(m + j) + 2, (m + j) + 1 + s[(m + j) + 1]>>
    BY <1>4, <1>6, <1>7, PayloadIs
  <2>4. PICK l \in Nat : l = t[j + 1]
    BY <2>1
  <2>5. Payload(t, j) = <<j + 2, j + 1 + l>>
    BY <2>2, <2>4
  <2>6. Payload(s, m + j) = <<(m + j) + 2, (m + j) + 1 + l>>
    BY <2>1, <2>3, <2>4
  <2> QED
    BY <1>1, <1>3, <2>5, <2>6
<1>8. CASE w \in {Varint, Fixed64, Fixed32}
  <2>1. PICK l \in Nat : /\ Payload(t, j) = <<j + 1, j + l>>
                         /\ Payload(s, m + j) = <<(m + j) + 1, (m + j) + l>>
    <3>1. CASE w = Varint
      <4>1. Payload(t, j) = <<j + 1, j + 1>> /\ Payload(s, m + j) = <<(m + j) + 1, (m + j) + 1>>
        BY <1>6, <3>1, PayloadIs
      <4> QED
        BY <4>1
    <3>2. CASE w = Fixed64
      <4>1. /\ Payload(t, j) = <<j + 1, j + Width>>
            /\ Payload(s, m + j) = <<(m + j) + 1, (m + j) + Width>>
        BY <1>6, <3>2, PayloadIs
      <4> QED
        BY <1>5, <4>1
    <3>3. CASE w = Fixed32
      <4>1. /\ Payload(t, j) = <<j + 1, j + Width \div 2>>
            /\ Payload(s, m + j) = <<(m + j) + 1, (m + j) + Width \div 2>>
        BY <1>6, <3>3, PayloadIs
      <4> QED
        BY <1>5, <4>1
    <3> QED
      BY <1>8, <3>1, <3>2, <3>3
  <2> QED
    BY <1>1, <1>3, <2>1
<1>9. CASE w \notin {Varint, Fixed64, Fixed32} /\ ~ (w = Delimited /\ j < Len(t))
  <2>1. Payload(t, j) = <<j + 1, Len(t) + 1>>
    BY <1>6, <1>9, PayloadIs
  <2>2. Payload(s, m + j) = <<(m + j) + 1, Len(s) + 1>>
    BY <1>4, <1>6, <1>9, PayloadIs
  <2> QED
    BY <1>1, <1>3, <2>1, <2>2
<1> QED
  BY <1>7, <1>8, <1>9

\* What SubSeqProperties says of a sequence of numbers, for a named part.
LEMMA PartOf ==
    ASSUME NEW s, NEW m \in Int, NEW n \in Int, NEW x, x = SubSeq(s, m, n),
           \A i \in m .. n : s[i] \in Nat
    PROVE  /\ x \in Seq(Nat)
           /\ Len(x) = IF m <= n THEN (n - m) + 1 ELSE 0
           /\ \A i \in 1 .. (n - m) + 1 : x[i] = s[(m + i) - 1]
<1>1. /\ SubSeq(s, m, n) \in Seq(Nat)
      /\ Len(SubSeq(s, m, n)) = IF m <= n THEN (n - m) + 1 ELSE 0
      /\ \A i \in 1 .. (n - m) + 1 : SubSeq(s, m, n)[i] = s[(m + i) - 1]
  BY SubSeqProperties
<1> QED
  BY <1>1

LEMMA SubSeqMoves ==
    ASSUME NEW p \in Seq(Nat), NEW t \in Seq(Nat), NEW a \in Nat \ {0}, NEW e \in Nat,
           e <= Len(t)
    PROVE  SubSeq(p \o t, Len(p) + a, Len(p) + e) = SubSeq(t, a, e)
<1>1. PICK s \in Seq(Nat) : s = p \o t
  BY ConcatProperties
<1>2. PICK m \in Nat : m = Len(p)
  OBVIOUS
<1>3. Len(s) = m + Len(t) /\ \A i \in 1 .. Len(t) : s[m + i] = t[i]
  <2>1. Len(s) = m + Len(t)
    BY <1>1, <1>2, ConcatProperties
  <2>2. ASSUME NEW i \in 1 .. Len(t) PROVE s[m + i] = t[i]
    <3>1. m + i \in 1 .. Len(p) + Len(t) /\ ~ (m + i <= Len(p)) /\ (m + i) - Len(p) = i
      BY <1>2
    <3> QED
      BY <1>1, <3>1, ConcatProperties
  <2> QED
    BY <2>1, <2>2
<1>4. \A i \in a .. e : i \in 1 .. Len(t) /\ t[i] \in Nat
  OBVIOUS
<1>5. \A i \in m + a .. m + e : s[i] \in Nat
  BY <1>3, <1>1, <1>2
<1>6. PICK x, y : x = SubSeq(s, m + a, m + e) /\ y = SubSeq(t, a, e)
  OBVIOUS
<1>7. /\ x \in Seq(Nat)
      /\ Len(x) = IF m + a <= m + e THEN ((m + e) - (m + a)) + 1 ELSE 0
      /\ \A i \in 1 .. ((m + e) - (m + a)) + 1 : x[i] = s[((m + a) + i) - 1]
  <2>1. m + a \in Int /\ m + e \in Int
    BY <1>2
  <2> QED
    BY <1>5, <1>6, <2>1, PartOf
<1>8. /\ y \in Seq(Nat)
      /\ Len(y) = IF a <= e THEN (e - a) + 1 ELSE 0
      /\ \A i \in 1 .. (e - a) + 1 : y[i] = t[(a + i) - 1]
  <2>1. \A i \in a .. e : t[i] \in Nat
    BY <1>4
  <2> QED
    BY <1>6, <2>1, PartOf
<1>9. Len(x) = Len(y)
  BY <1>7, <1>8
<1>10. ASSUME NEW i \in 1 .. Len(x) PROVE x[i] = y[i]
  <2>1. a <= e /\ i \in 1 .. (e - a) + 1 /\ i \in 1 .. ((m + e) - (m + a)) + 1
    BY <1>7
  <2>2. (a + i) - 1 \in 1 .. Len(t) /\ ((m + a) + i) - 1 = m + ((a + i) - 1)
    BY <2>1
  <2> QED
    BY <1>3, <1>7, <1>8, <2>1, <2>2
<1> QED
  BY <1>1, <1>2, <1>6, <1>7, <1>8, <1>9, <1>10, SeqEqual

\* What is found from some byte on depends on the bytes from there on only.
LEMMA FieldsMove ==
    ASSUME NEW p \in Seq(Nat), NEW t \in Seq(Nat), NEW from, NEW to,
           IsFields(from, p \o t), IsFields(to, t)
    PROVE  from[Len(p) + 1] = to[1]
<1>1. PICK s \in Seq(Nat) : s = p \o t
  BY ConcatProperties
<1>2. PICK m, n \in Nat : m = Len(p) /\ n = Len(t) /\ Len(s) = m + n
  BY <1>1, ConcatProperties
<1>3. PICK T : T = {k \in Nat : \A j \in 1 .. n + 1 : j + k > n + 1 => from[m + j] = to[j]}
  OBVIOUS
<1>4. 0 \in T
  BY <1>3
<1>5. ASSUME NEW k \in Nat, k \in T PROVE k + 1 \in T
  <2>1. SUFFICES ASSUME NEW j \in 1 .. n + 1, j + (k + 1) > n + 1
                 PROVE  from[m + j] = to[j]
    BY <1>3
  <2>2. from[m + j] = FieldsAt(from, s, m + j) /\ to[j] = FieldsAt(to, t, j)
    BY <1>1, <1>2 DEF IsFields
  <2>3. CASE j = n + 1
    BY <1>2, <2>2, <2>3 DEF FieldsAt
  <2>4. CASE j \in 1 .. n
    <3>1. /\ s[m + j] = t[j]
          /\ Payload(s, m + j)[1] = m + Payload(t, j)[1]
          /\ Payload(s, m + j)[2] = m + Payload(t, j)[2]
          /\ Payload(t, j)[1] \in Int /\ Payload(t, j)[2] \in Int
      <4>1. j \in 1 .. Len(t)
        BY <1>2, <2>4
      <4>2. SamePayload(p \o t, Len(p), t, j)
        BY <4>1, PayloadMoves
      <4> QED
        BY <1>1, <1>2, <4>2 DEF SamePayload
    <3>2. Readable(s, m + j) <=> Readable(t, j)
      <4>1. PICK x, y \in Int : /\ x = Payload(t, j)[2] /\ y = Payload(s, m + j)[2]
                                /\ y = m + x
        BY <3>1
      <4>2. y <= Len(s) <=> x <= Len(t)
        BY <1>2, <4>1
      <4> QED
        BY <3>1, <4>1, <4>2 DEF Readable
    <3>3. m + j # Len(s) + 1 /\ j # Len(t) + 1
      BY <1>2, <2>4
    <3>4. CASE t[j] = 0 \/ ~ Readable(t, j)
      BY <2>2, <3>1, <3>2, <3>3, <3>4 DEF FieldsAt
    <3>5. CASE t[j] # 0 /\ Readable(t, j)
      <4>1. PICK a, e \in Nat : /\ a = Payload(t, j)[1] /\ a > j
                                /\ e = Payload(t, j)[2] /\ e \in j .. n
        <5>1. j \in 1 .. Len(t)
          BY <1>2, <2>4
        <5>2. /\ Payload(t, j)[1] \in Nat /\ Payload(t, j)[1] > j
              /\ Payload(t, j)[2] \in j .. n
          BY <1>2, <3>5, <5>1, PayloadEnds
        <5>3. Payload(t, j)[2] \in Nat
          BY <2>4, <5>2
        <5> QED
          BY <5>2, <5>3
      <4>2. from[m + (e + 1)] = to[e + 1]
        BY <1>3, <1>5, <2>1, <2>4, <4>1
      <4>3. SubSeq(s, m + a, m + e) = SubSeq(t, a, e)
        <5>1. a \in Nat \ {0} /\ e \in Nat /\ e <= Len(t)
          <6>1. a # 0
            BY <2>4, <4>1
          <6>2. e <= n
            BY <2>4, <4>1
          <6> QED
            BY <1>2, <6>1, <6>2
        <5>2. SubSeq(p \o t, Len(p) + a, Len(p) + e) = SubSeq(t, a, e)
          BY <5>1, SubSeqMoves
        <5> QED
          BY <1>1, <1>2, <5>2
      <4>4. from[m + j] = [from[(m + e) + 1] EXCEPT
                            !.fields = <<[tag |-> t[j], bytes |-> SubSeq(s, m + a, m + e)]>> \o @]
        BY <2>2, <3>1, <3>2, <3>3, <3>5, <4>1 DEF FieldsAt
      <4>5. to[j] = [to[e + 1] EXCEPT
                      !.fields = <<[tag |-> t[j], bytes |-> SubSeq(t, a, e)]>> \o @]
        BY <2>2, <3>3, <3>5, <4>1 DEF FieldsAt
      <4>6. (m + e) + 1 = m + (e + 1)
        BY <4>1
      <4> QED
        BY <4>2, <4>3, <4>4, <4>5, <4>6
    <3> QED
      BY <3>4, <3>5
  <2> QED
    BY <2>3, <2>4
<1>6. Nat \subseteq T
  BY <1>4, <1>5, SetInduction
<1>7. n + 1 \in T /\ 1 \in 1 .. n + 1 /\ 1 + (n + 1) > n + 1
  BY <1>6
<1> QED
  BY <1>2, <1>3, <1>7

-----------------------------------------------------------------------------
(* What is written, and the fields that are found in it.                   *)

IsJoin(s, p, q) ==
    /\ s \in Seq(Nat) /\ Len(s) = Len(p) + Len(q) /\ Len(p) \in Nat /\ Len(q) \in Nat
    /\ \A i \in 1 .. Len(p) : s[i] = p[i]
    /\ \A i \in 1 .. Len(q) : s[Len(p) + i] = q[i]

LEMMA JoinIs == ASSUME NEW p \in Seq(Nat), NEW q \in Seq(Nat) PROVE IsJoin(p \o q, p, q)
<1>1. PICK s : s = p \o q
  OBVIOUS
<1>2. /\ s \in Seq(Nat) /\ Len(s) = Len(p) + Len(q) /\ Len(p) \in Nat /\ Len(q) \in Nat
      /\ \A i \in 1 .. Len(p) : s[i] = p[i]
      /\ \A i \in 1 .. Len(q) : s[Len(p) + i] = q[i]
  BY <1>1
<1> QED
  BY <1>1, <1>2 DEF IsJoin

Associates(s, t, u) == (s \o t) \o u = s \o (t \o u)

LEMMA JoinAssociates ==
    ASSUME NEW S, NEW s \in Seq(S), NEW t \in Seq(S), NEW u \in Seq(S)
    PROVE  Associates(s, t, u)
BY ConcatAssociative DEF Associates

\* s is the fields fs, which are found in it whatever follows.
Encodes(s, fs) ==
    /\ s \in Seq(Nat) /\ fs \in Seq(FieldSet)
    /\ \A t \in Seq(Nat) :
           Fields(s \o t) = [fields |-> fs \o Fields(t).fields, end |-> Fields(t).end]

\* What is found, with the fields fs in front of it.
Behind(fs, found) == [fields |-> fs \o found.fields, end |-> found.end]

LEMMA EncodesBefore ==
    ASSUME NEW s, NEW fs, Encodes(s, fs), NEW t \in Seq(Nat)
    PROVE  Fields(s \o t) = Behind(fs, Fields(t))
BY DEF Encodes, Behind

LEMMA EncodesNothing == Encodes(<<>>, <<>>)
<1>1. <<>> \in Seq(Nat) /\ <<>> \in Seq(FieldSet)
  OBVIOUS
<1>2. ASSUME NEW t \in Seq(Nat)
      PROVE  Fields(<<>> \o t) = [fields |-> <<>> \o Fields(t).fields, end |-> Fields(t).end]
  <2>1. <<>> \o t = t
    OBVIOUS
  <2>2. PICK all \in FieldsType : all = Fields(t)
    BY FieldsHaveType
  <2>3. <<>> \o all.fields = all.fields
    BY DEF FieldsType
  <2> QED
    BY <2>1, <2>2, <2>3 DEF FieldsType
<1> QED
  BY <1>1, <1>2 DEF Encodes

LEMMA EncodesJoin ==
    ASSUME NEW s, NEW fs, NEW t, NEW gs, Encodes(s, fs), Encodes(t, gs)
    PROVE  Encodes(s \o t, fs \o gs)
<1>1. s \in Seq(Nat) /\ t \in Seq(Nat) /\ fs \in Seq(FieldSet) /\ gs \in Seq(FieldSet)
  BY DEF Encodes
<1>2. s \o t \in Seq(Nat) /\ fs \o gs \in Seq(FieldSet)
  BY <1>1, ConcatProperties
<1>3. ASSUME NEW u \in Seq(Nat)
      PROVE  Fields((s \o t) \o u) =
                [fields |-> (fs \o gs) \o Fields(u).fields, end |-> Fields(u).end]
  <2>1. PICK found \in FieldsType : found = Fields(u)
    BY FieldsHaveType
  <2>2. PICK tu \in Seq(Nat) : tu = t \o u
    BY <1>1, ConcatProperties
  <2>3. Fields(tu) = Behind(gs, found)
    BY <2>1, <2>2, EncodesBefore
  <2>4. Fields(s \o tu) = Behind(fs, Behind(gs, found))
    BY <2>3, EncodesBefore
  <2>5. (s \o t) \o u = s \o tu
    <3>1. Associates(s, t, u)
      BY <1>1, JoinAssociates
    <3> QED
      BY <2>2, <3>1 DEF Associates
  <2>6. (fs \o gs) \o found.fields = fs \o (gs \o found.fields)
    <3>1. found.fields \in Seq(FieldSet)
      BY DEF FieldsType
    <3>2. Associates(fs, gs, found.fields)
      BY <1>1, <3>1, JoinAssociates
    <3> QED
      BY <3>2 DEF Associates
  <2> QED
    BY <2>1, <2>4, <2>5, <2>6 DEF Behind
<1> QED
  BY <1>2, <1>3 DEF Encodes

LEMMA EncodesFields ==
    ASSUME NEW s, NEW fs, Encodes(s, fs)
    PROVE  Fields(s) = [fields |-> fs, end |-> "limit"]
<1>1. PICK e \in Seq(Nat) : e = <<>> /\ Fields(e) = [fields |-> <<>>, end |-> "limit"]
  <2>1. <<>> \in Seq(Nat)
    OBVIOUS
  <2> QED
    BY <2>1, FieldsOfNothing
<1>2. Fields(s \o e) = Behind(fs, Fields(e))
  BY <1>1, EncodesBefore
<1>3. s \in Seq(Nat) /\ fs \in Seq(FieldSet)
  BY DEF Encodes
<1>4. s \o e = s /\ fs \o <<>> = fs
  BY <1>1, <1>3, ConcatEmptySeq
<1>5. Behind(fs, Fields(e)) = [fields |-> fs \o <<>>, end |-> "limit"]
  <2>1. Fields(e).fields = <<>> /\ Fields(e).end = "limit"
    BY <1>1
  <2> QED
    BY <2>1 DEF Behind
<1> QED
  BY <1>2, <1>4, <1>5

\* s is a tag and a payload from s[a] on, whatever follows it.
EndsItself(s, a) ==
    /\ s \in Seq(Nat) /\ Len(s) \in Nat \ {0} /\ s[1] \div 8 # 0
    /\ a \in Nat /\ 1 < a
    /\ \A t \in Seq(Nat) : Payload(s \o t, 1) = <<a, Len(s)>>

OneField(s, a) == <<[tag |-> s[1], bytes |-> SubSeq(s, a, Len(s))]>>

LEMMA EncodesField ==
    ASSUME NEW s, NEW a, EndsItself(s, a)
    PROVE  Encodes(s, OneField(s, a))
<1> s \in Seq(Nat) /\ a \in Nat /\ 1 < a /\ s[1] \div 8 # 0
  BY DEF EndsItself
<1>1. PICK n \in Nat \ {0} : n = Len(s)
  BY DEF EndsItself
<1>2. PICK f : f = [tag |-> s[1], bytes |-> SubSeq(s, a, n)]
  OBVIOUS
<1>3. s[1] \in Nat /\ s[1] # 0
  BY <1>1
<1>4. f \in FieldSet
  <2>1. \A i \in a .. n : s[i] \in Nat
    BY <1>1
  <2>2. SubSeq(s, a, n) \in Seq(Nat)
    BY <2>1, SubSeqProperties
  <2> QED
    BY <1>2, <1>3, <2>2 DEF FieldSet
<1>5. ASSUME NEW t \in Seq(Nat)
      PROVE  Fields(s \o t) = [fields |-> <<f>> \o Fields(t).fields, end |-> Fields(t).end]
  <2>1. PICK u \in Seq(Nat) : u = s \o t
    BY ConcatProperties
  <2>2. /\ Len(u) = n + Len(t) /\ u[1] = s[1] /\ Len(t) \in Nat
        /\ \A i \in 1 .. n : u[i] = s[i]
    <3>1. IsJoin(u, s, t)
      BY <2>1, JoinIs
    <3> QED
      BY <1>1, <3>1 DEF IsJoin
  <2>3. PICK from : IsFields(from, u) /\ Fields(u) = from[1]
    BY FieldsFound
  <2>4. PICK to : IsFields(to, t) /\ Fields(t) = to[1]
    BY FieldsFound
  <2>5. from[n + 1] = to[1]
    BY <1>1, <2>1, <2>3, <2>4, FieldsMove
  <2>6. Payload(u, 1) = <<a, n>>
    BY <1>1, <2>1 DEF EndsItself
  <2>7. Payload(u, 1)[1] = a /\ Payload(u, 1)[2] = n
    BY <2>6
  <2>8. SubSeq(u, a, n) = SubSeq(s, a, n)
    <3>1. \A i \in a .. n : i \in 1 .. n /\ u[i] = s[i] /\ u[i] \in Nat
      <4>1. SUFFICES ASSUME NEW i \in a .. n PROVE i \in 1 .. n /\ u[i] = s[i] /\ s[i] \in Nat
        OBVIOUS
      <4>2. i \in 1 .. n
        OBVIOUS
      <4>3. s[i] \in Nat
        BY <1>1, <4>2
      <4> QED
        BY <2>2, <4>2, <4>3
    <3>2. PICK x, y : x = SubSeq(u, a, n) /\ y = SubSeq(s, a, n)
      OBVIOUS
    <3>3. /\ x \in Seq(Nat)
          /\ Len(x) = IF a <= n THEN (n - a) + 1 ELSE 0
          /\ \A i \in 1 .. (n - a) + 1 : x[i] = u[(a + i) - 1]
      <4>1. \A i \in a .. n : u[i] \in Nat
        BY <3>1
      <4> QED
        BY <3>2, <4>1, PartOf
    <3>4. /\ y \in Seq(Nat)
          /\ Len(y) = IF a <= n THEN (n - a) + 1 ELSE 0
          /\ \A i \in 1 .. (n - a) + 1 : y[i] = s[(a + i) - 1]
      <4>1. \A i \in a .. n : s[i] \in Nat
        BY <3>1
      <4> QED
        BY <3>2, <4>1, PartOf
    <3>5. ASSUME NEW i \in 1 .. Len(x) PROVE x[i] = y[i]
      <4>1. a <= n /\ i \in 1 .. (n - a) + 1 /\ i \in Nat
        BY <3>3
      <4>2. (a + i) - 1 \in a .. n
        BY <4>1
      <4> QED
        BY <3>1, <3>3, <3>4, <4>1, <4>2
    <3> QED
      BY <3>2, <3>3, <3>4, <3>5, SeqEqual
  <2>9. from[1] = [from[n + 1] EXCEPT !.fields = <<f>> \o @]
    <3>1. from[1] = FieldsAt(from, u, 1)
      <4>1. 1 \in 1 .. Len(u) + 1
        BY <1>1, <2>2
      <4> QED
        BY <2>3, <4>1 DEF IsFields
    <3>2. 1 # Len(u) + 1 /\ u[1] # 0
      BY <1>3, <2>2
    <3>3. Readable(u, 1)
      BY <2>2, <2>7 DEF Readable
    <3> QED
      BY <1>2, <2>2, <2>7, <2>8, <3>1, <3>2, <3>3 DEF FieldsAt
  <2>10. PICK all \in FieldsType : all = Fields(t)
    BY FieldsHaveType
  <2> QED
    BY <2>1, <2>3, <2>4, <2>5, <2>9, <2>10 DEF FieldsType
<1>6. <<f>> \in Seq(FieldSet)
  BY <1>4
<1> QED
  BY <1>1, <1>2, <1>5, <1>6 DEF Encodes, OneField

SubSeqIs(s, a, e, x) == SubSeq(s, a, e) = x

LEMMA SubSeqBehind ==
    ASSUME NEW h \in Seq(Nat), NEW x \in Seq(Nat)
    PROVE  SubSeqIs(h \o x, Len(h) + 1, Len(h) + Len(x), x)
<1>1. PICK l \in Nat : l = Len(x)
  OBVIOUS
<1>2. SubSeq(h \o x, Len(h) + 1, Len(h) + l) = SubSeq(x, 1, l)
  BY <1>1, SubSeqMoves
<1>3. SubSeq(x, 1, l) = x
  BY <1>1, SubSeqFull
<1> QED
  BY <1>1, <1>2, <1>3 DEF SubSeqIs

LEMMA LargerSet == ASSUME NEW S, NEW T, S \subseteq T, NEW x \in Seq(S) PROVE x \in Seq(T)
OBVIOUS

LEMMA BytesAreNumbers == ASSUME NEW x \in ByteStrings PROVE x \in Seq(Nat)
<1>1. PICK S : S = 0 .. 255
  OBVIOUS
<1>2. S \subseteq Nat /\ x \in Seq(S)
  BY <1>1 DEF ByteStrings
<1> QED
  BY <1>2, LargerSet

LEMMA TagIs ==
    ASSUME NEW field \in Nat \ {0}, NEW wire \in 0 .. 7
    PROVE  /\ Tag(field, wire) \in Nat
           /\ Tag(field, wire) \div 8 # 0
           /\ Tag(field, wire) % 8 = wire
BY DEF Tag

\* A tag, the length of a string and the string.
LEMMA DelimitedEncodes ==
    ASSUME NEW field \in Nat \ {0}, NEW x \in Seq(Nat)
    PROVE  Encodes(<<Tag(field, Delimited), Len(x)>> \o x,
                   <<[tag |-> Tag(field, Delimited), bytes |-> x]>>)
<1>1. PICK tag, l \in Nat : /\ tag = Tag(field, Delimited) /\ l = Len(x)
                            /\ tag \div 8 # 0 /\ tag % 8 = Delimited
  <2>1. Delimited \in 0 .. 7 /\ Len(x) \in Nat
    BY DEF Delimited
  <2> QED
    BY <2>1, TagIs
<1>2. PICK h : h = <<tag, l>>
  OBVIOUS
<1>3. h \in Seq(Nat) /\ Len(h) = 2 /\ h[1] = tag /\ h[2] = l
  BY <1>2
<1>4. PICK s \in Seq(Nat) : s = h \o x
  BY <1>3, ConcatProperties
<1>5. Len(s) = 2 + l /\ s[1] = tag /\ s[2] = l
  <2>1. IsJoin(s, h, x)
    BY <1>3, <1>4, JoinIs
  <2> QED
    BY <1>1, <1>3, <2>1 DEF IsJoin
<1>6. ASSUME NEW t \in Seq(Nat) PROVE Payload(s \o t, 1) = <<3, Len(s)>>
  <2>1. PICK u : u = s \o t
    OBVIOUS
  <2>2. Len(u) = (2 + l) + Len(t) /\ u[1] = tag /\ u[2] = l
    <3>1. IsJoin(u, s, t)
      BY <2>1, JoinIs
    <3> QED
      BY <1>5, <3>1 DEF IsJoin
  <2>3. 1 < Len(u)
    BY <2>2
  <2>4. Payload(u, 1) = <<1 + 2, 1 + 1 + u[1 + 1]>>
    <3>1. PICK w : w = u[1] % 8
      OBVIOUS
    <3>2. w = Delimited
      BY <1>1, <2>2, <3>1
    <3>3. w = Delimited /\ 1 < Len(u) => Payload(u, 1) = <<1 + 2, 1 + 1 + u[1 + 1]>>
      BY <3>1, PayloadIs
    <3> QED
      BY <2>3, <3>2, <3>3
  <2>5. <<1 + 2, 1 + 1 + u[1 + 1]>> = <<3, Len(s)>>
    BY <1>5, <2>2
  <2> QED
    BY <2>1, <2>4, <2>5
<1>7. SubSeq(s, 3, Len(s)) = x
  <2>1. SubSeqIs(s, Len(h) + 1, Len(h) + Len(x), x)
    BY <1>3, <1>4, SubSeqBehind
  <2>2. SubSeqIs(s, 3, 2 + l, x)
    BY <1>1, <1>3, <2>1
  <2> QED
    BY <1>5, <2>2 DEF SubSeqIs
<1>8. EndsItself(s, 3)
  BY <1>1, <1>5, <1>6 DEF EndsItself
<1>9. Encodes(s, OneField(s, 3))
  BY <1>8, EncodesField
<1> QED
  BY <1>1, <1>2, <1>4, <1>5, <1>7, <1>9 DEF OneField

LEMMA StringEncodes ==
    ASSUME NEW field \in Nat \ {0}, NEW x \in ByteStrings
    PROVE  Encodes(PutString(field, x), <<[tag |-> Tag(field, Delimited), bytes |-> x]>>)
BY BytesAreNumbers, DelimitedEncodes DEF PutString

LEMMA MessageEncodes ==
    ASSUME NEW field \in Nat \ {0}, NEW x \in Seq(Nat), NEW size, size = Len(x)
    PROVE  Encodes(PutMessage(field, size, x), <<[tag |-> Tag(field, Delimited), bytes |-> x]>>)
BY DelimitedEncodes DEF PutMessage

\* A tag and a varint of one byte.
LEMMA VarintEncodes ==
    ASSUME NEW field \in Nat \ {0}, NEW n \in Nat
    PROVE  Encodes(<<Tag(field, Varint), n>>, <<[tag |-> Tag(field, Varint), bytes |-> <<n>>]>>)
<1>1. PICK tag \in Nat : tag = Tag(field, Varint) /\ tag \div 8 # 0 /\ tag % 8 = Varint
  BY TagIs DEF Varint
<1>2. PICK s \in Seq(Nat) : s = <<tag, n>> /\ Len(s) = 2 /\ s[1] = tag /\ s[2] = n
  <2>1. <<tag, n>> \in Seq(Nat)
    OBVIOUS
  <2> QED
    BY <2>1
<1>3. ASSUME NEW t \in Seq(Nat) PROVE Payload(s \o t, 1) = <<2, Len(s)>>
  <2>1. PICK u : u = s \o t
    OBVIOUS
  <2>2. u[1] = tag
    BY <1>2, <2>1
  <2>3. Payload(u, 1) = <<1 + 1, 1 + 1>>
    BY <1>1, <2>2, PayloadIs
  <2> QED
    BY <1>2, <2>1, <2>3
<1>4. SubSeq(s, 2, Len(s)) = <<n>>
  <2>1. PICK h, x \in Seq(Nat) : /\ h = <<tag>> /\ x = <<n>> /\ s = h \o x
                                 /\ Len(h) = 1 /\ Len(x) = 1
    <3>1. /\ <<tag>> \in Seq(Nat) /\ <<n>> \in Seq(Nat) /\ <<tag, n>> = <<tag>> \o <<n>>
          /\ Len(<<tag>>) = 1 /\ Len(<<n>>) = 1
      OBVIOUS
    <3> QED
      BY <1>2, <3>1
  <2>2. SubSeqIs(s, Len(h) + 1, Len(h) + Len(x), x)
    BY <2>1, SubSeqBehind
  <2>3. SubSeqIs(s, 2, 2, x)
    BY <2>1, <2>2
  <2> QED
    BY <1>2, <2>1, <2>3 DEF SubSeqIs
<1>5. EndsItself(s, 2)
  BY <1>1, <1>2, <1>3 DEF EndsItself
<1>6. Encodes(s, OneField(s, 2))
  BY <1>5, EncodesField
<1> QED
  BY <1>1, <1>2, <1>4, <1>6 DEF OneField

LEMMA BoolEncodes ==
    ASSUME NEW field \in Nat \ {0}, NEW b \in BOOLEAN
    PROVE  Encodes(PutBool(field, b),
                   <<[tag |-> Tag(field, Varint), bytes |-> <<IF b THEN 1 ELSE 0>>]>>)
BY VarintEncodes DEF PutBool

LEMMA FixedBytesAre ==
    ASSUME NEW n \in Int
    PROVE  FixedBytes(n) \in Seq(Nat) /\ Len(FixedBytes(n)) = Width
<1>1. Width \in Nat
  BY WidthAssumption
<1>2. ASSUME NEW i \in 1 .. Width PROVE Shifted(n)[i - 1] % 256 \in Nat
  <2>1. Shifted(n)[i - 1] \in Int
    BY <1>1, ShiftedSteps
  <2> QED
    BY <2>1
<1>3. FixedBytes(n) \in [1 .. Width -> Nat]
  BY <1>2 DEF FixedBytes
<1> QED
  BY <1>1, <1>3

LEMMA FixedEncodes ==
    ASSUME NEW field \in Nat \ {0}, NEW n \in Int
    PROVE  Encodes(PutFixed(field, n),
                   <<[tag |-> Tag(field, Fixed64), bytes |-> FixedBytes(n)]>>)
<1>1. PICK tag \in Nat : tag = Tag(field, Fixed64) /\ tag \div 8 # 0 /\ tag % 8 = Fixed64
  BY TagIs DEF Fixed64
<1>2. PICK x \in Seq(Nat), l \in Nat : x = FixedBytes(n) /\ Len(x) = l /\ l = Width
  BY FixedBytesAre
<1>3. PICK h : h = <<tag>>
  OBVIOUS
<1>4. h \in Seq(Nat) /\ Len(h) = 1 /\ h[1] = tag
  BY <1>3
<1>5. PICK s \in Seq(Nat) : s = h \o x
  BY <1>4, ConcatProperties
<1>6. Len(s) = 1 + l /\ s[1] = tag
  <2>1. IsJoin(s, h, x)
    BY <1>4, <1>5, JoinIs
  <2> QED
    BY <1>2, <1>4, <2>1 DEF IsJoin
<1>7. ASSUME NEW t \in Seq(Nat) PROVE Payload(s \o t, 1) = <<2, Len(s)>>
  <2>1. PICK u : u = s \o t
    OBVIOUS
  <2>2. u[1] = tag
    BY <1>6, <2>1
  <2>3. Payload(u, 1) = <<1 + 1, 1 + Width>>
    BY <1>1, <2>2, PayloadIs
  <2>4. <<1 + 1, 1 + l>> = <<2, 1 + l>>
    OBVIOUS
  <2> QED
    BY <1>2, <1>6, <2>1, <2>3, <2>4
<1>8. SubSeq(s, 2, Len(s)) = x
  <2>1. SubSeqIs(s, Len(h) + 1, Len(h) + Len(x), x)
    BY <1>4, <1>5, SubSeqBehind
  <2>2. SubSeqIs(s, 2, 1 + l, x)
    BY <1>2, <1>4, <2>1
  <2> QED
    BY <1>6, <2>2 DEF SubSeqIs
<1>9. EndsItself(s, 2)
  BY <1>1, <1>6, <1>7 DEF EndsItself
<1>10. Encodes(s, OneField(s, 2))
  BY <1>9, EncodesField
<1> QED
  BY <1>1, <1>2, <1>3, <1>5, <1>6, <1>8, <1>10 DEF PutFixed, OneField

-----------------------------------------------------------------------------
(* Reading, of the classes told apart by their names.                      *)

\* The loop of MergePartialFromCodedStream of class k takes r to q when it reads s, and
\* is not done then.
Takes(k, s, r, q) == \E fs : Encodes(s, fs) /\ Folds(k, r, fs, q)

LEMMA TakesBytes == ASSUME NEW k, NEW s, NEW r, NEW q, Takes(k, s, r, q) PROVE s \in Seq(Nat)
BY DEF Takes, Encodes

LEMMA TakesNothing == ASSUME NEW k, NEW r PROVE Takes(k, <<>>, r, r)
<1>1. PICK s, fs : s = <<>> /\ fs = <<>>
  OBVIOUS
<1>2. Encodes(s, fs) /\ Folds(k, r, fs, r)
  BY <1>1, EncodesNothing, FoldsNothing
<1> QED
  BY <1>1, <1>2 DEF Takes

LEMMA TakesJoin ==
    ASSUME NEW k, NEW s, NEW t, NEW r1, NEW r2, NEW r3, Takes(k, s, r1, r2), Takes(k, t, r2, r3)
    PROVE  Takes(k, s \o t, r1, r3)
<1>1. PICK fs : Encodes(s, fs) /\ Folds(k, r1, fs, r2)
  BY DEF Takes
<1>2. PICK gs : Encodes(t, gs) /\ Folds(k, r2, gs, r3)
  BY DEF Takes
<1>3. PICK S : S = FieldSet
  OBVIOUS
<1>4. fs \in Seq(S) /\ gs \in Seq(S)
  BY <1>1, <1>2, <1>3 DEF Encodes
<1>5. Folds(k, r1, fs \o gs, r3)
  BY <1>1, <1>2, <1>4, FoldsJoin
<1>6. Encodes(s \o t, fs \o gs)
  BY <1>1, <1>2, EncodesJoin
<1> QED
  BY <1>5, <1>6 DEF Takes

LEMMA TakesField ==
    ASSUME NEW k, NEW s, NEW f, NEW r, NEW q, Encodes(s, <<f>>), FoldStep(k, r, f) = q
    PROVE  Takes(k, s, r, q)
<1>1. Folds(k, r, <<f>>, q)
  BY FoldsOne
<1> QED
  BY <1>1 DEF Takes

\* A field that is written if it has something to say.
LEMMA TakesIf ==
    ASSUME NEW k, NEW condition, NEW s, NEW r, NEW q,
           condition => Takes(k, s, r, q), ~ condition => r = q
    PROVE  Takes(k, If(condition, s), r, q)
<1>1. CASE condition
  BY <1>1 DEF If
<1>2. CASE ~ condition
  BY <1>2, TakesNothing DEF If
<1> QED
  BY <1>1, <1>2

\* What class k reads of s into r.
Reading(k, r, s) ==
    [LeftFold(k, r, Fields(s).fields) EXCEPT !.ok = @ /\ Fields(s).end = "limit"]

LEMMA ReadersAre ==
    ASSUME NEW m, NEW s
    PROVE  /\ ReadValue(m, s) = Reading("Value", Read(m), s)
           /\ ReadArgument(m, s) = Reading("Argument", Read(m), s)
           /\ ReadMethodCallRequest(m, s) = Reading("MethodCallRequest", Read(m), s)
           /\ ReadImportRequest(m, s) = Reading("ImportRequest", Read(m), s)
           /\ ReadConstructorRequest(m, s) = Reading("ConstructorRequest", Read(m), s)
<1>1. ReadValue(m, s) = Reading("Value", Read(m), s)
  BY DEF Reading, LeftFold, FoldStep, FoldLeft, MapThenFoldSet, ReadValue, MergeFields
<1>2. ReadArgument(m, s) = Reading("Argument", Read(m), s)
  BY DEF Reading, LeftFold, FoldStep, FoldLeft, MapThenFoldSet, ReadArgument, MergeFields
<1>3. ReadMethodCallRequest(m, s) = Reading("MethodCallRequest", Read(m), s)
  BY DEF Reading, LeftFold, FoldStep, FoldLeft, MapThenFoldSet, ReadMethodCallRequest,
         MergeFields
<1>4. ReadImportRequest(m, s) = Reading("ImportRequest", Read(m), s)
  BY DEF Reading, LeftFold, FoldStep, FoldLeft, MapThenFoldSet, ReadImportRequest, MergeFields
<1>5. ReadConstructorRequest(m, s) = Reading("ConstructorRequest", Read(m), s)
  BY DEF Reading, LeftFold, FoldStep, FoldLeft, MapThenFoldSet, ReadConstructorRequest,
         MergeFields
<1> QED
  BY <1>1, <1>2, <1>3, <1>4, <1>5

LEMMA ParsersAre ==
    ASSUME NEW s
    PROVE  /\ ParseRequest(s) = Reading("Request", Read(EmptyRequest), s)
           /\ ParseChannelResponse(s) =
                Reading("ChannelResponse", Read(EmptyChannelResponse), s)
<1>1. ParseRequest(s) = Reading("Request", Read(EmptyRequest), s)
  BY DEF Reading, LeftFold, FoldStep, FoldLeft, MapThenFoldSet, ParseRequest, MergeFields
<1>2. ParseChannelResponse(s) = Reading("ChannelResponse", Read(EmptyChannelResponse), s)
  BY DEF Reading, LeftFold, FoldStep, FoldLeft, MapThenFoldSet, ParseChannelResponse,
         MergeFields
<1> QED
  BY <1>1, <1>2

LEMMA TakesReads ==
    ASSUME NEW k, NEW s, NEW r, NEW m, Takes(k, s, r, Read(m))
    PROVE  Reading(k, r, s) = Read(m)
<1>1. PICK fs : Encodes(s, fs) /\ Folds(k, r, fs, Read(m))
  BY DEF Takes
<1>2. Fields(s).fields = fs /\ Fields(s).end = "limit"
  BY <1>1, EncodesFields
<1>3. PICK n \in Nat : n = Len(fs) /\ DOMAIN fs = 1 .. n
  <2>1. fs \in Seq(FieldSet)
    BY <1>1 DEF Encodes
  <2> QED
    BY <2>1
<1>4. Folds(k, r, fs, LeftFold(k, r, fs))
  BY <1>3, LeftFolds
<1>5. LeftFold(k, r, fs) = Read(m)
  BY <1>1, <1>3, <1>4, FoldsUnique
<1>6. Reading(k, r, s) = [Read(m) EXCEPT !.ok = @ /\ TRUE]
  BY <1>2, <1>5 DEF Reading
<1> QED
  BY <1>6 DEF Read

LEMMA StepIs ==
    ASSUME NEW m, NEW f
    PROVE  /\ FoldStep("Value", Read(m), f) = ValueField(m, f)
           /\ FoldStep("Argument", Read(m), f) = ArgumentField(m, f)
           /\ FoldStep("MethodCallRequest", Read(m), f) = MethodCallRequestField(m, f)
           /\ FoldStep("ImportRequest", Read(m), f) = ImportRequestField(m, f)
           /\ FoldStep("ConstructorRequest", Read(m), f) = ConstructorRequestField(m, f)
           /\ FoldStep("Request", Read(m), f) = RequestField(m, f)
           /\ FoldStep("ChannelResponse", Read(m), f) = ChannelResponseField(m, f)
<1>1. PICK r : r = Read(m)
  OBVIOUS
<1>2. r.ok = TRUE /\ r.message = m
  BY <1>1 DEF Read
<1> QED
  BY <1>1, <1>2 DEF FoldStep

LEMMA TagsDiffer ==
    /\ Tag(1, Varint) = 8 /\ Tag(4, Varint) = 32 /\ Tag(5, Varint) = 40 /\ Tag(6, Varint) = 48
    /\ Tag(3, Fixed64) = 25 /\ Tag(5, Fixed64) = 41
    /\ Tag(1, Delimited) = 10 /\ Tag(2, Delimited) = 18 /\ Tag(3, Delimited) = 26
    /\ Tag(4, Delimited) = 34 /\ Tag(7, Delimited) = 58 /\ Tag(8, Delimited) = 66
BY DEF Tag, Varint, Fixed64, Delimited

-----------------------------------------------------------------------------
(* Reading what was written of a value and of an argument.                 *)

LEMMA SettersGive ==
    ASSUME NEW v, NEW x
    PROVE  /\ set_string_value(v, x) = [case |-> "string", string |-> x, int |-> 0, uint |-> 0]
           /\ set_int_value(v, x) = [case |-> "int", string |-> <<>>, int |-> x, uint |-> 0]
           /\ set_uint_value(v, x) = [case |-> "uint", string |-> <<>>, int |-> 0, uint |-> x]
<1>1. PICK e : e = EmptyValue
  OBVIOUS
<1>2. e = [case |-> "none", string |-> <<>>, int |-> 0, uint |-> 0]
  BY <1>1 DEF EmptyValue
<1>3. /\ set_string_value(v, x) = [e EXCEPT !.case = "string", !.string = x]
      /\ set_int_value(v, x) = [e EXCEPT !.case = "int", !.int = x]
      /\ set_uint_value(v, x) = [e EXCEPT !.case = "uint", !.uint = x]
  BY <1>1 DEF set_string_value, set_int_value, set_uint_value
<1> QED
  BY <1>2, <1>3

LEMMA ValueTakes ==
    ASSUME NEW v, NEW w \in ValueMessages
    PROVE  Takes("Value", ValueBytes(w), Read(v), Read(MergeValue(v, w)))
<1>1. PICK a, b, c :
         /\ a = If(has_string_value(w), PutString(2, w.string))
         /\ b = If(has_int_value(w), PutFixed(3, w.int))
         /\ c = If(has_uint_value(w), PutFixed(5, w.uint))
  OBVIOUS
<1>2. ValueBytes(w) = a \o b \o c
  BY <1>1 DEF ValueBytes
<1>3. PICK r, q : r = Read(v) /\ q = Read(MergeValue(v, w))
  OBVIOUS
<1>4. /\ w.string \in ByteStrings /\ w.int \in Int64s /\ w.uint \in Uint64s
      /\ w.int \in Int /\ w.uint \in Int
      /\ w.case \in {"none", "string", "int", "uint"}
  BY DEF ValueMessages, Int64s, Uint64s
<1>5. w = [case |-> w.case, string |-> w.string, int |-> w.int, uint |-> w.uint]
  BY DEF ValueMessages
<1>10. /\ w.case # "string" => w.string = <<>>
       /\ w.case # "int" => w.int = 0
       /\ w.case # "uint" => w.uint = 0
  BY DEF ValueMessages
<1>6. PICK q1, q2 : /\ q1 = IF w.case = "string" THEN q ELSE r
                    /\ q2 = IF w.case \in {"string", "int"} THEN q ELSE r
  OBVIOUS
<1>7. Takes("Value", a, r, q1)
  <2>1. ASSUME has_string_value(w) PROVE Takes("Value", PutString(2, w.string), r, q1)
    <3>1. PICK f : f = [tag |-> Tag(2, Delimited), bytes |-> w.string]
      OBVIOUS
    <3>2. ValueField(v, f) = Read(set_string_value(v, w.string))
      BY <3>1, TagsDiffer DEF ValueField
    <3>3. set_string_value(v, w.string) = w
      <4>1. set_string_value(v, w.string)
              = [case |-> "string", string |-> w.string, int |-> 0, uint |-> 0]
        BY SettersGive
      <4>2. w = [case |-> "string", string |-> w.string, int |-> 0, uint |-> 0]
        BY <1>5, <1>10, <2>1 DEF has_string_value
      <4> QED
        BY <4>1, <4>2
    <3>4. q1 = Read(w)
      BY <1>3, <1>6, <2>1 DEF has_string_value, MergeValue
    <3>5. FoldStep("Value", r, f) = q1
      BY <1>3, <3>2, <3>3, <3>4, StepIs
    <3>6. Encodes(PutString(2, w.string), <<f>>)
      BY <1>4, <3>1, StringEncodes
    <3> QED
      BY <3>5, <3>6, TakesField
  <2>2. ~ has_string_value(w) => r = q1
    BY <1>6 DEF has_string_value
  <2> QED
    BY <1>1, <2>1, <2>2, TakesIf
<1>8. Takes("Value", b, q1, q2)
  <2>1. ASSUME has_int_value(w) PROVE Takes("Value", PutFixed(3, w.int), q1, q2)
    <3>1. PICK f : f = [tag |-> Tag(3, Fixed64), bytes |-> FixedBytes(w.int)]
      OBVIOUS
    <3>2. ValueField(v, f) = Read(set_int_value(v, w.int))
      <4>1. Signed(FixedBytes(w.int)) = w.int
        BY <1>4, FixedReads
      <4> QED
        BY <3>1, <4>1, TagsDiffer DEF ValueField
    <3>3. set_int_value(v, w.int) = w
      <4>1. set_int_value(v, w.int)
              = [case |-> "int", string |-> <<>>, int |-> w.int, uint |-> 0]
        BY SettersGive
      <4>2. w = [case |-> "int", string |-> <<>>, int |-> w.int, uint |-> 0]
        BY <1>5, <1>10, <2>1 DEF has_int_value
      <4> QED
        BY <4>1, <4>2
    <3>4. q1 = r /\ q2 = Read(w)
      BY <1>3, <1>6, <2>1 DEF has_int_value, MergeValue
    <3>5. FoldStep("Value", q1, f) = q2
      BY <1>3, <3>2, <3>3, <3>4, StepIs
    <3>6. Encodes(PutFixed(3, w.int), <<f>>)
      BY <1>4, <3>1, FixedEncodes
    <3> QED
      BY <3>5, <3>6, TakesField
  <2>2. ~ has_int_value(w) => q1 = q2
    BY <1>6 DEF has_int_value
  <2> QED
    BY <1>1, <2>1, <2>2, TakesIf
<1>9. Takes("Value", c, q2, q)
  <2>1. ASSUME has_uint_value(w) PROVE Takes("Value", PutFixed(5, w.uint), q2, q)
    <3>1. PICK f : f = [tag |-> Tag(5, Fixed64), bytes |-> FixedBytes(w.uint)]
      OBVIOUS
    <3>2. ValueField(v, f) = Read(set_uint_value(v, w.uint))
      <4>1. Unsigned(FixedBytes(w.uint)) = w.uint
        BY <1>4, FixedReads
      <4> QED
        BY <3>1, <4>1, TagsDiffer DEF ValueField
    <3>3. set_uint_value(v, w.uint) = w
      <4>1. set_uint_value(v, w.uint)
              = [case |-> "uint", string |-> <<>>, int |-> 0, uint |-> w.uint]
        BY SettersGive
      <4>2. w = [case |-> "uint", string |-> <<>>, int |-> 0, uint |-> w.uint]
        BY <1>5, <1>10, <2>1 DEF has_uint_value
      <4> QED
        BY <4>1, <4>2
    <3>4. q2 = r /\ q = Read(w)
      BY <1>3, <1>6, <2>1 DEF has_uint_value, MergeValue
    <3>5. FoldStep("Value", q2, f) = q
      BY <1>3, <3>2, <3>3, <3>4, StepIs
    <3>6. Encodes(PutFixed(5, w.uint), <<f>>)
      BY <1>4, <3>1, FixedEncodes
    <3> QED
      BY <3>5, <3>6, TakesField
  <2>2. ~ has_uint_value(w) => q2 = q
    BY <1>3, <1>4, <1>6 DEF has_uint_value, MergeValue
  <2> QED
    BY <1>1, <2>1, <2>2, TakesIf
<1> QED
  BY <1>2, <1>3, <1>7, <1>8, <1>9, TakesJoin

LEMMA ReadValueBytes ==
    ASSUME NEW v, NEW w \in ValueMessages
    PROVE  ReadValue(v, ValueBytes(w)) = Read(MergeValue(v, w))
BY ValueTakes, TakesReads, ReadersAre

-----------------------------------------------------------------------------
(* Sequences of bytes and their lengths.                                   *)

IsString(s) == \E S : s \in Seq(S)

LEMMA Joins ==
    ASSUME NEW s, NEW t, IsString(s), IsString(t)
    PROVE  IsString(s \o t) /\ Len(s \o t) = Len(s) + Len(t) /\ Len(s) \in Nat
<1>1. PICK S : s \in Seq(S)
  BY DEF IsString
<1>2. PICK T : t \in Seq(T)
  BY DEF IsString
<1>3. PICK U : U = S \cup T
  OBVIOUS
<1>4. s \in Seq(U) /\ t \in Seq(U)
  BY <1>1, <1>2, <1>3
<1>5. s \o t \in Seq(U) /\ Len(s \o t) = Len(s) + Len(t)
  BY <1>4
<1> QED
  BY <1>4, <1>5 DEF IsString

\* s is a string of n bytes.
Holds(s, n) == IsString(s) /\ n \in Nat /\ Len(s) = n

LEMMA HoldsJoin ==
    ASSUME NEW s, NEW t, NEW m, NEW n, Holds(s, m), Holds(t, n)
    PROVE  Holds(s \o t, m + n)
BY Joins DEF Holds

LEMMA NoBytes == Holds(<<>>, 0)
<1>1. <<>> \in Seq({})
  OBVIOUS
<1> QED
  BY <1>1 DEF Holds, IsString

LEMMA TwoBytes == ASSUME NEW x, NEW y PROVE Holds(<<x, y>>, 2)
<1>1. <<x, y>> \in Seq({x, y}) /\ Len(<<x, y>>) = 2
  OBVIOUS
<1> QED
  BY <1>1 DEF Holds, IsString

LEMMA ByteStringHolds == ASSUME NEW s \in ByteStrings PROVE Holds(s, Len(s))
BY DEF ByteStrings, Holds, IsString

LEMMA StringHolds ==
    ASSUME NEW field, NEW s \in ByteStrings
    PROVE  Holds(PutString(field, s), 1 + StringSize(s)) /\ StringSize(s) \in Nat
<1>1. Holds(<<Tag(field, Delimited), Len(s)>> \o s, 2 + Len(s)) /\ Len(s) \in Nat
  <2>1. PICK h : h = <<Tag(field, Delimited), Len(s)>>
    OBVIOUS
  <2>2. Holds(h, 2)
    BY <2>1, TwoBytes
  <2>3. Holds(s, Len(s)) /\ Len(s) \in Nat
    BY ByteStringHolds DEF Holds
  <2>4. Holds(h \o s, 2 + Len(s))
    BY <2>2, <2>3, HoldsJoin
  <2> QED
    BY <2>1, <2>3, <2>4
<1> QED
  BY <1>1 DEF PutString, StringSize

LEMMA MessageHolds ==
    ASSUME NEW field, NEW size, NEW s, Holds(s, size)
    PROVE  Holds(PutMessage(field, size, s), 1 + MessageSize(size))
<1>1. Holds(<<Tag(field, Delimited), size>> \o s, 2 + size) /\ size \in Nat
  <2>1. PICK h : h = <<Tag(field, Delimited), size>>
    OBVIOUS
  <2>2. Holds(h, 2)
    BY <2>1, TwoBytes
  <2>3. Holds(h \o s, 2 + size)
    BY <2>2, HoldsJoin
  <2> QED
    BY <2>1, <2>3 DEF Holds
<1>2. 2 + size = 1 + MessageSize(size)
  BY <1>1 DEF MessageSize
<1> QED
  BY <1>1, <1>2 DEF PutMessage

LEMMA FunctionHolds ==
    ASSUME NEW n \in Nat, NEW f, f = [i \in 1 .. n |-> f[i]]
    PROVE  f \in Seq({f[i] : i \in 1 .. n}) /\ Len(f) = n
OBVIOUS

LEMMA FixedHolds == ASSUME NEW field, NEW n PROVE Holds(PutFixed(field, n), 1 + Width)
<1>1. Width \in Nat
  BY WidthAssumption
<1>2. PICK f : f = FixedBytes(n)
  OBVIOUS
<1>3. f \in Seq({f[i] : i \in 1 .. Width}) /\ Len(f) = Width
  <2>1. DOMAIN f = 1 .. Width /\ f = [i \in 1 .. Width |-> f[i]]
    BY <1>2 DEF FixedBytes
  <2> QED
    BY <1>1, <2>1, FunctionHolds
<1>4. Holds(f, Width)
  BY <1>1, <1>3 DEF Holds, IsString
<1>5. Holds(<<Tag(field, Fixed64)>>, 1)
  <2>1. <<Tag(field, Fixed64)>> \in Seq({Tag(field, Fixed64)})
    OBVIOUS
  <2> QED
    BY <2>1 DEF Holds, IsString
<1> QED
  BY <1>2, <1>4, <1>5, HoldsJoin DEF PutFixed

LEMMA BoolHolds == ASSUME NEW field, NEW b PROVE Holds(PutBool(field, b), 2)
BY TwoBytes DEF PutBool

\* A field that is written under the condition under which it is measured.
LEMMA FieldHolds ==
    ASSUME NEW condition, NEW s, NEW n, condition => Holds(s, n)
    PROVE  Holds(If(condition, s), IF condition THEN n ELSE 0)
BY NoBytes DEF If

-----------------------------------------------------------------------------
(* The sizes of the messages.                                              *)

LEMMA ValueHolds ==
    ASSUME NEW v \in ValueMessages
    PROVE  Holds(ValueBytes(v), ValueSize(v))
<1>1. Holds(PutString(2, v.string), 1 + StringSize(v.string))
  BY StringHolds DEF ValueMessages
<1>2. PICK a, b, c :
         /\ a = If(has_string_value(v), PutString(2, v.string))
         /\ b = If(has_int_value(v), PutFixed(3, v.int))
         /\ c = If(has_uint_value(v), PutFixed(5, v.uint))
  OBVIOUS
<1>3. /\ Holds(a, IF v.case = "string" THEN 1 + StringSize(v.string) ELSE 0)
      /\ Holds(b, IF v.case = "int" THEN 1 + Width ELSE 0)
      /\ Holds(c, IF v.case = "uint" THEN 1 + Width ELSE 0)
  BY <1>1, <1>2, FixedHolds, FieldHolds
     DEF has_string_value, has_int_value, has_uint_value
<1>4. PICK l, m, n :
         /\ l = IF v.case = "string" THEN 1 + StringSize(v.string) ELSE 0
         /\ m = IF v.case = "int" THEN 1 + Width ELSE 0
         /\ n = IF v.case = "uint" THEN 1 + Width ELSE 0
  OBVIOUS
<1>5. Holds(a \o b \o c, l + m + n)
  BY <1>3, <1>4, HoldsJoin
<1>6. l + m + n = ValueSize(v)
  BY <1>3, <1>4 DEF ValueSize, Holds
<1> QED
  BY <1>2, <1>5, <1>6 DEF ValueBytes

LEMMA ArgumentHolds ==
    ASSUME NEW a \in ArgumentMessages
    PROVE  Holds(ArgumentBytes(a), ArgumentSize(a))
<1>1. PICK p, q, r :
         /\ p = If(a.type # 0, PutEnum(1, a.type))
         /\ q = If(a.has_value, PutMessage(3, ValueSize(a.value), ValueBytes(a.value)))
         /\ r = If(a.key # <<>>, PutString(4, a.key))
  OBVIOUS
<1>2. PICK l, m, n :
         /\ l = IF a.type # 0 THEN 2 ELSE 0
         /\ m = IF a.has_value THEN 1 + MessageSize(ValueSize(a.value)) ELSE 0
         /\ n = IF a.key # <<>> THEN 1 + StringSize(a.key) ELSE 0
  OBVIOUS
<1>3. Holds(p, l)
  BY <1>1, <1>2, TwoBytes, FieldHolds DEF PutEnum
<1>4. Holds(q, m)
  <2>1. Holds(PutMessage(3, ValueSize(a.value), ValueBytes(a.value)),
              1 + MessageSize(ValueSize(a.value)))
    BY ValueHolds, MessageHolds DEF ArgumentMessages
  <2> QED
    BY <1>1, <1>2, <2>1, FieldHolds
<1>5. Holds(r, n)
  <2>1. Holds(PutString(4, a.key), 1 + StringSize(a.key))
    BY StringHolds DEF ArgumentMessages
  <2> QED
    BY <1>1, <1>2, <2>1, FieldHolds
<1>6. Holds(p \o q \o r, l + m + n)
  BY <1>3, <1>4, <1>5, HoldsJoin
<1>7. l + m + n = n + m + l
  BY <1>3, <1>4, <1>5 DEF Holds
<1> QED
  BY <1>1, <1>2, <1>6, <1>7 DEF ArgumentBytes, ArgumentSize

\* The arguments, which are written from the first on and measured from the last on:
\* what is written so far and the size of what is left add up to the same.
LEMMA ArgumentsHold ==
    ASSUME NEW field, NEW args \in Seq(ArgumentMessages)
    PROVE  Holds(ArgumentsBytes(field, args), ArgumentsSize(args))
<1>1. PICK n \in Nat : n = Len(args) /\ DOMAIN args = 1 .. n
  OBVIOUS
<1>2. PICK g : FoldsBack(g, "ArgumentSize", 0, args, n) /\ ArgumentsSize(args) = g[1]
  <2>1. ArgumentsSize(args) = RightFold("ArgumentSize", 0, args)
    BY DEF ArgumentsSize, RightFold, FoldStep, FoldRight, MapThenFoldSet
  <2> QED
    BY <1>1, <2>1, RightFolds
<1>3. PICK w : w = [i \in 1 .. n |-> 1 + MessageSize(ArgumentSize(args[i]))]
  OBVIOUS
<1>4. PICK q : q = [i \in 1 .. n |->
                      PutMessage(field, ArgumentSize(args[i]), ArgumentBytes(args[i]))]
  OBVIOUS
<1>5. ASSUME NEW i \in 1 .. n PROVE Holds(q[i], w[i]) /\ w[i] \in Nat
  <2>1. args[i] \in ArgumentMessages
    BY <1>1
  <2>2. Holds(PutMessage(field, ArgumentSize(args[i]), ArgumentBytes(args[i])),
              1 + MessageSize(ArgumentSize(args[i])))
    BY <2>1, ArgumentHolds, MessageHolds
  <2> QED
    BY <1>3, <1>4, <2>2 DEF Holds
<1>6. ASSUME NEW i \in 1 .. n PROVE g[i] = w[i] + g[i + 1]
  <2>1. g[i] = FoldStep("ArgumentSize", g[i + 1], args[i])
    BY <1>2 DEF FoldsBack
  <2>2. w[i] = 1 + MessageSize(ArgumentSize(args[i]))
    BY <1>3
  <2> QED
    BY <2>1, <2>2 DEF FoldStep
<1>7. \A i \in 1 .. n + 1 : g[i] \in Nat
  <2>1. PICK S : S = {k \in Nat : k <= n => g[(n + 1) - k] \in Nat}
    OBVIOUS
  <2>2. 0 \in S
    BY <1>2, <2>1 DEF FoldsBack
  <2>3. ASSUME NEW k \in Nat, k \in S PROVE k + 1 \in S
    <3>1. SUFFICES ASSUME k + 1 <= n PROVE g[(n + 1) - (k + 1)] \in Nat
      BY <2>1
    <3>2. PICK i \in 1 .. n : i = n - k
      BY <3>1
    <3>3. g[i] = w[i] + g[i + 1] /\ w[i] \in Nat
      BY <1>5, <1>6
    <3>4. i + 1 = (n + 1) - k /\ (n + 1) - (k + 1) = i /\ k <= n
      BY <3>1, <3>2
    <3>5. g[i + 1] \in Nat
      BY <2>1, <2>3, <3>4
    <3> QED
      BY <3>3, <3>4, <3>5
  <2>4. Nat \subseteq S
    BY <2>2, <2>3, SetInduction
  <2> TAKE i \in 1 .. n + 1
  <2>5. (n + 1) - i \in Nat /\ (n + 1) - i <= n /\ (n + 1) - ((n + 1) - i) = i
    OBVIOUS
  <2> QED
    BY <2>1, <2>4, <2>5
<1>8. ArgumentsBytes(field, args) = FlattenSeq(q) /\ Len(q) = n
  BY <1>1, <1>4 DEF ArgumentsBytes
<1>9. CASE n = 0
  <2>1. ArgumentsBytes(field, args) = q /\ q = <<>>
    BY <1>4, <1>8, <1>9 DEF FlattenSeq
  <2>2. ArgumentsSize(args) = 0
    BY <1>2, <1>9 DEF FoldsBack
  <2> QED
    BY <2>1, <2>2, NoBytes
<1>10. CASE n # 0
  <2>1. PICK f : JoinsFromFirst(f, q, n)
    BY <1>8, <1>10, FlattenJoins
  <2>2. PICK S : S = {k \in Nat : k \in 1 .. n =>
                        \E l \in Nat : Holds(f[k], l) /\ g[1] = l + g[k + 1]}
    OBVIOUS
  <2>3. 0 \in S
    BY <2>2
  <2>4. ASSUME NEW k \in Nat, k \in S PROVE k + 1 \in S
    <3>1. SUFFICES ASSUME k + 1 \in 1 .. n
                   PROVE  \E l \in Nat : Holds(f[k + 1], l) /\ g[1] = l + g[(k + 1) + 1]
      BY <2>2
    <3>2. PICK j \in 1 .. n : j = k + 1
      BY <3>1
    <3>3. g[j] = w[j] + g[j + 1] /\ Holds(q[j], w[j]) /\ w[j] \in Nat
      BY <1>5, <1>6
    <3>4. CASE k = 0
      <4>1. j = 1
        BY <3>2, <3>4
      <4>2. Holds(f[j], w[j]) /\ g[1] = w[j] + g[j + 1]
        BY <2>1, <3>3, <4>1 DEF JoinsFromFirst
      <4> QED
        BY <3>2, <3>3, <4>2
    <3>5. CASE k # 0
      <4>1. k \in 1 .. n
        BY <3>1, <3>5
      <4>2. PICK l \in Nat : Holds(f[k], l) /\ g[1] = l + g[j]
        BY <2>2, <2>4, <3>2, <4>1
      <4>3. f[j] = f[k] \o q[j]
        <5>1. j # 1 /\ j - 1 = k
          BY <3>2, <3>5
        <5> QED
          BY <2>1, <5>1 DEF JoinsFromFirst
      <4>4. Holds(f[j], l + w[j])
        BY <3>3, <4>2, <4>3, HoldsJoin
      <4>5. g[1] = (l + w[j]) + g[j + 1]
        <5>1. g[j + 1] \in Nat
          BY <1>7
        <5> QED
          BY <3>3, <4>2, <5>1
      <4> QED
        BY <3>2, <3>3, <4>4, <4>5
    <3> QED
      BY <3>4, <3>5
  <2>5. Nat \subseteq S
    BY <2>3, <2>4, SetInduction
  <2>6. PICK l \in Nat : Holds(f[n], l) /\ g[1] = l + g[n + 1]
    BY <1>10, <2>2, <2>5
  <2>7. g[1] = l
    BY <1>2, <2>6 DEF FoldsBack
  <2> QED
    BY <1>2, <1>8, <2>1, <2>6, <2>7 DEF JoinsFromFirst
<1> QED
  BY <1>9, <1>10

LEMMA MethodCallHolds ==
    ASSUME NEW m \in MethodCallMessages
    PROVE  Holds(MethodCallRequestBytes(m), MethodCallRequestSize(m))
<1>1. PICK a, b, c, d, e, f, g :
         /\ a = If(m.methodname # <<>>, PutString(1, m.methodname))
         /\ b = If(m.object_id # <<>>, PutString(2, m.object_id))
         /\ c = ArgumentsBytes(3, m.arg)
         /\ d = If(m.static, PutBool(4, TRUE))
         /\ e = If(m.do_get_return_value, PutBool(5, TRUE))
         /\ f = If(m.property, PutBool(6, TRUE))
         /\ g = If(m.type # <<>>, PutString(8, m.type))
  OBVIOUS
<1>2. PICK p, q, r, s, t, u, v :
         /\ p = IF m.methodname # <<>> THEN 1 + StringSize(m.methodname) ELSE 0
         /\ q = IF m.object_id # <<>> THEN 1 + StringSize(m.object_id) ELSE 0
         /\ r = ArgumentsSize(m.arg)
         /\ s = IF m.static THEN 2 ELSE 0
         /\ t = IF m.do_get_return_value THEN 2 ELSE 0
         /\ u = IF m.property THEN 2 ELSE 0
         /\ v = IF m.type # <<>> THEN 1 + StringSize(m.type) ELSE 0
  OBVIOUS
<1>3. Holds(a, p) /\ Holds(b, q) /\ Holds(g, v)
  <2>1. /\ Holds(PutString(1, m.methodname), 1 + StringSize(m.methodname))
        /\ Holds(PutString(2, m.object_id), 1 + StringSize(m.object_id))
        /\ Holds(PutString(8, m.type), 1 + StringSize(m.type))
    BY StringHolds DEF MethodCallMessages
  <2> QED
    BY <1>1, <1>2, <2>1, FieldHolds
<1>4. Holds(c, r)
  BY <1>1, <1>2, ArgumentsHold DEF MethodCallMessages
<1>5. Holds(d, s) /\ Holds(e, t) /\ Holds(f, u)
  BY <1>1, <1>2, BoolHolds, FieldHolds
<1>6. Holds(a \o b \o c \o d \o e \o f \o g, p + q + r + s + t + u + v)
  <2>1. Holds(a \o b \o c, p + q + r)
    BY <1>3, <1>4, HoldsJoin
  <2>2. Holds(a \o b \o c \o d \o e, p + q + r + s + t)
    BY <1>5, <2>1, HoldsJoin
  <2> QED
    BY <1>3, <1>5, <2>2, HoldsJoin
<1>7. p + q + r + s + t + u + v = r + p + q + v + s + t + u
  BY <1>3, <1>4, <1>5 DEF Holds
<1>8. MethodCallRequestBytes(m) = a \o b \o c \o d \o e \o f \o g
  BY <1>1 DEF MethodCallRequestBytes
<1>9. MethodCallRequestSize(m) = r + p + q + v + s + t + u
  BY <1>2 DEF MethodCallRequestSize
<1> QED
  BY <1>6, <1>7, <1>8, <1>9

LEMMA ImportHolds ==
    ASSUME NEW m \in ImportMessages
    PROVE  Holds(ImportRequestBytes(m), ImportRequestSize(m))
<1>1. Holds(PutString(1, m.imported_name), 1 + StringSize(m.imported_name))
  BY StringHolds DEF ImportMessages
<1> QED
  BY <1>1, FieldHolds DEF ImportRequestBytes, ImportRequestSize

LEMMA ConstructorHolds ==
    ASSUME NEW m \in ConstructorMessages
    PROVE  Holds(ConstructorRequestBytes(m), ConstructorRequestSize(m))
<1>1. PICK p : p = If(m.class_name # <<>>, PutString(1, m.class_name))
  OBVIOUS
<1>2. PICK l : l = IF m.class_name # <<>> THEN 1 + StringSize(m.class_name) ELSE 0
  OBVIOUS
<1>3. Holds(p, l)
  <2>1. Holds(PutString(1, m.class_name), 1 + StringSize(m.class_name))
    BY StringHolds DEF ConstructorMessages
  <2> QED
    BY <1>1, <1>2, <2>1, FieldHolds
<1>4. Holds(ArgumentsBytes(2, m.arg), ArgumentsSize(m.arg))
  BY ArgumentsHold DEF ConstructorMessages
<1>5. Holds(p \o ArgumentsBytes(2, m.arg), l + ArgumentsSize(m.arg))
  BY <1>3, <1>4, HoldsJoin
<1>6. l + ArgumentsSize(m.arg) = ArgumentsSize(m.arg) + l
  BY <1>3, <1>4 DEF Holds
<1> QED
  BY <1>1, <1>2, <1>5, <1>6 DEF ConstructorRequestBytes, ConstructorRequestSize

LEMMA RequestHolds ==
    ASSUME NEW r \in RequestMessages
    PROVE  Holds(RequestBytes(r), RequestSize(r))
<1>1. PICK a, b, c, d, e, f :
         /\ a = If(r.case = "method_call",
                   PutMessage(1, MethodCallRequestSize(r.method_call),
                              MethodCallRequestBytes(r.method_call)))
         /\ b = If(r.case = "importation",
                   PutMessage(2, ImportRequestSize(r.importation),
                              ImportRequestBytes(r.importation)))
         /\ c = If(r.case = "constructor",
                   PutMessage(3, ConstructorRequestSize(r.constructor),
                              ConstructorRequestBytes(r.constructor)))
         /\ d = If(r.case = "eval", PutBool(4, r.eval))
         /\ e = If(r.case = "dynamic_inherit", PutBool(5, r.dynamic_inherit))
         /\ f = If(r.assigned_id # <<>>, PutString(7, r.assigned_id))
  OBVIOUS
<1>2. PICK p, q, s, t, u, v :
         /\ p = IF r.case = "method_call"
                THEN 1 + MessageSize(MethodCallRequestSize(r.method_call)) ELSE 0
         /\ q = IF r.case = "importation"
                THEN 1 + MessageSize(ImportRequestSize(r.importation)) ELSE 0
         /\ s = IF r.case = "constructor"
                THEN 1 + MessageSize(ConstructorRequestSize(r.constructor)) ELSE 0
         /\ t = IF r.case = "eval" THEN 2 ELSE 0
         /\ u = IF r.case = "dynamic_inherit" THEN 2 ELSE 0
         /\ v = IF r.assigned_id # <<>> THEN 1 + StringSize(r.assigned_id) ELSE 0
  OBVIOUS
<1>3. Holds(a, p)
  BY <1>1, <1>2, MethodCallHolds, MessageHolds, FieldHolds DEF RequestMessages
<1>4. Holds(b, q)
  BY <1>1, <1>2, ImportHolds, MessageHolds, FieldHolds DEF RequestMessages
<1>5. Holds(c, s)
  BY <1>1, <1>2, ConstructorHolds, MessageHolds, FieldHolds DEF RequestMessages
<1>6. Holds(d, t) /\ Holds(e, u)
  BY <1>1, <1>2, BoolHolds, FieldHolds
<1>7. Holds(f, v)
  <2>1. Holds(PutString(7, r.assigned_id), 1 + StringSize(r.assigned_id))
    BY StringHolds DEF RequestMessages
  <2> QED
    BY <1>1, <1>2, <2>1, FieldHolds
<1>8. Holds(a \o b \o c \o d \o e \o f, p + q + s + t + u + v)
  <2>1. Holds(a \o b \o c, p + q + s)
    BY <1>3, <1>4, <1>5, HoldsJoin
  <2> QED
    BY <1>6, <1>7, <2>1, HoldsJoin
<1>9. p + q + s + t + u + v = RequestSize(r)
  <2>1. RequestSize(r) = v + (p + q + s + t + u)
    <3>1. /\ p \in Nat /\ q \in Nat /\ s \in Nat /\ t \in Nat /\ u \in Nat /\ v \in Nat
      BY <1>3, <1>4, <1>5, <1>6, <1>7 DEF Holds
    <3>2. r.case \in {"none", "method_call", "importation", "constructor", "eval",
                      "dynamic_inherit"}
      BY DEF RequestMessages
    <3> QED
      BY <1>2, <3>1, <3>2 DEF RequestSize
  <2> QED
    BY <1>3, <1>4, <1>5, <1>6, <1>7, <2>1 DEF Holds
<1> QED
  BY <1>1, <1>8, <1>9 DEF RequestBytes

LEMMA ChannelResponseHolds ==
    ASSUME NEW r \in ResponseMessages
    PROVE  Holds(ChannelResponseBytes(r), ChannelResponseSize(r))
<1>1. PICK a, b, c :
         /\ a = If(r.case = "return_value",
                   PutMessage(1, ValueSize(r.return_value), ValueBytes(r.return_value)))
         /\ b = If(r.case = "exception_message", PutString(3, r.exception_message))
         /\ c = If(r.assigned_id # <<>>, PutString(7, r.assigned_id))
  OBVIOUS
<1>2. PICK p, q, s :
         /\ p = IF r.case = "return_value"
                THEN 1 + MessageSize(ValueSize(r.return_value)) ELSE 0
         /\ q = IF r.case = "exception_message"
                THEN 1 + StringSize(r.exception_message) ELSE 0
         /\ s = IF r.assigned_id # <<>> THEN 1 + StringSize(r.assigned_id) ELSE 0
  OBVIOUS
<1>3. Holds(a, p)
  BY <1>1, <1>2, ValueHolds, MessageHolds, FieldHolds DEF ResponseMessages
<1>4. Holds(b, q) /\ Holds(c, s)
  <2>1. /\ Holds(PutString(3, r.exception_message), 1 + StringSize(r.exception_message))
        /\ Holds(PutString(7, r.assigned_id), 1 + StringSize(r.assigned_id))
    BY StringHolds DEF ResponseMessages
  <2> QED
    BY <1>1, <1>2, <2>1, FieldHolds
<1>5. Holds(a \o b \o c, p + q + s)
  BY <1>3, <1>4, HoldsJoin
<1>6. p + q + s = ChannelResponseSize(r)
  <2>1. p \in Nat /\ q \in Nat /\ s \in Nat
    BY <1>3, <1>4 DEF Holds
  <2>2. r.case \in {"none", "return_value", "exception_message"}
    BY DEF ResponseMessages
  <2> QED
    BY <1>2, <2>1, <2>2 DEF ChannelResponseSize
<1> QED
  BY <1>1, <1>5, <1>6 DEF ChannelResponseBytes

-----------------------------------------------------------------------------
(* Reading what was written of an argument and of a list of them.          *)

LEMMA ReadNothingBefore ==
    ASSUME NEW w \in ValueMessages
    PROVE  ReadValue(EmptyValue, ValueBytes(w)) = Read(w)
<1>1. MergeValue(EmptyValue, w) = w
  <2>1. CASE w.case = "none"
    <3>1. w.string = <<>> /\ w.int = 0 /\ w.uint = 0
      BY <2>1 DEF ValueMessages
    <3>2. w = [case |-> w.case, string |-> w.string, int |-> w.int, uint |-> w.uint]
      BY DEF ValueMessages
    <3>3. w = EmptyValue
      BY <2>1, <3>1, <3>2 DEF EmptyValue
    <3> QED
      BY <2>1, <3>3 DEF MergeValue
  <2>2. CASE w.case # "none"
    BY <2>2 DEF MergeValue
  <2> QED
    BY <2>1, <2>2
<1> QED
  BY <1>1, ReadValueBytes

ArgumentOf(t, h, v, k) == [type |-> t, has_value |-> h, value |-> v, key |-> k]

LEMMA TypeChanges ==
    ASSUME NEW t, NEW h, NEW v, NEW k, NEW x
    PROVE  [ArgumentOf(t, h, v, k) EXCEPT !.type = x] = ArgumentOf(x, h, v, k)
<1>1. PICK a : a = [type |-> t, has_value |-> h, value |-> v, key |-> k]
  OBVIOUS
<1>2. [a EXCEPT !.type = x] = [type |-> x, has_value |-> h, value |-> v, key |-> k]
  BY <1>1
<1> QED
  BY <1>1, <1>2 DEF ArgumentOf

WithValue(a, y, x) == [[a EXCEPT !.has_value = y] EXCEPT !.value = x]

LEMMA ValueChanges ==
    ASSUME NEW t, NEW h, NEW v, NEW k, NEW x, NEW y
    PROVE  WithValue(ArgumentOf(t, h, v, k), y, x) = ArgumentOf(t, y, x, k)
<1>1. PICK a : a = [type |-> t, has_value |-> h, value |-> v, key |-> k]
  OBVIOUS
<1>2. PICK b : b = [a EXCEPT !.has_value = y]
  OBVIOUS
<1>3. b = [type |-> t, has_value |-> y, value |-> v, key |-> k]
  BY <1>1, <1>2
<1>4. [b EXCEPT !.value = x] = [type |-> t, has_value |-> y, value |-> x, key |-> k]
  BY <1>3
<1>5. a = ArgumentOf(t, h, v, k)
  BY <1>1 DEF ArgumentOf
<1>6. [b EXCEPT !.value = x] = ArgumentOf(t, y, x, k)
  BY <1>4 DEF ArgumentOf
<1>7. WithValue(a, y, x) = [b EXCEPT !.value = x]
  BY <1>2 DEF WithValue
<1> QED
  BY <1>5, <1>6, <1>7

LEMMA KeyChanges ==
    ASSUME NEW t, NEW h, NEW v, NEW k, NEW x
    PROVE  [ArgumentOf(t, h, v, k) EXCEPT !.key = x] = ArgumentOf(t, h, v, x)
<1>1. PICK a : a = [type |-> t, has_value |-> h, value |-> v, key |-> k]
  OBVIOUS
<1>2. [a EXCEPT !.key = x] = [type |-> t, has_value |-> h, value |-> v, key |-> x]
  BY <1>1
<1> QED
  BY <1>1, <1>2 DEF ArgumentOf

LEMMA ReadChanges ==
    ASSUME NEW x, NEW y PROVE [Read(x) EXCEPT !.message = y] = Read(y)
<1>1. PICK r, z : r = Read(x) /\ z = TRUE
  OBVIOUS
<1>2. r = [message |-> x, ok |-> z] /\ Read(y) = [message |-> y, ok |-> z]
  BY <1>1 DEF Read
<1>3. [r EXCEPT !.message = y] = [message |-> y, ok |-> z]
  BY <1>2
<1> QED
  BY <1>1, <1>2, <1>3

LEMMA ArgumentTakes ==
    ASSUME NEW a \in ArgumentMessages
    PROVE  Takes("Argument", ArgumentBytes(a), Read(EmptyArgument), Read(a))
<1>1. PICK s1, s2, s3 :
         /\ s1 = If(a.type # 0, PutEnum(1, a.type))
         /\ s2 = If(a.has_value, PutMessage(3, ValueSize(a.value), ValueBytes(a.value)))
         /\ s3 = If(a.key # <<>>, PutString(4, a.key))
         /\ ArgumentBytes(a) = s1 \o s2 \o s3
  BY DEF ArgumentBytes
<1>2. /\ a.type \in Nat /\ a.has_value \in BOOLEAN /\ a.value \in ValueMessages
      /\ a.key \in ByteStrings
      /\ a = ArgumentOf(a.type, a.has_value, a.value, a.key)
      /\ ~ a.has_value => a.value = EmptyValue
  BY DEF ArgumentMessages, ArgumentOf
<1>9. PICK no : no = FALSE
  OBVIOUS
<1>3. PICK x0, x1, x2 :
         /\ x0 = ArgumentOf(0, no, EmptyValue, <<>>)
         /\ x1 = ArgumentOf(a.type, no, EmptyValue, <<>>)
         /\ x2 = ArgumentOf(a.type, a.has_value, a.value, <<>>)
  OBVIOUS
<1>4. EmptyArgument = x0
  BY <1>3, <1>9 DEF EmptyArgument, PERSISTENCE, ArgumentOf
<1>5. Takes("Argument", s1, Read(x0), Read(x1))
  <2>1. PICK f : f = [tag |-> Tag(1, Varint), bytes |-> <<a.type>>]
    OBVIOUS
  <2>2. ArgumentField(x0, f) = Read([x0 EXCEPT !.type = a.type])
    BY <2>1, TagsDiffer DEF ArgumentField
  <2>3. [x0 EXCEPT !.type = a.type] = x1
    BY <1>3, TypeChanges
  <2>4. FoldStep("Argument", Read(x0), f) = Read(x1)
    BY <2>2, <2>3, StepIs
  <2>5. Encodes(PutEnum(1, a.type), <<f>>)
    BY <1>2, <2>1, VarintEncodes DEF PutEnum
  <2>6. Takes("Argument", PutEnum(1, a.type), Read(x0), Read(x1))
    BY <2>4, <2>5, TakesField
  <2>7. a.type = 0 => Read(x0) = Read(x1)
    BY <1>3
  <2> QED
    BY <1>1, <2>6, <2>7, TakesIf
<1>6. Takes("Argument", s2, Read(x1), Read(x2))
  <2>1. PICK f : f = [tag |-> Tag(3, Delimited), bytes |-> ValueBytes(a.value)]
    OBVIOUS
  <2>2. ASSUME a.has_value
        PROVE  Takes("Argument", PutMessage(3, ValueSize(a.value), ValueBytes(a.value)),
                     Read(x1), Read(x2))
    <3>1. PICK v : v = ReadValue(x1.value, f.bytes)
      OBVIOUS
    <3>2. v = Read(a.value)
      <4>1. x1.value = EmptyValue
        BY <1>3 DEF ArgumentOf
      <4> QED
        BY <1>2, <2>1, <3>1, <4>1, ReadNothingBefore
    <3>3. ArgumentField(x1, f) = [v EXCEPT !.message = set_value(x1, @)]
      BY <2>1, <3>1, TagsDiffer DEF ArgumentField
    <3>4. ArgumentField(x1, f) = Read(set_value(x1, a.value))
      <4>1. v.message = a.value
        BY <3>2 DEF Read
      <4>2. ArgumentField(x1, f) = [v EXCEPT !.message = set_value(x1, a.value)]
        BY <3>3, <4>1
      <4> QED
        BY <3>2, <4>2, ReadChanges
    <3>5. set_value(x1, a.value) = x2
      <4>1. PICK e, t, v1, y, b : /\ e = EmptyValue /\ t = a.type /\ v1 = a.value
                                  /\ y = a.has_value /\ b = <<>>
        OBVIOUS
      <4>2. x1 = ArgumentOf(t, no, e, b) /\ x2 = ArgumentOf(t, y, v1, b)
        BY <1>3, <4>1
      <4>3. set_value(x1, v1) = x2
        <5>1. WithValue(x1, y, v1) = x2
          BY <4>2, ValueChanges
        <5>2. set_value(x1, v1) = WithValue(x1, y, v1)
          BY <1>2, <2>2, <4>1 DEF set_value, WithValue
        <5> QED
          BY <4>2, <5>1, <5>2
      <4> QED
        BY <4>1, <4>3
    <3>6. FoldStep("Argument", Read(x1), f) = Read(x2)
      BY <3>4, <3>5, StepIs
    <3>7. Encodes(PutMessage(3, ValueSize(a.value), ValueBytes(a.value)), <<f>>)
      <4>1. ValueBytes(a.value) \in Seq(Nat)
        BY <1>2, ValueTakes, TakesBytes
      <4>2. ValueSize(a.value) = Len(ValueBytes(a.value))
        BY <1>2, ValueHolds DEF Holds
      <4> QED
        BY <2>1, <4>1, <4>2, MessageEncodes
    <3> QED
      BY <3>6, <3>7, TakesField
  <2>3. ASSUME ~ a.has_value PROVE Read(x1) = Read(x2)
    <3>1. a.has_value = no
      BY <1>2, <1>9, <2>3
    <3> QED
      BY <1>2, <1>3, <2>3, <3>1
  <2> QED
    BY <1>1, <2>2, <2>3, TakesIf
<1>7. Takes("Argument", s3, Read(x2), Read(a))
  <2>1. PICK f : f = [tag |-> Tag(4, Delimited), bytes |-> a.key]
    OBVIOUS
  <2>2. ArgumentField(x2, f) = Read([x2 EXCEPT !.key = a.key])
    BY <2>1, TagsDiffer DEF ArgumentField
  <2>3. [x2 EXCEPT !.key = a.key] = a
    BY <1>2, <1>3, KeyChanges
  <2>4. FoldStep("Argument", Read(x2), f) = Read(a)
    BY <2>2, <2>3, StepIs
  <2>5. Encodes(PutString(4, a.key), <<f>>)
    BY <1>2, <2>1, StringEncodes
  <2>6. Takes("Argument", PutString(4, a.key), Read(x2), Read(a))
    BY <2>4, <2>5, TakesField
  <2>7. a.key = <<>> => Read(x2) = Read(a)
    BY <1>2, <1>3
  <2> QED
    BY <1>1, <2>6, <2>7, TakesIf
<1>8. Takes("Argument", s1 \o s2, Read(x0), Read(x2))
  BY <1>5, <1>6, TakesJoin
<1> QED
  BY <1>1, <1>4, <1>7, <1>8, TakesJoin

LEMMA ReadArgumentBytes ==
    ASSUME NEW a \in ArgumentMessages
    PROVE  /\ ReadArgument(EmptyArgument, ArgumentBytes(a)) = Read(a)
           /\ ArgumentBytes(a) \in Seq(Nat) /\ ArgumentSize(a) = Len(ArgumentBytes(a))
BY ArgumentTakes, TakesReads, ReadersAre, TakesBytes, ArgumentHolds DEF Holds

\* The message m with more arguments.
MoreArguments(m, args) == [m EXCEPT !.arg = @ \o args]

\* The class k has repeated arguments as this field.
Repeats(k, field) ==
    \/ k = "MethodCallRequest" /\ field = 3
    \/ k = "ConstructorRequest" /\ field = 2

LEMMA ArgumentIsAdded ==
    ASSUME NEW k, NEW field, Repeats(k, field), NEW a \in ArgumentMessages,
           NEW m, m.arg \in Seq(ArgumentMessages)
    PROVE  Takes(k, PutMessage(field, ArgumentSize(a), ArgumentBytes(a)),
                 Read(m), Read(MoreArguments(m, <<a>>)))
<1>1. PICK f : f = [tag |-> Tag(field, Delimited), bytes |-> ArgumentBytes(a)]
  OBVIOUS
<1>2. field \in Nat \ {0}
  BY DEF Repeats
<1>3. Encodes(PutMessage(field, ArgumentSize(a), ArgumentBytes(a)), <<f>>)
  BY <1>1, <1>2, ReadArgumentBytes, MessageEncodes
<1>4. AddArgument(m, f) = Read(MoreArguments(m, <<a>>))
  <2>1. PICK r : r = ReadArgument(EmptyArgument, f.bytes) /\ r = Read(a)
    BY <1>1, ReadArgumentBytes
  <2>2. r.message = a
    BY <2>1 DEF Read
  <2>3. PICK more : more = [m EXCEPT !.arg = Append(@, a)]
    OBVIOUS
  <2>4. AddArgument(m, f) = [r EXCEPT !.message = more]
    BY <2>1, <2>2, <2>3 DEF AddArgument
  <2>6. AddArgument(m, f) = Read(more)
    BY <2>1, <2>4, ReadChanges
  <2>5. Append(m.arg, a) = m.arg \o <<a>>
    OBVIOUS
  <2> QED
    BY <2>3, <2>5, <2>6 DEF MoreArguments
<1>5. FoldStep(k, Read(m), f) = AddArgument(m, f)
  <2>1. CASE k = "MethodCallRequest" /\ field = 3
    <3>1. MethodCallRequestField(m, f) = AddArgument(m, f)
      BY <1>1, <2>1, TagsDiffer DEF MethodCallRequestField
    <3> QED
      BY <2>1, <3>1, StepIs
  <2>2. CASE k = "ConstructorRequest" /\ field = 2
    <3>1. ConstructorRequestField(m, f) = AddArgument(m, f)
      BY <1>1, <2>2, TagsDiffer DEF ConstructorRequestField
    <3> QED
      BY <2>2, <3>1, StepIs
  <2> QED
    BY <2>1, <2>2 DEF Repeats
<1> QED
  BY <1>3, <1>4, <1>5, TakesField

\* m is a record with arguments.
HasArguments(m) ==
    /\ m = [x \in DOMAIN m |-> m[x]] /\ "arg" \in DOMAIN m
    /\ m.arg \in Seq(ArgumentMessages)

LEMMA MoreAndMore ==
    ASSUME NEW m, HasArguments(m), NEW p \in Seq(ArgumentMessages), NEW q \in Seq(ArgumentMessages)
    PROVE  /\ HasArguments(MoreArguments(m, p))
           /\ MoreArguments(MoreArguments(m, p), q) = MoreArguments(m, p \o q)
<1>1. PICK b \in Seq(ArgumentMessages) : b = m.arg
  BY DEF HasArguments
<1>2. PICK more : more = [m EXCEPT !.arg = b \o p]
  OBVIOUS
<1>3. MoreArguments(m, p) = more
  BY <1>1, <1>2 DEF MoreArguments
<1>4. more.arg = b \o p /\ DOMAIN more = DOMAIN m
  BY <1>1, <1>2 DEF HasArguments
<1>5. HasArguments(more)
  <2>1. b \o p \in Seq(ArgumentMessages)
    BY ConcatProperties
  <2>2. more = [x \in DOMAIN more |-> more[x]]
    BY <1>2
  <2> QED
    BY <1>4, <2>1, <2>2 DEF HasArguments
<1>6. [more EXCEPT !.arg = (b \o p) \o q] = [m EXCEPT !.arg = (b \o p) \o q]
  BY <1>2
<1>7. (b \o p) \o q = b \o (p \o q)
  <2>1. Associates(b, p, q)
    BY JoinAssociates
  <2> QED
    BY <2>1 DEF Associates
<1>8. MoreArguments(more, q) = [more EXCEPT !.arg = (b \o p) \o q]
  BY <1>4 DEF MoreArguments
<1>9. MoreArguments(m, p \o q) = [m EXCEPT !.arg = b \o (p \o q)]
  BY <1>1 DEF MoreArguments
<1> QED
  BY <1>3, <1>5, <1>6, <1>7, <1>8, <1>9

LEMMA NoMoreArguments ==
    ASSUME NEW m, HasArguments(m) PROVE MoreArguments(m, <<>>) = m
<1>1. PICK b : b = m.arg /\ b \in Seq(ArgumentMessages)
  BY DEF HasArguments
<1>2. b \o <<>> = b
  BY <1>1, ConcatEmptySeq
<1>3. [m EXCEPT !.arg = b] = m
  BY <1>1 DEF HasArguments
<1> QED
  BY <1>1, <1>2, <1>3 DEF MoreArguments

\* The first i elements.
LEMMA PrefixGrows ==
    ASSUME NEW S, NEW q \in Seq(S), NEW i \in Nat, i + 1 <= Len(q)
    PROVE  /\ SubSeq(q, 1, i) \in Seq(S)
           /\ SubSeq(q, 1, i + 1) = SubSeq(q, 1, i) \o <<q[i + 1]>>
<1>1. \A j \in 1 .. i + 1 : q[j] \in S
  OBVIOUS
<1>2. PICK x, y : x = SubSeq(q, 1, i) /\ y = SubSeq(q, 1, i + 1)
  OBVIOUS
<1>3. x \in Seq(S) /\ Len(x) = i /\ \A j \in 1 .. i : x[j] = q[j]
  <2>1. \A j \in 1 .. i : q[j] \in S
    BY <1>1
  <2>2. /\ x \in Seq(S)
        /\ Len(x) = IF 1 <= i THEN (i - 1) + 1 ELSE 0
        /\ \A j \in 1 .. (i - 1) + 1 : x[j] = q[(1 + j) - 1]
    BY <1>2, <2>1, SubSeqProperties
  <2> QED
    BY <2>2
<1>4. y \in Seq(S) /\ Len(y) = i + 1 /\ \A j \in 1 .. i + 1 : y[j] = q[j]
  <2>1. /\ y \in Seq(S)
        /\ Len(y) = IF 1 <= i + 1 THEN ((i + 1) - 1) + 1 ELSE 0
        /\ \A j \in 1 .. ((i + 1) - 1) + 1 : y[j] = q[(1 + j) - 1]
    BY <1>1, <1>2, SubSeqProperties
  <2> QED
    BY <2>1
<1>5. PICK z : z = x \o <<q[i + 1]>>
  OBVIOUS
<1>6. z \in Seq(S) /\ Len(z) = i + 1 /\ \A j \in 1 .. i + 1 : z[j] = q[j]
  <2>1. PICK e : e = q[i + 1] /\ e \in S
    BY <1>1
  <2>2. PICK t \in Seq(S) : t = <<e>> /\ Len(t) = 1 /\ t[1] = e
    <3>1. <<e>> \in Seq(S) /\ Len(<<e>>) = 1 /\ <<e>>[1] = e
      BY <2>1
    <3> QED
      BY <3>1
  <2>3. z = x \o t
    BY <1>5, <2>1, <2>2
  <2>4. /\ z \in Seq(S) /\ Len(z) = i + 1
        /\ \A j \in 1 .. i + 1 : z[j] = IF j <= i THEN x[j] ELSE t[j - i]
    BY <1>3, <2>2, <2>3, ConcatProperties
  <2> QED
    BY <1>3, <2>1, <2>2, <2>4
<1>7. y = z
  BY <1>4, <1>6, SeqEqual
<1> QED
  BY <1>2, <1>3, <1>5, <1>7

\* All arguments of a message are read, in their order.
LEMMA ArgumentsTake ==
    ASSUME NEW k, NEW field, Repeats(k, field), NEW m, HasArguments(m),
           NEW args \in Seq(ArgumentMessages)
    PROVE  Takes(k, ArgumentsBytes(field, args), Read(m), Read(MoreArguments(m, args)))
<1>1. PICK n \in Nat : n = Len(args) /\ DOMAIN args = 1 .. n
  OBVIOUS
<1>2. PICK q : q = [i \in 1 .. n |->
                      PutMessage(field, ArgumentSize(args[i]), ArgumentBytes(args[i]))]
  OBVIOUS
<1>3. ArgumentsBytes(field, args) = FlattenSeq(q) /\ Len(q) = n
  BY <1>1, <1>2 DEF ArgumentsBytes
<1>4. CASE n = 0
  <2>1. ArgumentsBytes(field, args) = q /\ q = <<>>
    BY <1>2, <1>3, <1>4 DEF FlattenSeq
  <2>2. args = <<>>
    BY <1>1, <1>4
  <2> QED
    BY <2>1, <2>2, NoMoreArguments, TakesNothing
<1>5. CASE n # 0
  <2>1. PICK f : JoinsFromFirst(f, q, n)
    BY <1>3, <1>5, FlattenJoins
  <2>2. PICK S : S = {i \in Nat : i \in 1 .. n =>
                        Takes(k, f[i], Read(m), Read(MoreArguments(m, SubSeq(args, 1, i))))}
    OBVIOUS
  <2>3. 0 \in S
    BY <2>2
  <2>4. ASSUME NEW i \in Nat, i \in S PROVE i + 1 \in S
    <3>1. SUFFICES ASSUME i + 1 \in 1 .. n
                   PROVE  Takes(k, f[i + 1], Read(m),
                                Read(MoreArguments(m, SubSeq(args, 1, i + 1))))
      BY <2>2
    <3>2. PICK j \in 1 .. n : j = i + 1
      BY <3>1
    <3>3. PICK a \in ArgumentMessages : a = args[j]
      BY <1>1
    <3>4. PICK x, p : p = SubSeq(args, 1, i) /\ x = MoreArguments(m, p)
      OBVIOUS
    <3>5. p \in Seq(ArgumentMessages) /\ SubSeq(args, 1, j) = p \o <<a>>
      BY <1>1, <3>1, <3>2, <3>3, <3>4, PrefixGrows
    <3>6. <<a>> \in Seq(ArgumentMessages)
      OBVIOUS
    <3>7. HasArguments(x) /\ MoreArguments(x, <<a>>) = MoreArguments(m, SubSeq(args, 1, j))
      <4>1. PICK t \in Seq(ArgumentMessages) : t = <<a>>
        BY <3>6
      <4>2. /\ HasArguments(MoreArguments(m, p))
            /\ MoreArguments(MoreArguments(m, p), t) = MoreArguments(m, p \o t)
        BY <3>5, MoreAndMore
      <4> QED
        BY <3>4, <3>5, <4>1, <4>2
    <3>8. Takes(k, q[j], Read(x), Read(MoreArguments(x, <<a>>)))
      <4>1. q[j] = PutMessage(field, ArgumentSize(a), ArgumentBytes(a))
        BY <1>2, <3>3
      <4>2. x.arg \in Seq(ArgumentMessages)
        BY <3>7 DEF HasArguments
      <4> QED
        BY <4>1, <4>2, ArgumentIsAdded
    <3>9. CASE i = 0
      <4>1. p = <<>>
        BY <3>4, <3>9
      <4>2. x = m
        BY <3>4, <4>1, NoMoreArguments
      <4>3. f[j] = q[j]
        BY <2>1, <3>2, <3>9 DEF JoinsFromFirst
      <4> QED
        BY <3>2, <3>7, <3>8, <4>2, <4>3
    <3>10. CASE i # 0
      <4>1. i \in 1 .. n /\ j # 1 /\ j - 1 = i
        BY <3>1, <3>2, <3>10
      <4>2. Takes(k, f[i], Read(m), Read(x))
        BY <2>2, <2>4, <3>4, <4>1
      <4>3. f[j] = f[i] \o q[j]
        BY <2>1, <4>1 DEF JoinsFromFirst
      <4>4. Takes(k, f[j], Read(m), Read(MoreArguments(x, <<a>>)))
        BY <3>8, <4>2, <4>3, TakesJoin
      <4> QED
        BY <3>2, <3>7, <4>4
    <3> QED
      BY <3>9, <3>10
  <2>5. Nat \subseteq S
    BY <2>3, <2>4, SetInduction
  <2>6. Takes(k, f[n], Read(m), Read(MoreArguments(m, SubSeq(args, 1, n))))
    BY <1>5, <2>2, <2>5
  <2>7. SubSeq(args, 1, n) = args
    BY <1>1, SubSeqFull
  <2> QED
    BY <1>3, <2>1, <2>6, <2>7 DEF JoinsFromFirst
<1> QED
  BY <1>4, <1>5

-----------------------------------------------------------------------------
(* Reading what was written of the messages of a request.                  *)

\* Class k makes y of x when it finds a field.
FieldGives(k, x, tag, bytes, y) ==
    FoldStep(k, Read(x), [tag |-> tag, bytes |-> bytes]) = Read(y)

LEMMA StringTakes ==
    ASSUME NEW k, NEW field \in Nat \ {0}, NEW s \in ByteStrings, NEW x, NEW y,
           FieldGives(k, x, Tag(field, Delimited), s, y)
    PROVE  Takes(k, PutString(field, s), Read(x), Read(y))
<1>1. PICK f : f = [tag |-> Tag(field, Delimited), bytes |-> s]
  OBVIOUS
<1>2. Encodes(PutString(field, s), <<f>>) /\ FoldStep(k, Read(x), f) = Read(y)
  BY <1>1, StringEncodes DEF FieldGives
<1> QED
  BY <1>2, TakesField

LEMMA BoolTakes ==
    ASSUME NEW k, NEW field \in Nat \ {0}, NEW b \in BOOLEAN, NEW n, n = IF b THEN 1 ELSE 0,
           NEW x, NEW y, FieldGives(k, x, Tag(field, Varint), <<n>>, y)
    PROVE  Takes(k, PutBool(field, b), Read(x), Read(y))
<1>1. PICK f : f = [tag |-> Tag(field, Varint), bytes |-> <<n>>]
  OBVIOUS
<1>2. Encodes(PutBool(field, b), <<f>>) /\ FoldStep(k, Read(x), f) = Read(y)
  BY <1>1, BoolEncodes DEF FieldGives
<1> QED
  BY <1>2, TakesField

\* A flag is written if it is set.
Flag(field) == PutBool(field, TRUE)

LEMMA FlagTakes ==
    ASSUME NEW k, NEW field \in Nat \ {0}, NEW n, n = 1, NEW x, NEW y,
           FieldGives(k, x, Tag(field, Varint), <<n>>, y)
    PROVE  Takes(k, Flag(field), Read(x), Read(y))
<1>1. PICK f : f = [tag |-> Tag(field, Varint), bytes |-> <<n>>]
  OBVIOUS
<1>2. Encodes(Flag(field), <<f>>)
  BY <1>1, VarintEncodes DEF Flag, PutBool
<1>3. FoldStep(k, Read(x), f) = Read(y)
  BY <1>1 DEF FieldGives
<1> QED
  BY <1>2, <1>3, TakesField

LEMMA MessageTakes ==
    ASSUME NEW k, NEW field \in Nat \ {0}, NEW s \in Seq(Nat), NEW size, size = Len(s),
           NEW x, NEW y, FieldGives(k, x, Tag(field, Delimited), s, y)
    PROVE  Takes(k, PutMessage(field, size, s), Read(x), Read(y))
<1>1. PICK f : f = [tag |-> Tag(field, Delimited), bytes |-> s]
  OBVIOUS
<1>2. Encodes(PutMessage(field, size, s), <<f>>) /\ FoldStep(k, Read(x), f) = Read(y)
  BY <1>1, MessageEncodes DEF FieldGives
<1> QED
  BY <1>2, TakesField

MethodCallOf(n, o, a, s, r, p, t) ==
    [methodname |-> n, object_id |-> o, arg |-> a, static |-> s, do_get_return_value |-> r,
     property |-> p, type |-> t]

LEMMA MethodnameIsRead ==
    ASSUME NEW n, NEW o, NEW a, NEW s, NEW r, NEW p, NEW t, NEW b
    PROVE  FieldGives("MethodCallRequest", MethodCallOf(n, o, a, s, r, p, t),
                      Tag(1, Delimited), b, MethodCallOf(b, o, a, s, r, p, t))
<1>1. PICK x : x = [methodname |-> n, object_id |-> o, arg |-> a, static |-> s,
               do_get_return_value |-> r, property |-> p, type |-> t]
  OBVIOUS
<1>2. [x EXCEPT !.methodname = b]
        = [methodname |-> b, object_id |-> o, arg |-> a, static |-> s,
            do_get_return_value |-> r, property |-> p, type |-> t]
  BY <1>1
<1>3. PICK f : f = [tag |-> Tag(1, Delimited), bytes |-> b]
  OBVIOUS
<1>4. MethodCallRequestField(x, f) = Read([x EXCEPT !.methodname = b])
  BY <1>3, TagsDiffer DEF MethodCallRequestField
<1>5. FoldStep("MethodCallRequest", Read(x), f) = MethodCallRequestField(x, f)
  BY StepIs
<1> QED
  BY <1>1, <1>2, <1>3, <1>4, <1>5 DEF FieldGives, MethodCallOf

LEMMA ObjectIdIsRead ==
    ASSUME NEW n, NEW o, NEW a, NEW s, NEW r, NEW p, NEW t, NEW b
    PROVE  FieldGives("MethodCallRequest", MethodCallOf(n, o, a, s, r, p, t),
                      Tag(2, Delimited), b, MethodCallOf(n, b, a, s, r, p, t))
<1>1. PICK x : x = [methodname |-> n, object_id |-> o, arg |-> a, static |-> s,
               do_get_return_value |-> r, property |-> p, type |-> t]
  OBVIOUS
<1>2. [x EXCEPT !.object_id = b]
        = [methodname |-> n, object_id |-> b, arg |-> a, static |-> s,
            do_get_return_value |-> r, property |-> p, type |-> t]
  BY <1>1
<1>3. PICK f : f = [tag |-> Tag(2, Delimited), bytes |-> b]
  OBVIOUS
<1>4. MethodCallRequestField(x, f) = Read([x EXCEPT !.object_id = b])
  BY <1>3, TagsDiffer DEF MethodCallRequestField
<1>5. FoldStep("MethodCallRequest", Read(x), f) = MethodCallRequestField(x, f)
  BY StepIs
<1> QED
  BY <1>1, <1>2, <1>3, <1>4, <1>5 DEF FieldGives, MethodCallOf

LEMMA StaticIsRead ==
    ASSUME NEW n, NEW o, NEW a, NEW s, NEW r, NEW p, NEW t, NEW b, NEW c, b = (c # 0)
    PROVE  FieldGives("MethodCallRequest", MethodCallOf(n, o, a, s, r, p, t),
                      Tag(4, Varint), <<c>>, MethodCallOf(n, o, a, b, r, p, t))
<1>1. PICK x : x = [methodname |-> n, object_id |-> o, arg |-> a, static |-> s,
               do_get_return_value |-> r, property |-> p, type |-> t]
  OBVIOUS
<1>2. [x EXCEPT !.static = b]
        = [methodname |-> n, object_id |-> o, arg |-> a, static |-> b,
            do_get_return_value |-> r, property |-> p, type |-> t]
  BY <1>1
<1>3. PICK f : f = [tag |-> Tag(4, Varint), bytes |-> <<c>>]
  OBVIOUS
<1>4. MethodCallRequestField(x, f) = Read([x EXCEPT !.static = b])
  BY <1>3, TagsDiffer DEF MethodCallRequestField
<1>5. FoldStep("MethodCallRequest", Read(x), f) = MethodCallRequestField(x, f)
  BY StepIs
<1> QED
  BY <1>1, <1>2, <1>3, <1>4, <1>5 DEF FieldGives, MethodCallOf

LEMMA ReturnIsRead ==
    ASSUME NEW n, NEW o, NEW a, NEW s, NEW r, NEW p, NEW t, NEW b, NEW c, b = (c # 0)
    PROVE  FieldGives("MethodCallRequest", MethodCallOf(n, o, a, s, r, p, t),
                      Tag(5, Varint), <<c>>, MethodCallOf(n, o, a, s, b, p, t))
<1>1. PICK x : x = [methodname |-> n, object_id |-> o, arg |-> a, static |-> s,
               do_get_return_value |-> r, property |-> p, type |-> t]
  OBVIOUS
<1>2. [x EXCEPT !.do_get_return_value = b]
        = [methodname |-> n, object_id |-> o, arg |-> a, static |-> s,
            do_get_return_value |-> b, property |-> p, type |-> t]
  BY <1>1
<1>3. PICK f : f = [tag |-> Tag(5, Varint), bytes |-> <<c>>]
  OBVIOUS
<1>4. MethodCallRequestField(x, f) = Read([x EXCEPT !.do_get_return_value = b])
  BY <1>3, TagsDiffer DEF MethodCallRequestField
<1>5. FoldStep("MethodCallRequest", Read(x), f) = MethodCallRequestField(x, f)
  BY StepIs
<1> QED
  BY <1>1, <1>2, <1>3, <1>4, <1>5 DEF FieldGives, MethodCallOf

LEMMA PropertyIsRead ==
    ASSUME NEW n, NEW o, NEW a, NEW s, NEW r, NEW p, NEW t, NEW b, NEW c, b = (c # 0)
    PROVE  FieldGives("MethodCallRequest", MethodCallOf(n, o, a, s, r, p, t),
                      Tag(6, Varint), <<c>>, MethodCallOf(n, o, a, s, r, b, t))
<1>1. PICK x : x = [methodname |-> n, object_id |-> o, arg |-> a, static |-> s,
               do_get_return_value |-> r, property |-> p, type |-> t]
  OBVIOUS
<1>2. [x EXCEPT !.property = b]
        = [methodname |-> n, object_id |-> o, arg |-> a, static |-> s,
            do_get_return_value |-> r, property |-> b, type |-> t]
  BY <1>1
<1>3. PICK f : f = [tag |-> Tag(6, Varint), bytes |-> <<c>>]
  OBVIOUS
<1>4. MethodCallRequestField(x, f) = Read([x EXCEPT !.property = b])
  BY <1>3, TagsDiffer DEF MethodCallRequestField
<1>5. FoldStep("MethodCallRequest", Read(x), f) = MethodCallRequestField(x, f)
  BY StepIs
<1> QED
  BY <1>1, <1>2, <1>3, <1>4, <1>5 DEF FieldGives, MethodCallOf

LEMMA TypeIsRead ==
    ASSUME NEW n, NEW o, NEW a, NEW s, NEW r, NEW p, NEW t, NEW b
    PROVE  FieldGives("MethodCallRequest", MethodCallOf(n, o, a, s, r, p, t),
                      Tag(8, Delimited), b, MethodCallOf(n, o, a, s, r, p, b))
<1>1. PICK x : x = [methodname |-> n, object_id |-> o, arg |-> a, static |-> s,
               do_get_return_value |-> r, property |-> p, type |-> t]
  OBVIOUS
<1>2. [x EXCEPT !.type = b]
        = [methodname |-> n, object_id |-> o, arg |-> a, static |-> s,
            do_get_return_value |-> r, property |-> p, type |-> b]
  BY <1>1
<1>3. PICK f : f = [tag |-> Tag(8, Delimited), bytes |-> b]
  OBVIOUS
<1>4. MethodCallRequestField(x, f) = Read([x EXCEPT !.type = b])
  BY <1>3, TagsDiffer DEF MethodCallRequestField
<1>5. FoldStep("MethodCallRequest", Read(x), f) = MethodCallRequestField(x, f)
  BY StepIs
<1> QED
  BY <1>1, <1>2, <1>3, <1>4, <1>5 DEF FieldGives, MethodCallOf

LEMMA ArgumentsAreRead ==
    ASSUME NEW n, NEW o, NEW a \in Seq(ArgumentMessages), NEW s, NEW r, NEW p, NEW t,
           NEW b \in Seq(ArgumentMessages)
    PROVE  Takes("MethodCallRequest", ArgumentsBytes(3, b),
                 Read(MethodCallOf(n, o, a, s, r, p, t)),
                 Read(MethodCallOf(n, o, a \o b, s, r, p, t)))
<1>1. PICK x : x = [methodname |-> n, object_id |-> o, arg |-> a, static |-> s,
                    do_get_return_value |-> r, property |-> p, type |-> t]
  OBVIOUS
<1>2. HasArguments(x) /\ x.arg = a
  BY <1>1 DEF HasArguments
<1>3. PICK c : c = a \o b
  OBVIOUS
<1>4. [x EXCEPT !.arg = c]
        = [methodname |-> n, object_id |-> o, arg |-> c, static |-> s,
           do_get_return_value |-> r, property |-> p, type |-> t]
  BY <1>1
<1>5. MoreArguments(x, b) = [x EXCEPT !.arg = c]
  BY <1>2, <1>3 DEF MoreArguments
<1>6. Takes("MethodCallRequest", ArgumentsBytes(3, b), Read(x), Read(MoreArguments(x, b)))
  BY <1>2, ArgumentsTake DEF Repeats
<1>7. x = MethodCallOf(n, o, a, s, r, p, t)
  BY <1>1 DEF MethodCallOf
<1>8. MoreArguments(x, b) = MethodCallOf(n, o, c, s, r, p, t)
  BY <1>4, <1>5 DEF MethodCallOf
<1> QED
  BY <1>3, <1>6, <1>7, <1>8

LEMMA MethodCallTakes ==
    ASSUME NEW m \in MethodCallMessages, NEW w \in MethodCallMessages
    PROVE  Takes("MethodCallRequest", MethodCallRequestBytes(w), Read(m),
                 Read(MergeMethodCallRequest(m, w)))
<1>1. PICK e1, e2, e3, e4, e5, e6, e7 :
         /\ e1 = If(w.methodname # <<>>, PutString(1, w.methodname))
         /\ e2 = If(w.object_id # <<>>, PutString(2, w.object_id))
         /\ e3 = ArgumentsBytes(3, w.arg)
         /\ e4 = If(w.static, Flag(4))
         /\ e5 = If(w.do_get_return_value, Flag(5))
         /\ e6 = If(w.property, Flag(6))
         /\ e7 = If(w.type # <<>>, PutString(8, w.type))
  OBVIOUS
<1>2. MethodCallRequestBytes(w) = e1 \o e2 \o e3 \o e4 \o e5 \o e6 \o e7
  BY <1>1 DEF MethodCallRequestBytes, Flag
<1>3. /\ w.methodname \in ByteStrings /\ w.object_id \in ByteStrings /\ w.type \in ByteStrings
      /\ w.arg \in Seq(ArgumentMessages) /\ m.arg \in Seq(ArgumentMessages)
      /\ w.static \in BOOLEAN /\ w.do_get_return_value \in BOOLEAN /\ w.property \in BOOLEAN
      /\ m.static \in BOOLEAN /\ m.do_get_return_value \in BOOLEAN /\ m.property \in BOOLEAN
  BY DEF MethodCallMessages
<1>4. PICK n, o, a, s, r, p, t :
         /\ n = m.methodname /\ o = m.object_id /\ a = m.arg /\ s = m.static
         /\ r = m.do_get_return_value /\ p = m.property /\ t = m.type
  OBVIOUS
<1>5. PICK n1, o1, a1, s1, r1, p1, t1 :
         /\ n1 = IF w.methodname # <<>> THEN w.methodname ELSE m.methodname
         /\ o1 = IF w.object_id # <<>> THEN w.object_id ELSE m.object_id
         /\ a1 = m.arg \o w.arg
         /\ s1 = (m.static \/ w.static)
         /\ r1 = (m.do_get_return_value \/ w.do_get_return_value)
         /\ p1 = (m.property \/ w.property)
         /\ t1 = IF w.type # <<>> THEN w.type ELSE m.type
  OBVIOUS
<1>6. m = MethodCallOf(n, o, a, s, r, p, t)
  BY <1>4 DEF MethodCallMessages, MethodCallOf
<1>7. MergeMethodCallRequest(m, w) = MethodCallOf(n1, o1, a1, s1, r1, p1, t1)
  BY <1>5 DEF MergeMethodCallRequest, MethodCallOf
<1>8. PICK x0, x1, x2, x3, x4, x5, x6, x7 :
         /\ x0 = MethodCallOf(n, o, a, s, r, p, t)
         /\ x1 = MethodCallOf(n1, o, a, s, r, p, t)
         /\ x2 = MethodCallOf(n1, o1, a, s, r, p, t)
         /\ x3 = MethodCallOf(n1, o1, a1, s, r, p, t)
         /\ x4 = MethodCallOf(n1, o1, a1, s1, r, p, t)
         /\ x5 = MethodCallOf(n1, o1, a1, s1, r1, p, t)
         /\ x6 = MethodCallOf(n1, o1, a1, s1, r1, p1, t)
         /\ x7 = MethodCallOf(n1, o1, a1, s1, r1, p1, t1)
  OBVIOUS
<1>9. Takes("MethodCallRequest", e1, Read(x0), Read(x1))
  <2>1. ASSUME w.methodname # <<>>
        PROVE  Takes("MethodCallRequest", PutString(1, w.methodname), Read(x0), Read(x1))
    <3>1. n1 = w.methodname
      BY <1>5, <2>1
    <3>2. FieldGives("MethodCallRequest", x0, Tag(1, Delimited), w.methodname, x1)
      BY <1>8, <3>1, MethodnameIsRead
    <3> QED
      BY <1>3, <3>2, StringTakes
  <2>2. w.methodname = <<>> => Read(x0) = Read(x1)
    BY <1>4, <1>5, <1>8
  <2> QED
    BY <1>1, <2>1, <2>2, TakesIf
<1>10. Takes("MethodCallRequest", e2, Read(x1), Read(x2))
  <2>1. ASSUME w.object_id # <<>>
        PROVE  Takes("MethodCallRequest", PutString(2, w.object_id), Read(x1), Read(x2))
    <3>1. o1 = w.object_id
      BY <1>5, <2>1
    <3>2. FieldGives("MethodCallRequest", x1, Tag(2, Delimited), w.object_id, x2)
      BY <1>8, <3>1, ObjectIdIsRead
    <3> QED
      BY <1>3, <3>2, StringTakes
  <2>2. w.object_id = <<>> => Read(x1) = Read(x2)
    BY <1>4, <1>5, <1>8
  <2> QED
    BY <1>1, <2>1, <2>2, TakesIf
<1>11. Takes("MethodCallRequest", e3, Read(x2), Read(x3))
  BY <1>1, <1>3, <1>4, <1>5, <1>8, ArgumentsAreRead
<1>12. Takes("MethodCallRequest", e4, Read(x3), Read(x4))
  <2>1. ASSUME w.static
        PROVE  Takes("MethodCallRequest", Flag(4), Read(x3), Read(x4))
    <3>1. PICK c : c = 1
      OBVIOUS
    <3>2. s1 = (c # 0)
      BY <1>3, <1>5, <2>1, <3>1
    <3>3. FieldGives("MethodCallRequest", x3, Tag(4, Varint), <<c>>, x4)
      BY <1>8, <3>2, StaticIsRead
    <3> QED
      BY <3>1, <3>3, FlagTakes
  <2>2. ASSUME ~ w.static PROVE Read(x3) = Read(x4)
    <3>1. s1 = s
      BY <1>3, <1>4, <1>5, <2>2
    <3> QED
      BY <1>8, <3>1
  <2> QED
    BY <1>1, <2>1, <2>2, TakesIf
<1>13. Takes("MethodCallRequest", e5, Read(x4), Read(x5))
  <2>1. ASSUME w.do_get_return_value
        PROVE  Takes("MethodCallRequest", Flag(5), Read(x4), Read(x5))
    <3>1. PICK c : c = 1
      OBVIOUS
    <3>2. r1 = (c # 0)
      BY <1>3, <1>5, <2>1, <3>1
    <3>3. FieldGives("MethodCallRequest", x4, Tag(5, Varint), <<c>>, x5)
      BY <1>8, <3>2, ReturnIsRead
    <3> QED
      BY <3>1, <3>3, FlagTakes
  <2>2. ASSUME ~ w.do_get_return_value PROVE Read(x4) = Read(x5)
    <3>1. r1 = r
      BY <1>3, <1>4, <1>5, <2>2
    <3> QED
      BY <1>8, <3>1
  <2> QED
    BY <1>1, <2>1, <2>2, TakesIf
<1>14. Takes("MethodCallRequest", e6, Read(x5), Read(x6))
  <2>1. ASSUME w.property
        PROVE  Takes("MethodCallRequest", Flag(6), Read(x5), Read(x6))
    <3>1. PICK c : c = 1
      OBVIOUS
    <3>2. p1 = (c # 0)
      BY <1>3, <1>5, <2>1, <3>1
    <3>3. FieldGives("MethodCallRequest", x5, Tag(6, Varint), <<c>>, x6)
      BY <1>8, <3>2, PropertyIsRead
    <3> QED
      BY <3>1, <3>3, FlagTakes
  <2>2. ASSUME ~ w.property PROVE Read(x5) = Read(x6)
    <3>1. p1 = p
      BY <1>3, <1>4, <1>5, <2>2
    <3> QED
      BY <1>8, <3>1
  <2> QED
    BY <1>1, <2>1, <2>2, TakesIf
<1>15. Takes("MethodCallRequest", e7, Read(x6), Read(x7))
  <2>1. ASSUME w.type # <<>>
        PROVE  Takes("MethodCallRequest", PutString(8, w.type), Read(x6), Read(x7))
    <3>1. t1 = w.type
      BY <1>5, <2>1
    <3>2. FieldGives("MethodCallRequest", x6, Tag(8, Delimited), w.type, x7)
      BY <1>8, <3>1, TypeIsRead
    <3> QED
      BY <1>3, <3>2, StringTakes
  <2>2. w.type = <<>> => Read(x6) = Read(x7)
    BY <1>4, <1>5, <1>8
  <2> QED
    BY <1>1, <2>1, <2>2, TakesIf
<1>16. Takes("MethodCallRequest", e1 \o e2 \o e3, Read(x0), Read(x3))
  <2>1. Takes("MethodCallRequest", e1 \o e2, Read(x0), Read(x2))
    BY <1>9, <1>10, TakesJoin
  <2> QED
    BY <1>11, <2>1, TakesJoin
<1>17. Takes("MethodCallRequest", e1 \o e2 \o e3 \o e4 \o e5, Read(x0), Read(x5))
  <2>1. Takes("MethodCallRequest", e1 \o e2 \o e3 \o e4, Read(x0), Read(x4))
    BY <1>12, <1>16, TakesJoin
  <2> QED
    BY <1>13, <2>1, TakesJoin
<1>18. Takes("MethodCallRequest", e1 \o e2 \o e3 \o e4 \o e5 \o e6 \o e7, Read(x0), Read(x7))
  <2>1. Takes("MethodCallRequest", e1 \o e2 \o e3 \o e4 \o e5 \o e6, Read(x0), Read(x6))
    BY <1>14, <1>17, TakesJoin
  <2> QED
    BY <1>15, <2>1, TakesJoin
<1> QED
  BY <1>2, <1>6, <1>7, <1>8, <1>18

LEMMA ImportTakes ==
    ASSUME NEW m \in ImportMessages, NEW w \in ImportMessages
    PROVE  Takes("ImportRequest", ImportRequestBytes(w), Read(m),
                 Read(MergeImportRequest(m, w)))
<1>1. PICK q : q = MergeImportRequest(m, w)
  OBVIOUS
<1>2. PICK n : n = w.imported_name
  OBVIOUS
<1>3. m = [imported_name |-> m.imported_name] /\ w = [imported_name |-> n] /\ n \in ByteStrings
  BY <1>2 DEF ImportMessages
<1>4. ASSUME n # <<>> PROVE Takes("ImportRequest", PutString(1, n), Read(m), Read(q))
  <2>1. PICK f : f = [tag |-> Tag(1, Delimited), bytes |-> n]
    OBVIOUS
  <2>2. ImportRequestField(m, f) = Read([m EXCEPT !.imported_name = n])
    BY <2>1 DEF ImportRequestField
  <2>3. [m EXCEPT !.imported_name = n] = w
    BY <1>3
  <2>4. q = w
    BY <1>1, <1>2, <1>4 DEF MergeImportRequest, EmptyImportRequest
  <2>5. FoldStep("ImportRequest", Read(m), f) = ImportRequestField(m, f)
    BY StepIs
  <2>6. FieldGives("ImportRequest", m, Tag(1, Delimited), n, q)
    BY <2>1, <2>2, <2>3, <2>4, <2>5 DEF FieldGives
  <2> QED
    BY <1>3, <2>6, StringTakes
<1>5. ASSUME n = <<>> PROVE Read(m) = Read(q)
  <2>1. w = EmptyImportRequest
    BY <1>3, <1>5 DEF EmptyImportRequest
  <2> QED
    BY <1>1, <2>1 DEF MergeImportRequest
<1>6. Takes("ImportRequest", If(n # <<>>, PutString(1, n)), Read(m), Read(q))
  BY <1>4, <1>5, TakesIf
<1> QED
  BY <1>1, <1>2, <1>6 DEF ImportRequestBytes

LEMMA ConstructorTakes ==
    ASSUME NEW m \in ConstructorMessages, NEW w \in ConstructorMessages
    PROVE  Takes("ConstructorRequest", ConstructorRequestBytes(w), Read(m),
                 Read(MergeConstructorRequest(m, w)))
<1>1. PICK n, n1, a, b :
         /\ n = w.class_name /\ a = m.arg /\ b = w.arg
         /\ n1 = IF w.class_name # <<>> THEN w.class_name ELSE m.class_name
  OBVIOUS
<1>2. n \in ByteStrings /\ a \in Seq(ArgumentMessages) /\ b \in Seq(ArgumentMessages)
  BY <1>1 DEF ConstructorMessages
<1>3. PICK x : x = [class_name |-> n1, arg |-> a]
  OBVIOUS
<1>4. m = [class_name |-> m.class_name, arg |-> a]
  BY <1>1 DEF ConstructorMessages
<1>5. Takes("ConstructorRequest", If(n # <<>>, PutString(1, n)), Read(m), Read(x))
  <2>1. ASSUME n # <<>> PROVE Takes("ConstructorRequest", PutString(1, n), Read(m), Read(x))
    <3>1. PICK f : f = [tag |-> Tag(1, Delimited), bytes |-> n]
      OBVIOUS
    <3>2. ConstructorRequestField(m, f) = Read([m EXCEPT !.class_name = n])
      BY <3>1, TagsDiffer DEF ConstructorRequestField
    <3>3. [m EXCEPT !.class_name = n] = x
      <4>1. n1 = n
        BY <1>1, <2>1
      <4> QED
        BY <1>3, <1>4, <4>1
    <3>4. FoldStep("ConstructorRequest", Read(m), f) = ConstructorRequestField(m, f)
      BY StepIs
    <3>5. FieldGives("ConstructorRequest", m, Tag(1, Delimited), n, x)
      BY <3>1, <3>2, <3>3, <3>4 DEF FieldGives
    <3> QED
      BY <1>2, <3>5, StringTakes
  <2>2. n = <<>> => Read(m) = Read(x)
    BY <1>1, <1>3, <1>4
  <2> QED
    BY <2>1, <2>2, TakesIf
<1>6. Takes("ConstructorRequest", ArgumentsBytes(2, b), Read(x), Read(MoreArguments(x, b)))
  <2>1. HasArguments(x)
    BY <1>2, <1>3 DEF HasArguments
  <2> QED
    BY <1>2, <2>1, ArgumentsTake DEF Repeats
<1>7. MoreArguments(x, b) = MergeConstructorRequest(m, w)
  <2>1. PICK c : c = a \o b
    OBVIOUS
  <2>2. [x EXCEPT !.arg = c] = [class_name |-> n1, arg |-> c]
    BY <1>3
  <2>3. MoreArguments(x, b) = [x EXCEPT !.arg = c]
    BY <1>3, <2>1 DEF MoreArguments
  <2>4. MergeConstructorRequest(m, w) = [class_name |-> n1, arg |-> c]
    BY <1>1, <2>1 DEF MergeConstructorRequest
  <2> QED
    BY <2>2, <2>3, <2>4
<1>8. ConstructorRequestBytes(w) = If(n # <<>>, PutString(1, n)) \o ArgumentsBytes(2, b)
  BY <1>1 DEF ConstructorRequestBytes
<1> QED
  BY <1>5, <1>6, <1>7, <1>8, TakesJoin

-----------------------------------------------------------------------------
(* Reading what was written of a request.                                  *)

RequestOf(c, m, i, n, e, d, id) ==
    [case |-> c, method_call |-> m, importation |-> i, constructor |-> n, eval |-> e,
     dynamic_inherit |-> d, assigned_id |-> id]

LEMMA RequestFields ==
    ASSUME NEW c, NEW m, NEW i, NEW n, NEW e, NEW d, NEW id
    PROVE  /\ RequestOf(c, m, i, n, e, d, id).case = c
           /\ RequestOf(c, m, i, n, e, d, id).method_call = m
           /\ RequestOf(c, m, i, n, e, d, id).importation = i
           /\ RequestOf(c, m, i, n, e, d, id).constructor = n
           /\ RequestOf(c, m, i, n, e, d, id).assigned_id = id
BY DEF RequestOf

LEMMA CaseChanges ==
    ASSUME NEW c, NEW m, NEW i, NEW n, NEW e, NEW d, NEW id, NEW x, NEW r,
           r = RequestOf(c, m, i, n, e, d, id)
    PROVE  [r EXCEPT !.case = x] = RequestOf(x, m, i, n, e, d, id)
BY DEF RequestOf

LEMMA MethodCallChanges ==
    ASSUME NEW c, NEW m, NEW i, NEW n, NEW e, NEW d, NEW id, NEW x, NEW r,
           r = RequestOf(c, m, i, n, e, d, id)
    PROVE  [r EXCEPT !.method_call = x] = RequestOf(c, x, i, n, e, d, id)
BY DEF RequestOf

LEMMA ImportationChanges ==
    ASSUME NEW c, NEW m, NEW i, NEW n, NEW e, NEW d, NEW id, NEW x, NEW r,
           r = RequestOf(c, m, i, n, e, d, id)
    PROVE  [r EXCEPT !.importation = x] = RequestOf(c, m, x, n, e, d, id)
BY DEF RequestOf

LEMMA ConstructorChanges ==
    ASSUME NEW c, NEW m, NEW i, NEW n, NEW e, NEW d, NEW id, NEW x, NEW r,
           r = RequestOf(c, m, i, n, e, d, id)
    PROVE  [r EXCEPT !.constructor = x] = RequestOf(c, m, i, x, e, d, id)
BY DEF RequestOf

LEMMA EvalChanges ==
    ASSUME NEW c, NEW m, NEW i, NEW n, NEW e, NEW d, NEW id, NEW x, NEW r,
           r = RequestOf(c, m, i, n, e, d, id)
    PROVE  [r EXCEPT !.eval = x] = RequestOf(c, m, i, n, x, d, id)
BY DEF RequestOf

LEMMA DynamicInheritChanges ==
    ASSUME NEW c, NEW m, NEW i, NEW n, NEW e, NEW d, NEW id, NEW x, NEW r,
           r = RequestOf(c, m, i, n, e, d, id)
    PROVE  [r EXCEPT !.dynamic_inherit = x] = RequestOf(c, m, i, n, e, x, id)
BY DEF RequestOf

LEMMA AssignedIdChanges ==
    ASSUME NEW c, NEW m, NEW i, NEW n, NEW e, NEW d, NEW id, NEW x, NEW r,
           r = RequestOf(c, m, i, n, e, d, id)
    PROVE  [r EXCEPT !.assigned_id = x] = RequestOf(c, m, i, n, e, d, x)
BY DEF RequestOf

\* A flag of a request that is not chosen.
Unset == FALSE

AsMethodCall(m, id) ==
    RequestOf("method_call", m, EmptyImportRequest, EmptyConstructorRequest, Unset, Unset, id)
AsImport(m, id) ==
    RequestOf("importation", EmptyMethodCallRequest, m, EmptyConstructorRequest, Unset, Unset,
              id)
AsConstructor(m, id) ==
    RequestOf("constructor", EmptyMethodCallRequest, EmptyImportRequest, m, Unset, Unset, id)
AsEval(b, id) ==
    RequestOf("eval", EmptyMethodCallRequest, EmptyImportRequest, EmptyConstructorRequest, b,
              Unset, id)
AsDynamicInherit(b, id) ==
    RequestOf("dynamic_inherit", EmptyMethodCallRequest, EmptyImportRequest,
              EmptyConstructorRequest, Unset, b, id)
AsNothing(id) ==
    RequestOf("none", EmptyMethodCallRequest, EmptyImportRequest, EmptyConstructorRequest,
              Unset, Unset, id)

LEMMA RequestAre ==
    ASSUME NEW r \in RequestMessages
    PROVE  r = RequestOf(r.case, r.method_call, r.importation, r.constructor, r.eval,
                         r.dynamic_inherit, r.assigned_id)
BY DEF RequestMessages, RequestOf

\* Of a request, only the alternative that was chosen is there.
LEMMA RequestIs ==
    ASSUME NEW r \in RequestMessages
    PROVE  /\ r.case \in {"none", "method_call", "importation", "constructor", "eval",
                          "dynamic_inherit"}
           /\ r.case = "method_call" => r = AsMethodCall(r.method_call, r.assigned_id)
           /\ r.case = "importation" => r = AsImport(r.importation, r.assigned_id)
           /\ r.case = "constructor" => r = AsConstructor(r.constructor, r.assigned_id)
           /\ r.case = "eval" => r = AsEval(r.eval, r.assigned_id)
           /\ r.case = "dynamic_inherit" => r = AsDynamicInherit(r.dynamic_inherit, r.assigned_id)
           /\ r.case = "none" => r = AsNothing(r.assigned_id)
<1>1. r = RequestOf(r.case, r.method_call, r.importation, r.constructor, r.eval,
                    r.dynamic_inherit, r.assigned_id)
  BY RequestAre
<1>2. /\ r.case # "method_call" => r.method_call = EmptyMethodCallRequest
      /\ r.case # "importation" => r.importation = EmptyImportRequest
      /\ r.case # "constructor" => r.constructor = EmptyConstructorRequest
  BY DEF RequestMessages
<1>3. /\ r.case # "eval" => r.eval = Unset
      /\ r.case # "dynamic_inherit" => r.dynamic_inherit = Unset
  BY DEF RequestMessages, Unset
<1>4. r.case \in {"none", "method_call", "importation", "constructor", "eval",
                  "dynamic_inherit"}
  BY DEF RequestMessages
<1> QED
  BY <1>1, <1>2, <1>3, <1>4
     DEF AsMethodCall, AsImport, AsConstructor, AsEval, AsDynamicInherit, AsNothing

LEMMA ClearedIs == ASSUME NEW r PROVE clear_request(r) = AsNothing(r.assigned_id)
<1>1. EmptyRequest = RequestOf("none", EmptyMethodCallRequest, EmptyImportRequest,
                               EmptyConstructorRequest, Unset, Unset, <<>>)
  BY DEF EmptyRequest, RequestOf, Unset
<1>2. PICK e : e = EmptyRequest
  OBVIOUS
<1>3. clear_request(r) = [e EXCEPT !.assigned_id = r.assigned_id]
  BY <1>2 DEF clear_request
<1>4. [e EXCEPT !.assigned_id = r.assigned_id] = AsNothing(r.assigned_id)
  BY <1>1, <1>2, AssignedIdChanges DEF AsNothing
<1> QED
  BY <1>3, <1>4

LEMMA MethodCallIsSet ==
    ASSUME NEW r \in RequestMessages, NEW m
    PROVE  set_method_call(r, m) = AsMethodCall(m, r.assigned_id)
<1>1. PICK id : id = r.assigned_id
  OBVIOUS
<1>2. CASE r.case = "method_call"
  <2>1. PICK x : x = r.method_call
    OBVIOUS
  <2>2. r = AsMethodCall(x, id)
    BY <1>1, <1>2, <2>1, RequestIs
  <2>3. set_method_call(r, m) = [r EXCEPT !.method_call = m]
    BY <1>2 DEF set_method_call, Choose
  <2>4. [r EXCEPT !.method_call = m] = AsMethodCall(m, id)
    BY <2>2, MethodCallChanges DEF AsMethodCall
  <2> QED
    BY <1>1, <2>3, <2>4
<1>3. CASE r.case # "method_call"
  <2>1. PICK y, z : z = AsNothing(id) /\ y = [z EXCEPT !.case = "method_call"]
    OBVIOUS
  <2>2. set_method_call(r, m) = [y EXCEPT !.method_call = m]
    BY <1>1, <1>3, <2>1, ClearedIs DEF set_method_call, Choose
  <2>3. y = RequestOf("method_call", EmptyMethodCallRequest, EmptyImportRequest,
                      EmptyConstructorRequest, Unset, Unset, id)
    BY <2>1, CaseChanges DEF AsNothing
  <2>4. [y EXCEPT !.method_call = m] = AsMethodCall(m, id)
    BY <2>3, MethodCallChanges DEF AsMethodCall
  <2> QED
    BY <1>1, <2>2, <2>4
<1> QED
  BY <1>2, <1>3

LEMMA ImportIsSet ==
    ASSUME NEW r \in RequestMessages, NEW m
    PROVE  set_importation(r, m) = AsImport(m, r.assigned_id)
<1>1. PICK id : id = r.assigned_id
  OBVIOUS
<1>2. CASE r.case = "importation"
  <2>1. PICK x : x = r.importation
    OBVIOUS
  <2>2. r = AsImport(x, id)
    BY <1>1, <1>2, <2>1, RequestIs
  <2>3. set_importation(r, m) = [r EXCEPT !.importation = m]
    BY <1>2 DEF set_importation, Choose
  <2>4. [r EXCEPT !.importation = m] = AsImport(m, id)
    BY <2>2, ImportationChanges DEF AsImport
  <2> QED
    BY <1>1, <2>3, <2>4
<1>3. CASE r.case # "importation"
  <2>1. PICK y, z : z = AsNothing(id) /\ y = [z EXCEPT !.case = "importation"]
    OBVIOUS
  <2>2. set_importation(r, m) = [y EXCEPT !.importation = m]
    BY <1>1, <1>3, <2>1, ClearedIs DEF set_importation, Choose
  <2>3. y = RequestOf("importation", EmptyMethodCallRequest, EmptyImportRequest,
                      EmptyConstructorRequest, Unset, Unset, id)
    BY <2>1, CaseChanges DEF AsNothing
  <2>4. [y EXCEPT !.importation = m] = AsImport(m, id)
    BY <2>3, ImportationChanges DEF AsImport
  <2> QED
    BY <1>1, <2>2, <2>4
<1> QED
  BY <1>2, <1>3

LEMMA ConstructorIsSet ==
    ASSUME NEW r \in RequestMessages, NEW m
    PROVE  set_constructor(r, m) = AsConstructor(m, r.assigned_id)
<1>1. PICK id : id = r.assigned_id
  OBVIOUS
<1>2. CASE r.case = "constructor"
  <2>1. PICK x : x = r.constructor
    OBVIOUS
  <2>2. r = AsConstructor(x, id)
    BY <1>1, <1>2, <2>1, RequestIs
  <2>3. set_constructor(r, m) = [r EXCEPT !.constructor = m]
    BY <1>2 DEF set_constructor, Choose
  <2>4. [r EXCEPT !.constructor = m] = AsConstructor(m, id)
    BY <2>2, ConstructorChanges DEF AsConstructor
  <2> QED
    BY <1>1, <2>3, <2>4
<1>3. CASE r.case # "constructor"
  <2>1. PICK y, z : z = AsNothing(id) /\ y = [z EXCEPT !.case = "constructor"]
    OBVIOUS
  <2>2. set_constructor(r, m) = [y EXCEPT !.constructor = m]
    BY <1>1, <1>3, <2>1, ClearedIs DEF set_constructor, Choose
  <2>3. y = RequestOf("constructor", EmptyMethodCallRequest, EmptyImportRequest,
                      EmptyConstructorRequest, Unset, Unset, id)
    BY <2>1, CaseChanges DEF AsNothing
  <2>4. [y EXCEPT !.constructor = m] = AsConstructor(m, id)
    BY <2>3, ConstructorChanges DEF AsConstructor
  <2> QED
    BY <1>1, <2>2, <2>4
<1> QED
  BY <1>2, <1>3

LEMMA EvalIsSet ==
    ASSUME NEW r \in RequestMessages, NEW m
    PROVE  set_eval(r, m) = AsEval(m, r.assigned_id)
<1>1. PICK id : id = r.assigned_id
  OBVIOUS
<1>2. CASE r.case = "eval"
  <2>1. PICK x : x = r.eval
    OBVIOUS
  <2>2. r = AsEval(x, id)
    BY <1>1, <1>2, <2>1, RequestIs
  <2>3. set_eval(r, m) = [r EXCEPT !.eval = m]
    BY <1>2 DEF set_eval, Choose
  <2>4. [r EXCEPT !.eval = m] = AsEval(m, id)
    BY <2>2, EvalChanges DEF AsEval
  <2> QED
    BY <1>1, <2>3, <2>4
<1>3. CASE r.case # "eval"
  <2>1. PICK y, z : z = AsNothing(id) /\ y = [z EXCEPT !.case = "eval"]
    OBVIOUS
  <2>2. set_eval(r, m) = [y EXCEPT !.eval = m]
    BY <1>1, <1>3, <2>1, ClearedIs DEF set_eval, Choose
  <2>3. y = RequestOf("eval", EmptyMethodCallRequest, EmptyImportRequest,
                      EmptyConstructorRequest, Unset, Unset, id)
    BY <2>1, CaseChanges DEF AsNothing
  <2>4. [y EXCEPT !.eval = m] = AsEval(m, id)
    BY <2>3, EvalChanges DEF AsEval
  <2> QED
    BY <1>1, <2>2, <2>4
<1> QED
  BY <1>2, <1>3

LEMMA DynamicInheritIsSet ==
    ASSUME NEW r \in RequestMessages, NEW m
    PROVE  set_dynamic_inherit(r, m) = AsDynamicInherit(m, r.assigned_id)
<1>1. PICK id : id = r.assigned_id
  OBVIOUS
<1>2. CASE r.case = "dynamic_inherit"
  <2>1. PICK x : x = r.dynamic_inherit
    OBVIOUS
  <2>2. r = AsDynamicInherit(x, id)
    BY <1>1, <1>2, <2>1, RequestIs
  <2>3. set_dynamic_inherit(r, m) = [r EXCEPT !.dynamic_inherit = m]
    BY <1>2 DEF set_dynamic_inherit, Choose
  <2>4. [r EXCEPT !.dynamic_inherit = m] = AsDynamicInherit(m, id)
    BY <2>2, DynamicInheritChanges DEF AsDynamicInherit
  <2> QED
    BY <1>1, <2>3, <2>4
<1>3. CASE r.case # "dynamic_inherit"
  <2>1. PICK y, z : z = AsNothing(id) /\ y = [z EXCEPT !.case = "dynamic_inherit"]
    OBVIOUS
  <2>2. set_dynamic_inherit(r, m) = [y EXCEPT !.dynamic_inherit = m]
    BY <1>1, <1>3, <2>1, ClearedIs DEF set_dynamic_inherit, Choose
  <2>3. y = RequestOf("dynamic_inherit", EmptyMethodCallRequest, EmptyImportRequest,
                      EmptyConstructorRequest, Unset, Unset, id)
    BY <2>1, CaseChanges DEF AsNothing
  <2>4. [y EXCEPT !.dynamic_inherit = m] = AsDynamicInherit(m, id)
    BY <2>3, DynamicInheritChanges DEF AsDynamicInherit
  <2> QED
    BY <1>1, <2>2, <2>4
<1> QED
  BY <1>2, <1>3

LEMMA PowerIsPositive == Power[Width] \in Nat \ {0}
<1>1. Width \in Nat
  BY WidthAssumption
<1>2. PICK T : T = {i \in Nat : i <= Width => Power[i] \in Nat \ {0}}
  OBVIOUS
<1>3. 0 \in T
  BY <1>2, PowerSteps
<1>4. ASSUME NEW i \in Nat, i \in T PROVE i + 1 \in T
  <2>1. SUFFICES ASSUME i + 1 <= Width PROVE Power[i + 1] \in Nat \ {0}
    BY <1>2
  <2>2. i + 1 \in 1 .. Width /\ (i + 1) - 1 = i /\ Power[i] \in Nat \ {0}
    BY <1>1, <1>2, <1>4, <2>1
  <2>3. Power[i + 1] = 256 * Power[(i + 1) - 1]
    BY <2>2, PowerSteps
  <2> QED
    BY <2>2, <2>3
<1>5. Nat \subseteq T
  BY <1>3, <1>4, SetInduction
<1> QED
  BY <1>1, <1>2, <1>5

LEMMA ChosenIs ==
    ASSUME NEW r \in RequestMessages
    PROVE  /\ Choose(r, "method_call").method_call = r.method_call
           /\ Choose(r, "importation").importation = r.importation
           /\ Choose(r, "constructor").constructor = r.constructor
<1>1. PICK z : z = AsNothing(r.assigned_id)
  OBVIOUS
<1>2. /\ r.case # "method_call" => r.method_call = EmptyMethodCallRequest
      /\ r.case # "importation" => r.importation = EmptyImportRequest
      /\ r.case # "constructor" => r.constructor = EmptyConstructorRequest
  BY DEF RequestMessages
<1>3. \A x : Choose(r, x) = IF r.case = x THEN r ELSE [z EXCEPT !.case = x]
  BY <1>1, ClearedIs DEF Choose
<1>4. PICK x : x = [z EXCEPT !.case = "method_call"]
  OBVIOUS
<1>5. PICK y : y = [z EXCEPT !.case = "importation"]
  OBVIOUS
<1>6. PICK v : v = [z EXCEPT !.case = "constructor"]
  OBVIOUS
<1>7. x.method_call = EmptyMethodCallRequest
  BY <1>1, <1>4, CaseChanges, RequestFields DEF AsNothing
<1>8. y.importation = EmptyImportRequest
  BY <1>1, <1>5, CaseChanges, RequestFields DEF AsNothing
<1>9. v.constructor = EmptyConstructorRequest
  BY <1>1, <1>6, CaseChanges, RequestFields DEF AsNothing
<1> QED
  BY <1>2, <1>3, <1>4, <1>5, <1>6, <1>7, <1>8, <1>9

LEMMA EmptiesAre ==
    /\ EmptyMethodCallRequest \in MethodCallMessages
    /\ EmptyImportRequest \in ImportMessages
    /\ EmptyConstructorRequest \in ConstructorMessages
    /\ EmptyValue \in ValueMessages
    /\ Unset \in BOOLEAN
    /\ <<>> \in ByteStrings
<1>1. <<>> \in ByteStrings /\ <<>> \in Seq(ArgumentMessages)
  BY DEF ByteStrings
<1>2. EmptyMethodCallRequest \in MethodCallMessages
  BY <1>1 DEF EmptyMethodCallRequest, MethodCallMessages
<1>3. EmptyImportRequest \in ImportMessages /\ EmptyConstructorRequest \in ConstructorMessages
  BY <1>1 DEF EmptyImportRequest, ImportMessages, EmptyConstructorRequest, ConstructorMessages
<1>4. 0 \in Int64s /\ 0 \in Uint64s
  BY PowerIsPositive DEF Int64s, Uint64s
<1>5. EmptyValue \in ValueMessages
  BY <1>1, <1>4 DEF EmptyValue, ValueMessages
<1> QED
  BY <1>1, <1>2, <1>3, <1>5 DEF Unset

LEMMA RequestsHave ==
    ASSUME NEW c, NEW m \in MethodCallMessages, NEW i \in ImportMessages,
           NEW n \in ConstructorMessages, NEW e \in BOOLEAN, NEW d \in BOOLEAN,
           NEW id \in ByteStrings, NEW r, r = RequestOf(c, m, i, n, e, d, id),
           c \in {"none", "method_call", "importation", "constructor", "eval",
                  "dynamic_inherit"},
           c # "method_call" => m = EmptyMethodCallRequest,
           c # "importation" => i = EmptyImportRequest,
           c # "constructor" => n = EmptyConstructorRequest,
           c # "eval" => ~ e, c # "dynamic_inherit" => ~ d
    PROVE  r \in RequestMessages
BY DEF RequestOf, RequestMessages

LEMMA AlternativesAre ==
    ASSUME NEW id \in ByteStrings
    PROVE  /\ AsNothing(id) \in RequestMessages
           /\ \A m \in MethodCallMessages : AsMethodCall(m, id) \in RequestMessages
           /\ \A m \in ImportMessages : AsImport(m, id) \in RequestMessages
           /\ \A m \in ConstructorMessages : AsConstructor(m, id) \in RequestMessages
           /\ \A b \in BOOLEAN : AsEval(b, id) \in RequestMessages
           /\ \A b \in BOOLEAN : AsDynamicInherit(b, id) \in RequestMessages
<1>1. ~ Unset
  BY DEF Unset
<1>2. AsNothing(id) \in RequestMessages
  BY <1>1, EmptiesAre, RequestsHave DEF AsNothing
<1>3. ASSUME NEW m \in MethodCallMessages PROVE AsMethodCall(m, id) \in RequestMessages
  BY <1>1, EmptiesAre, RequestsHave DEF AsMethodCall
<1>4. ASSUME NEW m \in ImportMessages PROVE AsImport(m, id) \in RequestMessages
  BY <1>1, EmptiesAre, RequestsHave DEF AsImport
<1>5. ASSUME NEW m \in ConstructorMessages PROVE AsConstructor(m, id) \in RequestMessages
  BY <1>1, EmptiesAre, RequestsHave DEF AsConstructor
<1>6. ASSUME NEW b \in BOOLEAN PROVE AsEval(b, id) \in RequestMessages
  BY <1>1, EmptiesAre, RequestsHave DEF AsEval
<1>7. ASSUME NEW b \in BOOLEAN PROVE AsDynamicInherit(b, id) \in RequestMessages
  BY <1>1, EmptiesAre, RequestsHave DEF AsDynamicInherit
<1> QED
  BY <1>2, <1>3, <1>4, <1>5, <1>6, <1>7

LEMMA NamedIs ==
    ASSUME NEW r \in RequestMessages, NEW id \in ByteStrings, NEW q,
           q = [r EXCEPT !.assigned_id = id]
    PROVE  /\ q \in RequestMessages
           /\ q.case = r.case /\ q.assigned_id = id
           /\ q.method_call = r.method_call /\ q.importation = r.importation
           /\ q.constructor = r.constructor
           /\ id = r.assigned_id => q = r
<1>1. q = RequestOf(r.case, r.method_call, r.importation, r.constructor, r.eval,
                    r.dynamic_inherit, id)
  BY RequestAre, AssignedIdChanges
<1>2. q \in RequestMessages
  <2>1. r.case \in {"none", "method_call", "importation", "constructor", "eval",
                    "dynamic_inherit"}
    BY DEF RequestMessages
  <2>2. /\ r.case # "method_call" => r.method_call = EmptyMethodCallRequest
        /\ r.case # "importation" => r.importation = EmptyImportRequest
        /\ r.case # "constructor" => r.constructor = EmptyConstructorRequest
        /\ r.case # "eval" => ~ r.eval
        /\ r.case # "dynamic_inherit" => ~ r.dynamic_inherit
    BY DEF RequestMessages
  <2>3. /\ r.method_call \in MethodCallMessages /\ r.importation \in ImportMessages
        /\ r.constructor \in ConstructorMessages
        /\ r.eval \in BOOLEAN /\ r.dynamic_inherit \in BOOLEAN
    BY DEF RequestMessages
  <2> QED
    BY <1>1, <2>1, <2>2, <2>3, RequestsHave
<1>3. id = r.assigned_id => q = r
  BY <1>1, RequestAre
<1> QED
  BY <1>1, <1>2, <1>3, RequestFields

LEMMA MergesAre ==
    /\ \A m, w \in MethodCallMessages : MergeMethodCallRequest(m, w) \in MethodCallMessages
    /\ \A m, w \in ImportMessages : MergeImportRequest(m, w) \in ImportMessages
    /\ \A m, w \in ConstructorMessages : MergeConstructorRequest(m, w) \in ConstructorMessages
    /\ \A v, w \in ValueMessages : MergeValue(v, w) \in ValueMessages
<1>1. ASSUME NEW m \in MethodCallMessages, NEW w \in MethodCallMessages
      PROVE  MergeMethodCallRequest(m, w) \in MethodCallMessages
  BY DEF MethodCallMessages, MergeMethodCallRequest
<1>2. ASSUME NEW m \in ImportMessages, NEW w \in ImportMessages
      PROVE  MergeImportRequest(m, w) \in ImportMessages
  BY DEF MergeImportRequest
<1>3. ASSUME NEW m \in ConstructorMessages, NEW w \in ConstructorMessages
      PROVE  MergeConstructorRequest(m, w) \in ConstructorMessages
  BY DEF ConstructorMessages, MergeConstructorRequest
<1>4. ASSUME NEW v \in ValueMessages, NEW w \in ValueMessages
      PROVE  MergeValue(v, w) \in ValueMessages
  BY DEF MergeValue
<1> QED
  BY <1>1, <1>2, <1>3, <1>4

LEMMA MergeRequestIs ==
    ASSUME NEW r \in RequestMessages, NEW w \in RequestMessages, NEW id,
           id = IF w.assigned_id # <<>> THEN w.assigned_id ELSE r.assigned_id,
           NEW q, q = MergeRequest(r, w)
    PROVE  /\ w.case = "method_call" =>
                q = AsMethodCall(MergeMethodCallRequest(r.method_call, w.method_call), id)
           /\ w.case = "importation" =>
                q = AsImport(MergeImportRequest(r.importation, w.importation), id)
           /\ w.case = "constructor" =>
                q = AsConstructor(MergeConstructorRequest(r.constructor, w.constructor), id)
           /\ w.case = "eval" => q = AsEval(w.eval, id)
           /\ w.case = "dynamic_inherit" => q = AsDynamicInherit(w.dynamic_inherit, id)
           /\ w.case = "none" => q = [r EXCEPT !.assigned_id = id]
<1>1. id \in ByteStrings /\ r.assigned_id \in ByteStrings
  BY DEF RequestMessages
<1>2. PICK p : p = [r EXCEPT !.assigned_id = id]
  OBVIOUS
<1>3. /\ p \in RequestMessages /\ p.assigned_id = id /\ p.method_call = r.method_call
      /\ p.importation = r.importation /\ p.constructor = r.constructor
      /\ id = r.assigned_id => p = r
  BY <1>1, <1>2, NamedIs
<1>4. PICK named : named = IF w.assigned_id # <<>>
                           THEN [r EXCEPT !.assigned_id = w.assigned_id] ELSE r
  OBVIOUS
<1>5. named = p
  BY <1>2, <1>3, <1>4
<1>6. PICK to : to = Choose(named, w.case)
  OBVIOUS
<1>7. q = CASE w.case = "method_call" ->
                set_method_call(named, MergeMethodCallRequest(to.method_call, w.method_call))
            [] w.case = "importation" ->
                set_importation(named, MergeImportRequest(to.importation, w.importation))
            [] w.case = "constructor" ->
                set_constructor(named, MergeConstructorRequest(to.constructor, w.constructor))
            [] w.case = "eval" -> set_eval(named, w.eval)
            [] w.case = "dynamic_inherit" -> set_dynamic_inherit(named, w.dynamic_inherit)
            [] OTHER -> named
  BY <1>4, <1>6 DEF MergeRequest
<1>8. ASSUME w.case = "method_call"
      PROVE  q = AsMethodCall(MergeMethodCallRequest(r.method_call, w.method_call), id)
  <2>1. PICK m : m = MergeMethodCallRequest(to.method_call, w.method_call)
    OBVIOUS
  <2>2. q = set_method_call(p, m)
    BY <1>5, <1>7, <1>8, <2>1
  <2>3. to.method_call = r.method_call
    BY <1>3, <1>5, <1>6, <1>8, ChosenIs
  <2>4. set_method_call(p, m) = AsMethodCall(m, id)
    BY <1>3, MethodCallIsSet
  <2> QED
    BY <2>1, <2>2, <2>3, <2>4
<1>9. ASSUME w.case = "importation"
      PROVE  q = AsImport(MergeImportRequest(r.importation, w.importation), id)
  <2>1. PICK m : m = MergeImportRequest(to.importation, w.importation)
    OBVIOUS
  <2>2. q = set_importation(p, m)
    BY <1>5, <1>7, <1>9, <2>1
  <2>3. to.importation = r.importation
    BY <1>3, <1>5, <1>6, <1>9, ChosenIs
  <2>4. set_importation(p, m) = AsImport(m, id)
    BY <1>3, ImportIsSet
  <2> QED
    BY <2>1, <2>2, <2>3, <2>4
<1>10. ASSUME w.case = "constructor"
      PROVE  q = AsConstructor(MergeConstructorRequest(r.constructor, w.constructor), id)
  <2>1. PICK m : m = MergeConstructorRequest(to.constructor, w.constructor)
    OBVIOUS
  <2>2. q = set_constructor(p, m)
    BY <1>5, <1>7, <1>10, <2>1
  <2>3. to.constructor = r.constructor
    BY <1>3, <1>5, <1>6, <1>10, ChosenIs
  <2>4. set_constructor(p, m) = AsConstructor(m, id)
    BY <1>3, ConstructorIsSet
  <2> QED
    BY <2>1, <2>2, <2>3, <2>4
<1>11. ASSUME w.case = "eval" PROVE q = AsEval(w.eval, id)
  <2>1. PICK m : m = w.eval
    OBVIOUS
  <2>2. q = set_eval(p, m)
    BY <1>5, <1>7, <1>11, <2>1
  <2>3. set_eval(p, m) = AsEval(m, id)
    BY <1>3, EvalIsSet
  <2> QED
    BY <2>1, <2>2, <2>3
<1>12. ASSUME w.case = "dynamic_inherit" PROVE q = AsDynamicInherit(w.dynamic_inherit, id)
  <2>1. PICK m : m = w.dynamic_inherit
    OBVIOUS
  <2>2. q = set_dynamic_inherit(p, m)
    BY <1>5, <1>7, <1>12, <2>1
  <2>3. set_dynamic_inherit(p, m) = AsDynamicInherit(m, id)
    BY <1>3, DynamicInheritIsSet
  <2> QED
    BY <2>1, <2>2, <2>3
<1>13. w.case = "none" => q = p
  BY <1>5, <1>7
<1> QED
  BY <1>2, <1>8, <1>9, <1>10, <1>11, <1>12, <1>13

\* A method call that is read into what is there of one.
LEMMA NestedCallIsTaken ==
    ASSUME NEW r \in RequestMessages, NEW s, NEW n, Holds(s, n), NEW m,
           Takes("MethodCallRequest", s, Read(r.method_call), Read(m))
    PROVE  Takes("Request", PutMessage(1, n, s), Read(r), Read(AsMethodCall(m, r.assigned_id)))
<1>1. PICK a, q : a = r.method_call /\ q = AsMethodCall(m, r.assigned_id)
  OBVIOUS
<1>2. s \in Seq(Nat) /\ n = Len(s)
  BY TakesBytes DEF Holds
<1>3. PICK f, g : /\ f = [tag |-> Tag(1, Delimited), bytes |-> s]
                  /\ g = ReadMethodCallRequest(a, s)
  OBVIOUS
<1>4. g = Read(m)
  BY <1>1, <1>3, TakesReads, ReadersAre
<1>5. RequestField(r, f) = [g EXCEPT !.message = set_method_call(r, g.message)]
  <2>1. f.tag = 10 /\ f.bytes = s
    BY <1>3, TagsDiffer
  <2>2. g = ReadMethodCallRequest(Choose(r, "method_call").method_call, f.bytes)
    BY <1>1, <1>3, <2>1, ChosenIs
  <2> QED
    BY <2>1, <2>2, TagsDiffer DEF RequestField
<1>6. g.message = m
  BY <1>4 DEF Read
<1>7. set_method_call(r, m) = q
  BY <1>1, MethodCallIsSet
<1>8. [g EXCEPT !.message = q] = Read(q)
  BY <1>4, ReadChanges
<1>9. FoldStep("Request", Read(r), f) = Read(q)
  BY <1>5, <1>6, <1>7, <1>8, StepIs
<1>10. FieldGives("Request", r, Tag(1, Delimited), s, q)
  BY <1>3, <1>9 DEF FieldGives
<1> QED
  BY <1>1, <1>2, <1>10, MessageTakes

LEMMA MethodCallIsTaken ==
    ASSUME NEW r \in RequestMessages, NEW w \in MethodCallMessages
    PROVE  Takes("Request", PutMessage(1, MethodCallRequestSize(w), MethodCallRequestBytes(w)),
                 Read(r),
                 Read(AsMethodCall(MergeMethodCallRequest(r.method_call, w), r.assigned_id)))
<1>1. r.method_call \in MethodCallMessages
  BY DEF RequestMessages
<1>2. Takes("MethodCallRequest", MethodCallRequestBytes(w), Read(r.method_call),
            Read(MergeMethodCallRequest(r.method_call, w)))
  BY <1>1, MethodCallTakes
<1> QED
  BY <1>2, MethodCallHolds, NestedCallIsTaken

LEMMA AssignedIdIsTaken ==
    ASSUME NEW x, NEW b \in ByteStrings, NEW q, q = [x EXCEPT !.assigned_id = b]
    PROVE  Takes("Request", PutString(7, b), Read(x), Read(q))
<1>1. PICK f : f = [tag |-> Tag(7, Delimited), bytes |-> b]
  OBVIOUS
<1>2. RequestField(x, f) = Read([x EXCEPT !.assigned_id = b])
  <2>1. f.tag = 58 /\ f.bytes = b
    BY <1>1, TagsDiffer
  <2> QED
    BY <2>1, TagsDiffer DEF RequestField
<1>3. FoldStep("Request", Read(x), f) = Read(q)
  BY <1>2, StepIs
<1>4. FieldGives("Request", x, Tag(7, Delimited), b, q)
  BY <1>1, <1>3 DEF FieldGives
<1> QED
  BY <1>4, StringTakes

LEMMA ImportIsTaken ==
    ASSUME NEW r \in RequestMessages, NEW w \in ImportMessages
    PROVE  Takes("Request", PutMessage(2, ImportRequestSize(w), ImportRequestBytes(w)), Read(r),
                 Read(AsImport(MergeImportRequest(r.importation, w), r.assigned_id)))
<1>1. PICK a, m, q, s, n :
         /\ a = r.importation /\ m = MergeImportRequest(a, w) /\ q = AsImport(m, r.assigned_id)
         /\ s = ImportRequestBytes(w) /\ n = ImportRequestSize(w)
  OBVIOUS
<1>2. a \in ImportMessages
  BY <1>1 DEF RequestMessages
<1>3. Takes("ImportRequest", s, Read(a), Read(m))
  BY <1>1, <1>2, ImportTakes
<1>4. s \in Seq(Nat) /\ n = Len(s)
  <2>1. Holds(s, n)
    BY <1>1, ImportHolds
  <2> QED
    BY <1>3, <2>1, TakesBytes DEF Holds
<1>5. ReadImportRequest(a, s) = Read(m)
  BY <1>3, TakesReads, ReadersAre
<1>6. PICK f : f = [tag |-> Tag(2, Delimited), bytes |-> s]
  OBVIOUS
<1>7. PICK g : g = ReadImportRequest(a, s)
  OBVIOUS
<1>8. RequestField(r, f) = [g EXCEPT !.message = set_importation(r, g.message)]
  <2>1. f.tag = 18 /\ f.bytes = s
    BY <1>6, TagsDiffer
  <2>2. g = ReadImportRequest(Choose(r, "importation").importation, f.bytes)
    BY <1>1, <1>7, <2>1, ChosenIs
  <2> QED
    BY <2>1, <2>2, TagsDiffer DEF RequestField
<1>9. g.message = m
  BY <1>5, <1>7 DEF Read
<1>10. set_importation(r, m) = q
  BY <1>1, ImportIsSet
<1>11. [g EXCEPT !.message = q] = Read(q)
  BY <1>5, <1>7, ReadChanges
<1>12. FoldStep("Request", Read(r), f) = Read(q)
  BY <1>8, <1>9, <1>10, <1>11, StepIs
<1>13. FieldGives("Request", r, Tag(2, Delimited), s, q)
  BY <1>6, <1>12 DEF FieldGives
<1> QED
  BY <1>1, <1>4, <1>13, MessageTakes

LEMMA ConstructorIsTaken ==
    ASSUME NEW r \in RequestMessages, NEW w \in ConstructorMessages
    PROVE  Takes("Request",
                 PutMessage(3, ConstructorRequestSize(w), ConstructorRequestBytes(w)), Read(r),
                 Read(AsConstructor(MergeConstructorRequest(r.constructor, w), r.assigned_id)))
<1>1. PICK a, m, q, s, n :
         /\ a = r.constructor /\ m = MergeConstructorRequest(a, w)
         /\ q = AsConstructor(m, r.assigned_id)
         /\ s = ConstructorRequestBytes(w) /\ n = ConstructorRequestSize(w)
  OBVIOUS
<1>2. a \in ConstructorMessages
  BY <1>1 DEF RequestMessages
<1>3. Takes("ConstructorRequest", s, Read(a), Read(m))
  BY <1>1, <1>2, ConstructorTakes
<1>4. s \in Seq(Nat) /\ n = Len(s)
  <2>1. Holds(s, n)
    BY <1>1, ConstructorHolds
  <2> QED
    BY <1>3, <2>1, TakesBytes DEF Holds
<1>5. ReadConstructorRequest(a, s) = Read(m)
  BY <1>3, TakesReads, ReadersAre
<1>6. PICK f : f = [tag |-> Tag(3, Delimited), bytes |-> s]
  OBVIOUS
<1>7. PICK g : g = ReadConstructorRequest(a, s)
  OBVIOUS
<1>8. RequestField(r, f) = [g EXCEPT !.message = set_constructor(r, g.message)]
  <2>1. f.tag = 26 /\ f.bytes = s
    BY <1>6, TagsDiffer
  <2>2. g = ReadConstructorRequest(Choose(r, "constructor").constructor, f.bytes)
    BY <1>1, <1>7, <2>1, ChosenIs
  <2> QED
    BY <2>1, <2>2, TagsDiffer DEF RequestField
<1>9. g.message = m
  BY <1>5, <1>7 DEF Read
<1>10. set_constructor(r, m) = q
  BY <1>1, ConstructorIsSet
<1>11. [g EXCEPT !.message = q] = Read(q)
  BY <1>5, <1>7, ReadChanges
<1>12. FoldStep("Request", Read(r), f) = Read(q)
  BY <1>8, <1>9, <1>10, <1>11, StepIs
<1>13. FieldGives("Request", r, Tag(3, Delimited), s, q)
  BY <1>6, <1>12 DEF FieldGives
<1> QED
  BY <1>1, <1>4, <1>13, MessageTakes

LEMMA EvalIsTaken ==
    ASSUME NEW r \in RequestMessages, NEW b \in BOOLEAN
    PROVE  Takes("Request", PutBool(4, b), Read(r), Read(AsEval(b, r.assigned_id)))
<1>1. PICK n, c : n = (IF b THEN 1 ELSE 0) /\ c = (n # 0)
  OBVIOUS
<1>2. c = b
  BY <1>1
<1>3. PICK f : f = [tag |-> Tag(4, Varint), bytes |-> <<n>>]
  OBVIOUS
<1>4. PICK z, id : z = AsNothing(id) /\ id = r.assigned_id
  OBVIOUS
<1>5. id \in ByteStrings /\ z = clear_request(r)
  BY <1>4, ClearedIs DEF RequestMessages
<1>6. z \in RequestMessages /\ z.assigned_id = id
  BY <1>4, <1>5, AlternativesAre, RequestFields DEF AsNothing
<1>7. set_eval(z, c) = AsEval(c, id)
  BY <1>6, EvalIsSet
<1>8. RequestField(r, f) = Read(set_eval(z, c))
  <2>1. f.tag = 32 /\ f.bytes[1] = n
    BY <1>3, TagsDiffer
  <2> QED
    BY <1>1, <1>5, <2>1, TagsDiffer DEF RequestField
<1>9. FoldStep("Request", Read(r), f) = Read(AsEval(c, id))
  BY <1>7, <1>8, StepIs
<1>10. FieldGives("Request", r, Tag(4, Varint), <<n>>, AsEval(b, id))
  BY <1>2, <1>3, <1>9 DEF FieldGives
<1> QED
  BY <1>1, <1>4, <1>10, BoolTakes

LEMMA DynamicInheritIsTaken ==
    ASSUME NEW r \in RequestMessages, NEW b \in BOOLEAN
    PROVE  Takes("Request", PutBool(5, b), Read(r), Read(AsDynamicInherit(b, r.assigned_id)))
<1>1. PICK n, c : n = (IF b THEN 1 ELSE 0) /\ c = (n # 0)
  OBVIOUS
<1>2. c = b
  BY <1>1
<1>3. PICK f : f = [tag |-> Tag(5, Varint), bytes |-> <<n>>]
  OBVIOUS
<1>4. PICK z, id : z = AsNothing(id) /\ id = r.assigned_id
  OBVIOUS
<1>5. id \in ByteStrings /\ z = clear_request(r)
  BY <1>4, ClearedIs DEF RequestMessages
<1>6. z \in RequestMessages /\ z.assigned_id = id
  BY <1>4, <1>5, AlternativesAre, RequestFields DEF AsNothing
<1>7. set_dynamic_inherit(z, c) = AsDynamicInherit(c, id)
  BY <1>6, DynamicInheritIsSet
<1>8. RequestField(r, f) = Read(set_dynamic_inherit(z, c))
  <2>1. f.tag = 40 /\ f.bytes[1] = n
    BY <1>3, TagsDiffer
  <2> QED
    BY <1>1, <1>5, <2>1, TagsDiffer DEF RequestField
<1>9. FoldStep("Request", Read(r), f) = Read(AsDynamicInherit(c, id))
  BY <1>7, <1>8, StepIs
<1>10. FieldGives("Request", r, Tag(5, Varint), <<n>>, AsDynamicInherit(b, id))
  BY <1>2, <1>3, <1>9 DEF FieldGives
<1> QED
  BY <1>1, <1>4, <1>10, BoolTakes

LEMMA RequestTakes ==
    ASSUME NEW r \in RequestMessages, NEW w \in RequestMessages
    PROVE  /\ Takes("Request", RequestBytes(w), Read(r), Read(MergeRequest(r, w)))
           /\ MergeRequest(r, w) \in RequestMessages
<1>1. PICK e1, e2, e3, e4, e5, e6 :
         /\ e1 = If(w.case = "method_call",
                    PutMessage(1, MethodCallRequestSize(w.method_call),
                               MethodCallRequestBytes(w.method_call)))
         /\ e2 = If(w.case = "importation",
                    PutMessage(2, ImportRequestSize(w.importation),
                               ImportRequestBytes(w.importation)))
         /\ e3 = If(w.case = "constructor",
                    PutMessage(3, ConstructorRequestSize(w.constructor),
                               ConstructorRequestBytes(w.constructor)))
         /\ e4 = If(w.case = "eval", PutBool(4, w.eval))
         /\ e5 = If(w.case = "dynamic_inherit", PutBool(5, w.dynamic_inherit))
         /\ e6 = If(w.assigned_id # <<>>, PutString(7, w.assigned_id))
  OBVIOUS
<1>2. RequestBytes(w) = e1 \o e2 \o e3 \o e4 \o e5 \o e6
  BY <1>1 DEF RequestBytes
<1>3. PICK q, id : /\ q = MergeRequest(r, w)
                   /\ id = IF w.assigned_id # <<>> THEN w.assigned_id ELSE r.assigned_id
  OBVIOUS
<1>4. /\ w.method_call \in MethodCallMessages /\ w.importation \in ImportMessages
      /\ w.constructor \in ConstructorMessages
      /\ r.method_call \in MethodCallMessages /\ r.importation \in ImportMessages
      /\ r.constructor \in ConstructorMessages
      /\ w.eval \in BOOLEAN /\ w.dynamic_inherit \in BOOLEAN
      /\ w.assigned_id \in ByteStrings /\ r.assigned_id \in ByteStrings /\ id \in ByteStrings
  BY <1>3 DEF RequestMessages
<1>5. w.case \in {"none", "method_call", "importation", "constructor", "eval",
                  "dynamic_inherit"}
  BY DEF RequestMessages
<1>6. PICK mc, mi, mn :
         /\ mc = MergeMethodCallRequest(r.method_call, w.method_call)
         /\ mi = MergeImportRequest(r.importation, w.importation)
         /\ mn = MergeConstructorRequest(r.constructor, w.constructor)
  OBVIOUS
<1>7. mc \in MethodCallMessages /\ mi \in ImportMessages /\ mn \in ConstructorMessages
  BY <1>4, <1>6, MergesAre
\* The request once the alternative has been read, and the identifier has not.
<1>8. PICK x : x = CASE w.case = "method_call" -> AsMethodCall(mc, r.assigned_id)
                     [] w.case = "importation" -> AsImport(mi, r.assigned_id)
                     [] w.case = "constructor" -> AsConstructor(mn, r.assigned_id)
                     [] w.case = "eval" -> AsEval(w.eval, r.assigned_id)
                     [] w.case = "dynamic_inherit" ->
                            AsDynamicInherit(w.dynamic_inherit, r.assigned_id)
                     [] OTHER -> r
  OBVIOUS
<1>9. /\ w.case = "method_call" => x = AsMethodCall(mc, r.assigned_id)
      /\ w.case = "importation" => x = AsImport(mi, r.assigned_id)
      /\ w.case = "constructor" => x = AsConstructor(mn, r.assigned_id)
      /\ w.case = "eval" => x = AsEval(w.eval, r.assigned_id)
      /\ w.case = "dynamic_inherit" => x = AsDynamicInherit(w.dynamic_inherit, r.assigned_id)
      /\ w.case = "none" => x = r
  BY <1>8
<1>10. x \in RequestMessages /\ x.assigned_id = r.assigned_id
  <2>1. x \in RequestMessages
    BY <1>4, <1>5, <1>7, <1>9, AlternativesAre
  <2>2. x.assigned_id = r.assigned_id
    BY <1>5, <1>9, RequestFields
       DEF AsMethodCall, AsImport, AsConstructor, AsEval, AsDynamicInherit
  <2> QED
    BY <2>1, <2>2
<1>11. [x EXCEPT !.assigned_id = id] = q
  <2>1. ASSUME w.case = "method_call" PROVE [x EXCEPT !.assigned_id = id] = q
    <3>1. x = AsMethodCall(mc, r.assigned_id) /\ q = AsMethodCall(mc, id)
      BY <1>3, <1>6, <1>9, <2>1, MergeRequestIs
    <3> QED
      BY <3>1, AssignedIdChanges DEF AsMethodCall
  <2>2. ASSUME w.case = "importation" PROVE [x EXCEPT !.assigned_id = id] = q
    <3>1. x = AsImport(mi, r.assigned_id) /\ q = AsImport(mi, id)
      BY <1>3, <1>6, <1>9, <2>2, MergeRequestIs
    <3> QED
      BY <3>1, AssignedIdChanges DEF AsImport
  <2>3. ASSUME w.case = "constructor" PROVE [x EXCEPT !.assigned_id = id] = q
    <3>1. x = AsConstructor(mn, r.assigned_id) /\ q = AsConstructor(mn, id)
      BY <1>3, <1>6, <1>9, <2>3, MergeRequestIs
    <3> QED
      BY <3>1, AssignedIdChanges DEF AsConstructor
  <2>4. ASSUME w.case = "eval" PROVE [x EXCEPT !.assigned_id = id] = q
    <3>1. x = AsEval(w.eval, r.assigned_id) /\ q = AsEval(w.eval, id)
      BY <1>3, <1>6, <1>9, <2>4, MergeRequestIs
    <3> QED
      BY <3>1, AssignedIdChanges DEF AsEval
  <2>5. ASSUME w.case = "dynamic_inherit" PROVE [x EXCEPT !.assigned_id = id] = q
    <3>1. /\ x = AsDynamicInherit(w.dynamic_inherit, r.assigned_id)
          /\ q = AsDynamicInherit(w.dynamic_inherit, id)
      BY <1>3, <1>6, <1>9, <2>5, MergeRequestIs
    <3> QED
      BY <3>1, AssignedIdChanges DEF AsDynamicInherit
  <2>6. ASSUME w.case = "none" PROVE [x EXCEPT !.assigned_id = id] = q
    BY <1>3, <1>9, <2>6, MergeRequestIs
  <2> QED
    BY <1>5, <2>1, <2>2, <2>3, <2>4, <2>5, <2>6
<1>12. q \in RequestMessages
  BY <1>4, <1>10, <1>11, NamedIs
<1>13. PICK x1, x2, x3, x4 :
         /\ x1 = IF w.case = "method_call" THEN x ELSE r
         /\ x2 = IF w.case \in {"method_call", "importation"} THEN x ELSE r
         /\ x3 = IF w.case \in {"method_call", "importation", "constructor"} THEN x ELSE r
         /\ x4 = IF w.case \in {"method_call", "importation", "constructor", "eval"} THEN x ELSE r
  OBVIOUS
<1>14. Takes("Request", e1, Read(r), Read(x1))
  <2>1. PICK p : p = PutMessage(1, MethodCallRequestSize(w.method_call),
                           MethodCallRequestBytes(w.method_call))
    OBVIOUS
  <2>2. ASSUME w.case = "method_call" PROVE Takes("Request", p, Read(r), Read(x1))
    <3>1. r = r /\ x1 = x
      BY <1>13, <2>2
    <3>2. Takes("Request", p, Read(r), Read(x))
      BY <1>4, <1>6, <1>9, <2>1, <2>2, MethodCallIsTaken
    <3> QED
      BY <3>1, <3>2
  <2>3. ~ (w.case = "method_call") => Read(r) = Read(x1)
    BY <1>5, <1>9, <1>13
  <2> QED
    BY <1>1, <2>1, <2>2, <2>3, TakesIf
<1>15. Takes("Request", e2, Read(x1), Read(x2))
  <2>1. PICK p : p = PutMessage(2, ImportRequestSize(w.importation),
                           ImportRequestBytes(w.importation))
    OBVIOUS
  <2>2. ASSUME w.case = "importation" PROVE Takes("Request", p, Read(x1), Read(x2))
    <3>1. x1 = r /\ x2 = x
      BY <1>13, <2>2
    <3>2. Takes("Request", p, Read(r), Read(x))
      BY <1>4, <1>6, <1>9, <2>1, <2>2, ImportIsTaken
    <3> QED
      BY <3>1, <3>2
  <2>3. ~ (w.case = "importation") => Read(x1) = Read(x2)
    BY <1>5, <1>9, <1>13
  <2> QED
    BY <1>1, <2>1, <2>2, <2>3, TakesIf
<1>16. Takes("Request", e3, Read(x2), Read(x3))
  <2>1. PICK p : p = PutMessage(3, ConstructorRequestSize(w.constructor),
                           ConstructorRequestBytes(w.constructor))
    OBVIOUS
  <2>2. ASSUME w.case = "constructor" PROVE Takes("Request", p, Read(x2), Read(x3))
    <3>1. x2 = r /\ x3 = x
      BY <1>13, <2>2
    <3>2. Takes("Request", p, Read(r), Read(x))
      BY <1>4, <1>6, <1>9, <2>1, <2>2, ConstructorIsTaken
    <3> QED
      BY <3>1, <3>2
  <2>3. ~ (w.case = "constructor") => Read(x2) = Read(x3)
    BY <1>5, <1>9, <1>13
  <2> QED
    BY <1>1, <2>1, <2>2, <2>3, TakesIf
<1>17. Takes("Request", e4, Read(x3), Read(x4))
  <2>1. PICK p : p = PutBool(4, w.eval)
    OBVIOUS
  <2>2. ASSUME w.case = "eval" PROVE Takes("Request", p, Read(x3), Read(x4))
    <3>1. x3 = r /\ x4 = x
      BY <1>13, <2>2
    <3>2. Takes("Request", p, Read(r), Read(x))
      BY <1>4, <1>6, <1>9, <2>1, <2>2, EvalIsTaken
    <3> QED
      BY <3>1, <3>2
  <2>3. ~ (w.case = "eval") => Read(x3) = Read(x4)
    BY <1>5, <1>9, <1>13
  <2> QED
    BY <1>1, <2>1, <2>2, <2>3, TakesIf
<1>18. Takes("Request", e5, Read(x4), Read(x))
  <2>1. PICK p : p = PutBool(5, w.dynamic_inherit)
    OBVIOUS
  <2>2. ASSUME w.case = "dynamic_inherit" PROVE Takes("Request", p, Read(x4), Read(x))
    <3>1. x4 = r /\ x = x
      BY <1>13, <2>2
    <3>2. Takes("Request", p, Read(r), Read(x))
      BY <1>4, <1>6, <1>9, <2>1, <2>2, DynamicInheritIsTaken
    <3> QED
      BY <3>1, <3>2
  <2>3. ~ (w.case = "dynamic_inherit") => Read(x4) = Read(x)
    BY <1>5, <1>9, <1>13
  <2> QED
    BY <1>1, <2>1, <2>2, <2>3, TakesIf
<1>19. Takes("Request", e6, Read(x), Read(q))
  <2>1. ASSUME w.assigned_id # <<>>
        PROVE  Takes("Request", PutString(7, w.assigned_id), Read(x), Read(q))
    <3>1. q = [x EXCEPT !.assigned_id = w.assigned_id]
      BY <1>3, <1>11, <2>1
    <3> QED
      BY <1>4, <3>1, AssignedIdIsTaken
  <2>2. ~ (w.assigned_id # <<>>) => Read(x) = Read(q)
    BY <1>3, <1>4, <1>10, <1>11, NamedIs
  <2> QED
    BY <1>1, <2>1, <2>2, TakesIf
<1>20. Takes("Request", e1 \o e2 \o e3, Read(r), Read(x3))
  <2>1. Takes("Request", e1 \o e2, Read(r), Read(x2))
    BY <1>14, <1>15, TakesJoin
  <2> QED
    BY <1>16, <2>1, TakesJoin
<1>21. Takes("Request", e1 \o e2 \o e3 \o e4 \o e5 \o e6, Read(r), Read(q))
  <2>1. Takes("Request", e1 \o e2 \o e3 \o e4, Read(r), Read(x4))
    BY <1>17, <1>20, TakesJoin
  <2>2. Takes("Request", e1 \o e2 \o e3 \o e4 \o e5, Read(r), Read(x))
    BY <1>18, <2>1, TakesJoin
  <2> QED
    BY <1>19, <2>2, TakesJoin
<1> QED
  BY <1>2, <1>3, <1>12, <1>21

-----------------------------------------------------------------------------
(* Reading what was written of a response.                                 *)

ResponseRecord(c, v, x, id) ==
    [case |-> c, return_value |-> v, exception_message |-> x, assigned_id |-> id]

AsReturnValue(v, id) == ResponseRecord("return_value", v, <<>>, id)
AsException(x, id) == ResponseRecord("exception_message", EmptyValue, x, id)

LEMMA ResponseFields ==
    ASSUME NEW c, NEW v, NEW x, NEW id
    PROVE  /\ ResponseRecord(c, v, x, id).case = c
           /\ ResponseRecord(c, v, x, id).return_value = v
           /\ ResponseRecord(c, v, x, id).exception_message = x
           /\ ResponseRecord(c, v, x, id).assigned_id = id
BY DEF ResponseRecord

LEMMA ResponseChanges ==
    ASSUME NEW c, NEW v, NEW x, NEW id, NEW j, NEW r, r = ResponseRecord(c, v, x, id)
    PROVE  [r EXCEPT !.assigned_id = j] = ResponseRecord(c, v, x, j)
BY DEF ResponseRecord

LEMMA ResponseAre ==
    ASSUME NEW r \in ResponseMessages
    PROVE  r = ResponseRecord(r.case, r.return_value, r.exception_message, r.assigned_id)
BY DEF ResponseMessages, ResponseRecord

LEMMA ResponsesHave ==
    ASSUME NEW c \in {"none", "return_value", "exception_message"}, NEW v \in ValueMessages,
           NEW x \in ByteStrings, NEW id \in ByteStrings, NEW r, r = ResponseRecord(c, v, x, id),
           c # "return_value" => v = EmptyValue, c # "exception_message" => x = <<>>
    PROVE  r \in ResponseMessages
BY DEF ResponseRecord, ResponseMessages

\* Setting an alternative clears the other one first.
LEMMA ResultsAreSet ==
    ASSUME NEW r, NEW m
    PROVE  /\ set_return_value(r, m) = AsReturnValue(m, r.assigned_id)
           /\ set_exception_message(r, m) = AsException(m, r.assigned_id)
<1>1. PICK e : e = EmptyChannelResponse
  OBVIOUS
<1>2. e = ResponseRecord("none", EmptyValue, <<>>, <<>>)
  BY <1>1 DEF EmptyChannelResponse, ResponseRecord
<1>3. PICK z : z = [e EXCEPT !.assigned_id = r.assigned_id]
  OBVIOUS
<1>4. z = ResponseRecord("none", EmptyValue, <<>>, r.assigned_id)
  BY <1>2, <1>3, ResponseChanges
<1>5. z = clear_result(r)
  BY <1>1, <1>3 DEF clear_result
<1>6. PICK v, x, id : v = EmptyValue /\ x = <<>> /\ id = r.assigned_id
  OBVIOUS
<1>7. z = [case |-> "none", return_value |-> v, exception_message |-> x, assigned_id |-> id]
  BY <1>4, <1>6 DEF ResponseRecord
<1>8. ASSUME NEW c, NEW y, y = [z EXCEPT !.case = c]
      PROVE  /\ [y EXCEPT !.return_value = m]
                    = [case |-> c, return_value |-> m, exception_message |-> x,
                       assigned_id |-> id]
             /\ [y EXCEPT !.exception_message = m]
                    = [case |-> c, return_value |-> v, exception_message |-> m,
                       assigned_id |-> id]
  <2>1. y = [case |-> c, return_value |-> v, exception_message |-> x, assigned_id |-> id]
    BY <1>7, <1>8
  <2> QED
    BY <2>1
<1>9. /\ set_return_value(r, m)
            = [[z EXCEPT !.case = "return_value"] EXCEPT !.return_value = m]
      /\ set_exception_message(r, m)
            = [[z EXCEPT !.case = "exception_message"] EXCEPT !.exception_message = m]
  BY <1>5 DEF set_return_value, set_exception_message
<1>10. set_return_value(r, m) = AsReturnValue(m, r.assigned_id)
  BY <1>6, <1>8, <1>9 DEF AsReturnValue, ResponseRecord
<1>11. set_exception_message(r, m) = AsException(m, r.assigned_id)
  BY <1>6, <1>8, <1>9 DEF AsException, ResponseRecord
<1> QED
  BY <1>10, <1>11

LEMMA ReturnValueIs ==
    ASSUME NEW r \in ResponseMessages PROVE return_value(r) = r.return_value
BY DEF ResponseMessages, return_value

LEMMA ResponseNamedIs ==
    ASSUME NEW r \in ResponseMessages, NEW id \in ByteStrings, NEW q,
           q = [r EXCEPT !.assigned_id = id]
    PROVE  /\ q \in ResponseMessages
           /\ q.assigned_id = id
           /\ id = r.assigned_id => q = r
<1>1. q = ResponseRecord(r.case, r.return_value, r.exception_message, id)
  BY ResponseAre, ResponseChanges
<1>2. q \in ResponseMessages
  <2>1. /\ r.case \in {"none", "return_value", "exception_message"}
        /\ r.return_value \in ValueMessages /\ r.exception_message \in ByteStrings
        /\ r.case # "return_value" => r.return_value = EmptyValue
        /\ r.case # "exception_message" => r.exception_message = <<>>
    BY DEF ResponseMessages
  <2> QED
    BY <1>1, <2>1, ResponsesHave
<1>3. id = r.assigned_id => q = r
  BY <1>1, ResponseAre
<1> QED
  BY <1>1, <1>2, <1>3, ResponseFields

LEMMA ResponseTakes ==
    ASSUME NEW r \in ResponseMessages, NEW w \in ResponseMessages
    PROVE  /\ Takes("ChannelResponse", ChannelResponseBytes(w), Read(r),
                    Read(MergeChannelResponse(r, w)))
           /\ MergeChannelResponse(r, w) \in ResponseMessages
<1>1. PICK e1, e2, e3, p1 :
         /\ p1 = PutMessage(1, ValueSize(w.return_value), ValueBytes(w.return_value))
         /\ e1 = If(w.case = "return_value", p1)
         /\ e2 = If(w.case = "exception_message", PutString(3, w.exception_message))
         /\ e3 = If(w.assigned_id # <<>>, PutString(7, w.assigned_id))
  OBVIOUS
<1>2. ChannelResponseBytes(w) = e1 \o e2 \o e3
  BY <1>1 DEF ChannelResponseBytes
<1>3. PICK q, id : /\ q = MergeChannelResponse(r, w)
                   /\ id = IF w.assigned_id # <<>> THEN w.assigned_id ELSE r.assigned_id
  OBVIOUS
<1>4. /\ w.return_value \in ValueMessages /\ r.return_value \in ValueMessages
      /\ w.exception_message \in ByteStrings
      /\ w.assigned_id \in ByteStrings /\ r.assigned_id \in ByteStrings /\ id \in ByteStrings
      /\ w.case \in {"none", "return_value", "exception_message"}
  BY <1>3 DEF ResponseMessages
<1>5. PICK v : v = MergeValue(r.return_value, w.return_value)
  OBVIOUS
<1>6. v \in ValueMessages
  BY <1>4, <1>5, MergesAre
\* The response once the alternative has been read, and the identifier has not.
<1>7. PICK x : x = CASE w.case = "return_value" -> AsReturnValue(v, r.assigned_id)
                     [] w.case = "exception_message" ->
                            AsException(w.exception_message, r.assigned_id)
                     [] OTHER -> r
  OBVIOUS
<1>8. /\ w.case = "return_value" => x = AsReturnValue(v, r.assigned_id)
      /\ w.case = "exception_message" => x = AsException(w.exception_message, r.assigned_id)
      /\ w.case = "none" => x = r
  BY <1>7
<1>9. x \in ResponseMessages /\ x.assigned_id = r.assigned_id
  <2>1. ASSUME w.case = "return_value"
        PROVE  x \in ResponseMessages /\ x.assigned_id = r.assigned_id
    <3>1. x = ResponseRecord("return_value", v, <<>>, r.assigned_id)
      BY <1>8, <2>1 DEF AsReturnValue
    <3> QED
      BY <1>4, <1>6, <3>1, EmptiesAre, ResponsesHave, ResponseFields
  <2>2. ASSUME w.case = "exception_message"
        PROVE  x \in ResponseMessages /\ x.assigned_id = r.assigned_id
    <3>1. x = ResponseRecord("exception_message", EmptyValue, w.exception_message, r.assigned_id)
      BY <1>8, <2>2 DEF AsException
    <3> QED
      BY <1>4, <3>1, EmptiesAre, ResponsesHave, ResponseFields
  <2> QED
    BY <1>4, <1>8, <2>1, <2>2
<1>10. PICK named : named = IF w.assigned_id # <<>>
                            THEN [r EXCEPT !.assigned_id = w.assigned_id] ELSE r
  OBVIOUS
<1>11. named = [r EXCEPT !.assigned_id = id] /\ named.assigned_id = id
  BY <1>3, <1>4, <1>10, ResponseNamedIs
<1>12. q = CASE w.case = "return_value" -> set_return_value(named, v)
             [] w.case = "exception_message" -> set_exception_message(named, w.exception_message)
             [] OTHER -> named
  BY <1>3, <1>5, <1>10, ReturnValueIs DEF MergeChannelResponse
<1>13. [x EXCEPT !.assigned_id = id] = q
  <2>1. ASSUME w.case = "return_value" PROVE [x EXCEPT !.assigned_id = id] = q
    <3>1. q = AsReturnValue(v, id)
      BY <1>11, <1>12, <2>1, ResultsAreSet
    <3> QED
      BY <1>8, <2>1, <3>1, ResponseChanges DEF AsReturnValue
  <2>2. ASSUME w.case = "exception_message" PROVE [x EXCEPT !.assigned_id = id] = q
    <3>1. q = AsException(w.exception_message, id)
      BY <1>11, <1>12, <2>2, ResultsAreSet
    <3> QED
      BY <1>8, <2>2, <3>1, ResponseChanges DEF AsException
  <2>3. ASSUME w.case = "none" PROVE [x EXCEPT !.assigned_id = id] = q
    BY <1>8, <1>11, <1>12, <2>3
  <2> QED
    BY <1>4, <2>1, <2>2, <2>3
<1>14. q \in ResponseMessages
  BY <1>4, <1>9, <1>13, ResponseNamedIs
<1>15. PICK x1 : x1 = IF w.case = "return_value" THEN x ELSE r
  OBVIOUS
<1>16. Takes("ChannelResponse", e1, Read(r), Read(x1))
  <2>1. ASSUME w.case = "return_value" PROVE Takes("ChannelResponse", p1, Read(r), Read(x1))
    <3>1. PICK s, n : s = ValueBytes(w.return_value) /\ n = ValueSize(w.return_value)
      OBVIOUS
    <3>2. PICK a : a = r.return_value
      OBVIOUS
    <3>3. Takes("Value", s, Read(a), Read(v))
      BY <1>4, <1>5, <3>1, <3>2, ValueTakes
    <3>4. s \in Seq(Nat) /\ n = Len(s)
      <4>1. Holds(s, n)
        BY <1>4, <3>1, ValueHolds
      <4> QED
        BY <3>3, <4>1, TakesBytes DEF Holds
    <3>5. PICK g : g = ReadValue(a, s)
      OBVIOUS
    <3>6. g = Read(v)
      BY <3>3, <3>5, TakesReads, ReadersAre
    <3>7. PICK f : f = [tag |-> Tag(1, Delimited), bytes |-> s]
      OBVIOUS
    <3>8. ChannelResponseField(r, f) = [g EXCEPT !.message = set_return_value(r, g.message)]
      <4>1. f.tag = 10 /\ f.bytes = s
        BY <3>7, TagsDiffer
      <4>2. g = ReadValue(return_value(r), f.bytes)
        BY <3>2, <3>5, <4>1, ReturnValueIs
      <4> QED
        BY <4>1, <4>2, TagsDiffer DEF ChannelResponseField
    <3>9. g.message = v
      BY <3>6 DEF Read
    <3>10. set_return_value(r, v) = x1
      BY <1>8, <1>15, <2>1, ResultsAreSet
    <3>11. [g EXCEPT !.message = x1] = Read(x1)
      BY <3>6, ReadChanges
    <3>12. FoldStep("ChannelResponse", Read(r), f) = Read(x1)
      BY <3>8, <3>9, <3>10, <3>11, StepIs
    <3>13. FieldGives("ChannelResponse", r, Tag(1, Delimited), s, x1)
      BY <3>7, <3>12 DEF FieldGives
    <3> QED
      BY <1>1, <3>1, <3>4, <3>13, MessageTakes
  <2>2. ~ (w.case = "return_value") => Read(r) = Read(x1)
    BY <1>15
  <2> QED
    BY <1>1, <2>1, <2>2, TakesIf
<1>17. Takes("ChannelResponse", e2, Read(x1), Read(x))
  <2>1. ASSUME w.case = "exception_message"
        PROVE  Takes("ChannelResponse", PutString(3, w.exception_message), Read(x1), Read(x))
    <3>1. PICK b : b = w.exception_message
      OBVIOUS
    <3>2. PICK f : f = [tag |-> Tag(3, Delimited), bytes |-> b]
      OBVIOUS
    <3>3. ChannelResponseField(r, f) = Read(set_exception_message(r, b))
      <4>1. f.tag = 26 /\ f.bytes = b
        BY <3>2, TagsDiffer
      <4> QED
        BY <4>1, TagsDiffer DEF ChannelResponseField
    <3>4. set_exception_message(r, b) = x /\ x1 = r
      BY <1>8, <1>15, <2>1, <3>1, ResultsAreSet
    <3>5. FoldStep("ChannelResponse", Read(x1), f) = Read(x)
      BY <3>3, <3>4, StepIs
    <3>6. FieldGives("ChannelResponse", x1, Tag(3, Delimited), b, x)
      BY <3>2, <3>5 DEF FieldGives
    <3> QED
      BY <1>4, <3>1, <3>6, StringTakes
  <2>2. ~ (w.case = "exception_message") => Read(x1) = Read(x)
    BY <1>4, <1>8, <1>15
  <2> QED
    BY <1>1, <2>1, <2>2, TakesIf
<1>18. Takes("ChannelResponse", e3, Read(x), Read(q))
  <2>1. ASSUME w.assigned_id # <<>>
        PROVE  Takes("ChannelResponse", PutString(7, w.assigned_id), Read(x), Read(q))
    <3>1. PICK f : f = [tag |-> Tag(7, Delimited), bytes |-> w.assigned_id]
      OBVIOUS
    <3>2. ChannelResponseField(x, f) = Read([x EXCEPT !.assigned_id = w.assigned_id])
      <4>1. f.tag = 58 /\ f.bytes = w.assigned_id
        BY <3>1, TagsDiffer
      <4> QED
        BY <4>1, TagsDiffer DEF ChannelResponseField
    <3>3. FoldStep("ChannelResponse", Read(x), f) = Read(q)
      BY <1>3, <1>13, <2>1, <3>2, StepIs
    <3>4. FieldGives("ChannelResponse", x, Tag(7, Delimited), w.assigned_id, q)
      BY <3>1, <3>3 DEF FieldGives
    <3> QED
      BY <1>4, <3>4, StringTakes
  <2>2. ~ (w.assigned_id # <<>>) => Read(x) = Read(q)
    BY <1>3, <1>4, <1>9, <1>13, ResponseNamedIs
  <2> QED
    BY <1>1, <2>1, <2>2, TakesIf
<1>19. Takes("ChannelResponse", e1 \o e2, Read(r), Read(x))
  BY <1>16, <1>17, TakesJoin
<1> QED
  BY <1>2, <1>3, <1>14, <1>18, <1>19, TakesJoin

-----------------------------------------------------------------------------
(* The buffer.  For what it holds: the messages, the empty one, the class  *)
(* that reads them, and the steps of the folds over what was written.      *)

Messages(k) == IF k = "request" THEN RequestMessages ELSE ResponseMessages
EmptyMessage(k) == IF k = "request" THEN EmptyRequest ELSE EmptyChannelResponse
Class(k) == IF k = "request" THEN "Request" ELSE "ChannelResponse"
Summing(k) == IF k = "request" THEN "RequestSize" ELSE "ChannelResponseSize"
Merging(k) == IF k = "request" THEN "MergeRequest" ELSE "MergeChannelResponse"

LEMMA FoldsAppend ==
    ASSUME NEW k, NEW S, NEW q \in Seq(S), NEW m \in S, NEW base, NEW r, Folds(k, base, q, r)
    PROVE  Folds(k, base, Append(q, m), FoldStep(k, r, m))
<1>1. Folds(k, r, <<m>>, FoldStep(k, r, m))
  BY FoldsOne
<1>2. PICK p : p = <<m>>
  OBVIOUS
<1>3. p \in Seq(S)
  BY <1>2
<1>4. Folds(k, base, q \o p, FoldStep(k, r, m))
  BY <1>1, <1>2, <1>3, FoldsJoin
<1>5. Append(q, m) = q \o <<m>>
  BY AppendIsConcat
<1> QED
  BY <1>2, <1>4, <1>5

\* What the bytes of a message, its size and merging it have in common.
LEMMA MessageIsWritten ==
    ASSUME kind \in {"request", "response"}, NEW m \in Messages(kind), NEW r \in Messages(kind),
           NEW n
    PROVE  \E size :
             /\ Holds(Bytes(m), size) /\ FoldStep(Summing(kind), n, m) = size + n
             /\ Takes(Class(kind), Bytes(m), Read(r), Read(FoldStep(Merging(kind), r, m)))
             /\ FoldStep(Merging(kind), r, m) \in Messages(kind)
<1>1. CASE kind = "request"
  <2>1. m \in RequestMessages /\ r \in RequestMessages /\ Messages(kind) = RequestMessages
    BY <1>1 DEF Messages
  <2>2. PICK size : size = RequestSize(m)
    OBVIOUS
  <2>3. Holds(Bytes(m), size)
    BY <1>1, <2>1, <2>2, RequestHolds DEF Bytes
  <2>4. FoldStep(Summing(kind), n, m) = size + n
    BY <1>1, <2>2 DEF Summing, FoldStep
  <2>5. FoldStep(Merging(kind), r, m) = MergeRequest(r, m)
    BY <1>1 DEF Merging, FoldStep
  <2>6. Class(kind) = "Request" /\ Bytes(m) = RequestBytes(m)
    BY <1>1 DEF Class, Bytes
  <2> QED
    BY <2>1, <2>3, <2>4, <2>5, <2>6, RequestTakes
<1>2. CASE kind = "response"
  <2>1. m \in ResponseMessages /\ r \in ResponseMessages /\ Messages(kind) = ResponseMessages
    BY <1>2 DEF Messages
  <2>2. PICK size : size = ChannelResponseSize(m)
    OBVIOUS
  <2>3. Holds(Bytes(m), size)
    BY <1>2, <2>1, <2>2, ChannelResponseHolds DEF Bytes
  <2>4. FoldStep(Summing(kind), n, m) = size + n
    BY <1>2, <2>2 DEF Summing, FoldStep
  <2>5. FoldStep(Merging(kind), r, m) = MergeChannelResponse(r, m)
    BY <1>2 DEF Merging, FoldStep
  <2>6. Class(kind) = "ChannelResponse" /\ Bytes(m) = ChannelResponseBytes(m)
    BY <1>2 DEF Class, Bytes
  <2> QED
    BY <2>1, <2>3, <2>4, <2>5, <2>6, ResponseTakes
<1> QED
  BY <1>1, <1>2

LEMMA EmptyMessagesAre ==
    ASSUME NEW k \in {"request", "response"} PROVE EmptyMessage(k) \in Messages(k)
<1>1. EmptyRequest \in RequestMessages
  <2>1. EmptyRequest = AsNothing(<<>>)
    BY DEF EmptyRequest, AsNothing, RequestOf, Unset
  <2> QED
    BY <2>1, AlternativesAre, EmptiesAre
<1>2. EmptyChannelResponse \in ResponseMessages
  <2>1. EmptyChannelResponse = ResponseRecord("none", EmptyValue, <<>>, <<>>)
    BY DEF EmptyChannelResponse, ResponseRecord
  <2> QED
    BY <2>1, ResponsesHave, EmptiesAre
<1> QED
  BY <1>1, <1>2 DEF EmptyMessage, Messages

\* The buffer is as long as the sizes of what was written say, and the loop of the class
\* takes the empty message to the merge of what was written.
CodecInv ==
    /\ kind \in {"request", "response"}
    /\ written \in Seq(Messages(kind))
    /\ \E total, merged :
         /\ merged \in Messages(kind)
         /\ Folds(Summing(kind), 0, written, total)
         /\ Folds(Merging(kind), EmptyMessage(kind), written, merged)
         /\ Holds(buffer, total)
         /\ Takes(Class(kind), buffer, Read(EmptyMessage(kind)), Read(merged))

LEMMA CodecInvHolds == CodecSpec => []CodecInv
<1>1. CodecInit => CodecInv
  <2> SUFFICES ASSUME CodecInit PROVE CodecInv
    OBVIOUS
  <2>1. /\ kind \in {"request", "response"} /\ written = <<>> /\ buffer = <<>>
        /\ written \in Seq(Messages(kind))
    BY DEF CodecInit
  <2>2. Folds(Summing(kind), 0, written, 0)
    BY <2>1, FoldsNothing
  <2>3. Folds(Merging(kind), EmptyMessage(kind), written, EmptyMessage(kind))
    BY <2>1, FoldsNothing
  <2>4. Holds(buffer, 0)
    BY <2>1, NoBytes
  <2>5. Takes(Class(kind), buffer, Read(EmptyMessage(kind)), Read(EmptyMessage(kind)))
    BY <2>1, TakesNothing
  <2>6. EmptyMessage(kind) \in Messages(kind)
    BY <2>1, EmptyMessagesAre
  <2> QED
    BY <2>1, <2>2, <2>3, <2>4, <2>5, <2>6 DEF CodecInv
<1>2. CodecInv /\ [CodecNext]_codecVars => CodecInv'
  <2> SUFFICES ASSUME CodecInv, [CodecNext]_codecVars PROVE CodecInv'
    OBVIOUS
  <2>1. ASSUME NEW m \in Sent, Serialize(m) PROVE CodecInv'
    <3>1. PICK total, merged :
            /\ merged \in Messages(kind)
            /\ Folds(Summing(kind), 0, written, total)
            /\ Folds(Merging(kind), EmptyMessage(kind), written, merged)
            /\ Holds(buffer, total)
            /\ Takes(Class(kind), buffer, Read(EmptyMessage(kind)), Read(merged))
      BY DEF CodecInv
    <3>2. kind \in {"request", "response"} /\ written \in Seq(Messages(kind))
      BY DEF CodecInv
    <3>3. m \in Messages(kind)
      BY <3>2, MessagesAssumption DEF Sent, Messages
    <3>4. PICK size, sum, r :
            /\ sum = FoldStep(Summing(kind), total, m)
            /\ r = FoldStep(Merging(kind), merged, m)
            /\ Holds(Bytes(m), size) /\ sum = size + total
            /\ Takes(Class(kind), Bytes(m), Read(merged), Read(r))
            /\ r \in Messages(kind)
      BY <3>1, <3>2, <3>3, MessageIsWritten
    <3>5. Holds(buffer \o Bytes(m), sum)
      <4>1. Holds(buffer \o Bytes(m), total + size)
        BY <3>1, <3>4, HoldsJoin
      <4>2. total + size = size + total
        BY <3>1, <3>4 DEF Holds
      <4> QED
        BY <3>4, <4>1, <4>2
    <3>6. Takes(Class(kind), buffer \o Bytes(m), Read(EmptyMessage(kind)), Read(r))
      BY <3>1, <3>4, TakesJoin
    <3>7. Folds(Summing(kind), 0, Append(written, m), sum)
      BY <3>1, <3>2, <3>3, <3>4, FoldsAppend
    <3>8. Folds(Merging(kind), EmptyMessage(kind), Append(written, m), r)
      BY <3>1, <3>2, <3>3, <3>4, FoldsAppend
    <3>9. Append(written, m) \in Seq(Messages(kind))
      BY <3>2, <3>3
    <3>10. /\ written' = Append(written, m) /\ buffer' = buffer \o Bytes(m)
           /\ kind' = kind
      BY <2>1 DEF Serialize
    <3> QED
      BY <3>2, <3>4, <3>5, <3>6, <3>7, <3>8, <3>9, <3>10 DEF CodecInv
  <2>2. CASE UNCHANGED codecVars
    BY <2>2 DEF CodecInv, codecVars
  <2> QED
    BY <2>1, <2>2 DEF CodecNext
<1> QED
  BY <1>1, <1>2, PTL DEF CodecSpec

LEMMA FoldsAreLeft ==
    ASSUME NEW k, NEW base, NEW S, NEW q \in Seq(S), NEW r, Folds(k, base, q, r)
    PROVE  LeftFold(k, base, q) = r
<1>1. PICK n \in Nat : n = Len(q) /\ DOMAIN q = 1 .. n
  OBVIOUS
<1>2. Folds(k, base, q, LeftFold(k, base, q))
  BY <1>1, LeftFolds
<1> QED
  BY <1>1, <1>2, FoldsUnique

\* ByteSizeLong and the serialiser of every class of exchange.pb.cc agree: whatever
\* messages have been written one behind another, the buffer is as long as the sizes
\* that were computed before say.
THEOREM Sizes == CodecSpec => []SizesAgree
<1>1. CodecInv => SizesAgree
  <2> SUFFICES ASSUME CodecInv PROVE SizesAgree
    OBVIOUS
  <2>1. PICK total : Folds(Summing(kind), 0, written, total) /\ Holds(buffer, total)
    BY DEF CodecInv
  <2>2. written \in Seq(Messages(kind)) /\ kind \in {"request", "response"}
    BY DEF CodecInv
  <2>3. LeftFold(Summing(kind), 0, written) = total
    BY <2>1, <2>2, FoldsAreLeft
  <2>4. FoldLeft(LAMBDA n, m : Size(m) + n, 0, written) = LeftFold(Summing(kind), 0, written)
    <3>1. CASE kind = "request"
      BY <3>1 DEF Size, Summing, LeftFold, FoldLeft, MapThenFoldSet, FoldStep
    <3>2. CASE kind = "response"
      BY <3>2 DEF Size, Summing, LeftFold, FoldLeft, MapThenFoldSet, FoldStep
    <3> QED
      BY <2>2, <3>1, <3>2
  <2> QED
    BY <2>1, <2>3, <2>4 DEF SizesAgree, Holds
<1> QED
  BY <1>1, CodecInvHolds, PTL

\* MergePartialFromCodedStream of every class of exchange.pb.cc is the inverse of its
\* serialiser: whatever messages have been written one behind another, reading the buffer
\* succeeds and gives what MergeFrom makes of them, which of one message is the message.
THEOREM Merges == CodecSpec => []ReadingMerges
<1>1. CodecInv => ReadingMerges
  <2> SUFFICES ASSUME CodecInv PROVE ReadingMerges
    OBVIOUS
  <2>1. PICK merged :
          /\ Folds(Merging(kind), EmptyMessage(kind), written, merged)
          /\ Takes(Class(kind), buffer, Read(EmptyMessage(kind)), Read(merged))
    BY DEF CodecInv
  <2>2. written \in Seq(Messages(kind)) /\ kind \in {"request", "response"}
    BY DEF CodecInv
  <2>3. LeftFold(Merging(kind), EmptyMessage(kind), written) = merged
    BY <2>1, <2>2, FoldsAreLeft
  <2>4. Reading(Class(kind), Read(EmptyMessage(kind)), buffer) = Read(merged)
    BY <2>1, TakesReads
  <2>5. Parsed = Reading(Class(kind), Read(EmptyMessage(kind)), buffer)
    BY <2>2, ParsersAre DEF Parsed, Class, EmptyMessage
  <2>6. Merged = LeftFold(Merging(kind), EmptyMessage(kind), written)
    <3>1. CASE kind = "request"
      <4>1. FoldLeft(MergeRequest, EmptyRequest, written)
              = LeftFold("MergeRequest", EmptyRequest, written)
        BY DEF LeftFold, FoldLeft, MapThenFoldSet, FoldStep
      <4> QED
        BY <3>1, <4>1 DEF Merged, Merging, EmptyMessage
    <3>2. CASE kind = "response"
      <4>1. FoldLeft(MergeChannelResponse, EmptyChannelResponse, written)
              = LeftFold("MergeChannelResponse", EmptyChannelResponse, written)
        BY DEF LeftFold, FoldLeft, MapThenFoldSet, FoldStep
      <4> QED
        BY <3>2, <4>1 DEF Merged, Merging, EmptyMessage
    <3> QED
      BY <2>2, <3>1, <3>2
  <2> QED
    BY <2>3, <2>4, <2>5, <2>6 DEF ReadingMerges
<1> QED
  BY <1>1, CodecInvHolds, PTL

-----------------------------------------------------------------------------
(* A response that is read as a request.                                   *)

\* The fields of a value are those of a method call: a string is its object, and its numbers
\* are unknown fields, which are skipped.
LEMMA ValueIsCall ==
    ASSUME NEW v \in ValueMessages, NEW n, NEW a, NEW s, NEW r, NEW p, NEW t,
           NEW m, m = MethodCallOf(n, <<>>, a, s, r, p, t),
           NEW q, q = MethodCallOf(n, v.string, a, s, r, p, t)
    PROVE  Takes("MethodCallRequest", ValueBytes(v), Read(m), Read(q))
<1>1. PICK e1, e2, e3 :
         /\ e1 = If(has_string_value(v), PutString(2, v.string))
         /\ e2 = If(has_int_value(v), PutFixed(3, v.int))
         /\ e3 = If(has_uint_value(v), PutFixed(5, v.uint))
  OBVIOUS
<1>2. ValueBytes(v) = e1 \o e2 \o e3
  BY <1>1 DEF ValueBytes
<1>3. /\ v.string \in ByteStrings /\ v.int \in Int /\ v.uint \in Int
      /\ v.case # "string" => v.string = <<>>
  BY DEF ValueMessages, Int64s, Uint64s
<1>4. Takes("MethodCallRequest", e1, Read(m), Read(q))
  <2>1. FieldGives("MethodCallRequest", m, Tag(2, Delimited), v.string, q)
    BY ObjectIdIsRead
  <2>2. Takes("MethodCallRequest", PutString(2, v.string), Read(m), Read(q))
    BY <1>3, <2>1, StringTakes
  <2>3. ~ has_string_value(v) => Read(m) = Read(q)
    BY <1>3 DEF has_string_value
  <2> QED
    BY <1>1, <2>2, <2>3, TakesIf
<1>5. ASSUME NEW field \in {3, 5}, NEW x \in Int
      PROVE  Takes("MethodCallRequest", PutFixed(field, x), Read(q), Read(q))
  <2>1. PICK f : f = [tag |-> Tag(field, Fixed64), bytes |-> FixedBytes(x)]
    OBVIOUS
  <2>2. Encodes(PutFixed(field, x), <<f>>)
    BY <2>1, FixedEncodes
  <2>3. f.tag = 25 \/ f.tag = 41
    BY <2>1, TagsDiffer
  <2>4. MethodCallRequestField(q, f) = Read(q)
    BY <2>3, TagsDiffer DEF MethodCallRequestField
  <2>5. FoldStep("MethodCallRequest", Read(q), f) = Read(q)
    BY <2>4, StepIs
  <2> QED
    BY <2>2, <2>5, TakesField
<1>6. Takes("MethodCallRequest", e2, Read(q), Read(q))
  BY <1>1, <1>3, <1>5, TakesIf
<1>7. Takes("MethodCallRequest", e3, Read(q), Read(q))
  BY <1>1, <1>3, <1>5, TakesIf
<1>8. Takes("MethodCallRequest", e1 \o e2, Read(m), Read(q))
  BY <1>4, <1>6, TakesJoin
<1> QED
  BY <1>2, <1>7, <1>8, TakesJoin

\* What the receiver makes of a response without an exception.
LEMMA ResponseIsRequest ==
    ASSUME NEW w \in ResponseMessages, w.case # "exception_message"
    PROVE  \E r : /\ ParseRequest(ChannelResponseBytes(w)) = Read(r)
                  /\ r.assigned_id = w.assigned_id
                  /\ r.case = IF w.case = "return_value" THEN "method_call" ELSE "none"
                  /\ r.method_call.methodname = <<>> /\ r.method_call.type = <<>>
<1>1. PICK e1, e2, e3, p1 :
         /\ p1 = PutMessage(1, ValueSize(w.return_value), ValueBytes(w.return_value))
         /\ e1 = If(w.case = "return_value", p1)
         /\ e2 = If(w.case = "exception_message", PutString(3, w.exception_message))
         /\ e3 = If(w.assigned_id # <<>>, PutString(7, w.assigned_id))
  OBVIOUS
<1>2. ChannelResponseBytes(w) = e1 \o e2 \o e3
  BY <1>1 DEF ChannelResponseBytes
<1>3. w.return_value \in ValueMessages /\ w.assigned_id \in ByteStrings
  BY DEF ResponseMessages
<1>4. PICK empty, m, z, id :
         /\ empty = EmptyMethodCallRequest /\ z = AsNothing(<<>>) /\ id = w.assigned_id
         /\ m = MethodCallOf(<<>>, w.return_value.string, <<>>, Unset, Unset, Unset, <<>>)
  OBVIOUS
<1>5. empty = MethodCallOf(<<>>, <<>>, <<>>, Unset, Unset, Unset, <<>>)
  BY <1>4 DEF EmptyMethodCallRequest, MethodCallOf, Unset
<1>6. /\ z \in RequestMessages /\ z.assigned_id = <<>> /\ z.method_call = empty
      /\ z = EmptyRequest
  <2>1. z = EmptyRequest
    BY <1>4 DEF EmptyRequest, AsNothing, RequestOf, Unset
  <2> QED
    BY <1>4, <2>1, AlternativesAre, EmptiesAre, RequestFields DEF AsNothing
<1>7. PICK x, q :
         /\ x = IF w.case = "return_value" THEN AsMethodCall(m, <<>>) ELSE z
         /\ q = IF w.case = "return_value" THEN AsMethodCall(m, id) ELSE AsNothing(id)
  OBVIOUS
<1>8. Takes("Request", e1, Read(z), Read(x))
  <2>1. ASSUME w.case = "return_value" PROVE Takes("Request", p1, Read(z), Read(x))
    <3>1. PICK s, n : s = ValueBytes(w.return_value) /\ n = ValueSize(w.return_value)
      OBVIOUS
    <3>2. Takes("MethodCallRequest", s, Read(z.method_call), Read(m))
      BY <1>3, <1>4, <1>5, <1>6, <3>1, ValueIsCall
    <3>3. Holds(s, n)
      BY <1>3, <3>1, ValueHolds
    <3>4. Takes("Request", PutMessage(1, n, s), Read(z), Read(AsMethodCall(m, z.assigned_id)))
      BY <1>6, <3>2, <3>3, NestedCallIsTaken
    <3> QED
      BY <1>1, <1>6, <1>7, <2>1, <3>1, <3>4
  <2>2. ~ (w.case = "return_value") => Read(z) = Read(x)
    BY <1>7
  <2> QED
    BY <1>1, <2>1, <2>2, TakesIf
<1>9. Takes("Request", e2, Read(x), Read(x))
  BY <1>1, TakesIf
<1>10. [x EXCEPT !.assigned_id = id] = q
  BY <1>4, <1>7, AssignedIdChanges DEF AsMethodCall, AsNothing
<1>11. Takes("Request", e3, Read(x), Read(q))
  <2>1. Takes("Request", PutString(7, w.assigned_id), Read(x), Read(q))
    BY <1>3, <1>4, <1>10, AssignedIdIsTaken
  <2>2. ~ (w.assigned_id # <<>>) => Read(x) = Read(q)
    BY <1>4, <1>7
  <2> QED
    BY <1>1, <2>1, <2>2, TakesIf
<1>12. Takes("Request", e1 \o e2, Read(z), Read(x))
  BY <1>8, <1>9, TakesJoin
<1>13. Takes("Request", ChannelResponseBytes(w), Read(z), Read(q))
  BY <1>2, <1>11, <1>12, TakesJoin
<1>14. ParseRequest(ChannelResponseBytes(w)) = Read(q)
  BY <1>6, <1>13, TakesReads, ParsersAre
<1>15. /\ q.assigned_id = id
       /\ q.case = IF w.case = "return_value" THEN "method_call" ELSE "none"
       /\ q.method_call = IF w.case = "return_value" THEN m ELSE empty
  BY <1>4, <1>7, RequestFields DEF AsMethodCall, AsNothing
<1>16. /\ m.methodname = <<>> /\ m.type = <<>>
       /\ empty.methodname = <<>> /\ empty.type = <<>>
  BY <1>4, <1>5 DEF MethodCallOf
<1> QED
  BY <1>4, <1>14, <1>15, <1>16

\* What the buffer holds of at most one message.
FirstMessage ==
    /\ kind \in {"request", "response"}
    /\ written \in Seq(Messages(kind))
    /\ Len(written) = 0 => buffer = <<>>
    /\ Len(written) = 1 => buffer = Bytes(written[1])

\* The reader of Request in exchange.pb.cc, given the bytes of a response: whatever value
\* or identifier the response has, the request names no method and no type.
THEOREM ResponsesAreNoCalls == CodecSpec => []ResponsesNameNoMethod
<1>1. CodecInit => FirstMessage
  BY DEF CodecInit, FirstMessage
<1>2. FirstMessage /\ [CodecNext]_codecVars => FirstMessage'
  <2> SUFFICES ASSUME FirstMessage, [CodecNext]_codecVars PROVE FirstMessage'
    OBVIOUS
  <2>1. ASSUME NEW m \in Sent, Serialize(m) PROVE FirstMessage'
    <3>1. PICK w, b : w = Append(written, m) /\ b = buffer \o Bytes(m)
      OBVIOUS
    <3>2. kind' = kind /\ written' = w /\ buffer' = b
      BY <2>1, <3>1 DEF Serialize
    <3>3. kind \in {"request", "response"} /\ written \in Seq(Messages(kind))
      BY DEF FirstMessage
    <3>4. m \in Messages(kind)
      BY <3>3, MessagesAssumption DEF Sent, Messages
    <3>5. w \in Seq(Messages(kind)) /\ Len(w) = Len(written) + 1 /\ Len(written) \in Nat
      BY <3>1, <3>3, <3>4
    <3>6. Len(w) = 1 => b = Bytes(w[1])
      <4>1. SUFFICES ASSUME Len(w) = 1 PROVE b = Bytes(w[1])
        OBVIOUS
      <4>2. buffer = <<>>
        BY <3>5, <4>1 DEF FirstMessage
      <4>3. w[1] = m
        BY <3>1, <3>3, <3>5, <4>1
      <4>4. PICK s, size : s = Bytes(m) /\ Holds(s, size)
        BY <3>3, <3>4, MessageIsWritten
      <4>5. b = <<>> \o s
        BY <3>1, <4>2, <4>4
      <4>6. <<>> \o s = s
        BY <4>4, ConcatEmptySeq DEF Holds, IsString
      <4> QED
        BY <4>3, <4>4, <4>5, <4>6
    <3> QED
      BY <3>2, <3>3, <3>5, <3>6 DEF FirstMessage, Bytes
  <2>2. CASE UNCHANGED codecVars
    BY <2>2 DEF FirstMessage, codecVars, Bytes
  <2> QED
    BY <2>1, <2>2 DEF CodecNext
<1>3. FirstMessage => ResponsesNameNoMethod
  <2> SUFFICES ASSUME FirstMessage, kind = "response", Len(written) = 1,
                      written[1].case # "exception_message"
               PROVE  ResponsesNameNoMethod
    BY DEF ResponsesNameNoMethod
  <2>1. PICK w : w = written[1]
    OBVIOUS
  <2>2. w \in ResponseMessages
    BY <2>1 DEF FirstMessage, Messages
  <2>3. buffer = ChannelResponseBytes(w)
    BY <2>1 DEF FirstMessage, Bytes
  <2>4. PICK r : /\ ParseRequest(buffer) = Read(r)
                 /\ r.assigned_id = w.assigned_id
                 /\ r.case = IF w.case = "return_value" THEN "method_call" ELSE "none"
                 /\ r.method_call.methodname = <<>> /\ r.method_call.type = <<>>
    BY <2>1, <2>2, <2>3, ResponseIsRequest
  <2>5. PICK y : y = ParseRequest(buffer) /\ y.ok /\ y.message = r
    BY <2>4 DEF Read
  <2> QED
    BY <2>1, <2>4, <2>5 DEF ResponsesNameNoMethod
<1> QED
  BY <1>1, <1>2, <1>3, PTL DEF CodecSpec

=============================================================================
