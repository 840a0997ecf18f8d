-------------------------- MODULE ByteFramingProofs --------------------------
(***************************************************************************)
(* Proofs about ByteFraming, for every pair of languages and every size of *)
(* a buffer: where frames lie in the stream, that the bytes put by the     *)
(* writer are all in its buffer, in its writes or in the socket, that      *)
(* within the limits the socket holds whole fields, and that the reader    *)
(* is then always at the beginning of a field.                             *)
(***************************************************************************)
EXTENDS ByteFraming, TLAPS

-----------------------------------------------------------------------------
(* The inductive invariant, in layers. *)

(* Layer 1: the stream. *)

Sum(s) == IF s = <<>> THEN 0 ELSE IF Len(s) = 1 THEN s[1] ELSE s[1] + s[2]

\* What write has put of the frame that it is in.
Offset == IF wpc = "length" THEN 0 ELSE IF wpc = "tag" THEN Width ELSE 2 * Width

\* What was put of all that was passed to write.
PutSoFar == IF wpc \in Fields THEN Last.at + Offset ELSE Queued

Layout ==
    /\ frames # <<>> => frames[1].at = 0
    /\ \A i, k \in DOMAIN frames : i < k => frames[i].at + Size(frames[i]) <= frames[k].at
    /\ \A i \in DOMAIN frames : i + 1 \in DOMAIN frames =>
                                   frames[i + 1].at = frames[i].at + Size(frames[i])
    /\ wpc \in Fields => frames # <<>>

\* No byte is lost between write and the socket, or read before it was written.
Accounts ==
    /\ Len(chunks) <= 2
    /\ ~ended => written + Sum(chunks) + held = PutSoFar
    /\ ended => wpc = "idle" /\ chunks = <<>>
    /\ written <= Queued
    /\ link.writer = "cpp" => held = 0
    /\ buffered <= taken
    /\ got <= Position
    /\ frames # <<>> => Queued - Position <= Last.ahead

(* Layer 2: within the limits, the socket holds whole fields. *)

\* A field ends or begins here.
Boundary(x) ==
    \/ x = Queued
    \/ \E i \in DOMAIN frames :
          x = frames[i].at \/ x = frames[i].at + Width \/ x = frames[i].at + 2 * Width

WholeWrites ==
    /\ Boundary(written)
    /\ \A i \in DOMAIN chunks : chunks[i] <= Segment
    /\ Len(chunks) = 2 => Boundary(written + chunks[1])
    /\ Boundary(written + Sum(chunks))
    /\ link.writer = "go" /\ wpc \in Fields => held = Last.held + Offset

(* Layer 3: the reader is in step. *)

Following == Len(received) + 1

FieldStart == Position - got

InStep ==
    /\ Len(received) <= Len(frames)
    /\ \/ rpc = "length" /\ Following \notin DOMAIN frames /\ FieldStart = Queued
       \/ rpc = "length" /\ Following \in DOMAIN frames /\ FieldStart = frames[Following].at
       \/ /\ rpc = "tag" /\ Following \in DOMAIN frames
          /\ FieldStart = frames[Following].at + Width
          /\ length = frames[Following].length
       \/ /\ rpc = "data" /\ Following \in DOMAIN frames
          /\ FieldStart = frames[Following].at + 2 * Width
          /\ length = frames[Following].length
    /\ got = 0 \/ (Looping /\ got < Need)
    /\ Looping \/ Boundary(taken)

\* The writer has ended in a frame, and the reader did not look at the end.
AtEnd ==
    /\ ended /\ taken = written /\ buffered = 0 /\ got = 0
    /\ \/ rpc = "length"
       \/ /\ rpc = "data" /\ Following \in DOMAIN frames /\ Cut(frames[Following])
          /\ link.reader \in {"go", "python"}

Intact ==
    \A i \in DOMAIN received :
        /\ i \in DOMAIN frames
        /\ \/ received[i] = [from   |-> frames[i].at + 2 * Width,
                             upto   |-> frames[i].at + Size(frames[i]),
                             length |-> frames[i].length]
           \/ Cut(frames[i]) /\ link.reader \in {"go", "python"}

StreamInv == TypeOK /\ Layout /\ Accounts
FieldInv == AllFit => Looping \/ WholeWrites
StepInv == AllFit => ~split /\ Intact /\ (InStep \/ AtEnd \/ rpc = "closed")

IInv == StreamInv /\ FieldInv /\ StepInv

-----------------------------------------------------------------------------
(* Sequences, minima and constants. *)

LEMMA AppendOne ==
    ASSUME NEW S, NEW q \in Seq(S), NEW e \in S
    PROVE  /\ Append(q, e) \in Seq(S)
           /\ Len(Append(q, e)) = Len(q) + 1 /\ Len(q) \in Nat
           /\ DOMAIN q = 1 .. Len(q) /\ DOMAIN Append(q, e) = 1 .. Len(q) + 1
           /\ \A i \in DOMAIN q : Append(q, e)[i] = q[i]
           /\ Append(q, e)[Len(q) + 1] = e
OBVIOUS

LEMMA SeqBasics ==
    ASSUME NEW S, NEW q \in Seq(S)
    PROVE  /\ Len(q) \in Nat /\ DOMAIN q = 1 .. Len(q)
           /\ q = <<>> <=> Len(q) = 0
           /\ \A i \in 1 .. Len(q) : q[i] \in S
<1>1. Len(q) \in Nat /\ DOMAIN q = 1 .. Len(q) /\ \A i \in 1 .. Len(q) : q[i] \in S
  OBVIOUS
<1>2. q = <<>> <=> Len(q) = 0
  OBVIOUS
<1> QED
  BY <1>1, <1>2

LEMMA TailBasics ==
    ASSUME NEW S, NEW q \in Seq(S), q # <<>>
    PROVE  /\ Tail(q) \in Seq(S)
           /\ Len(Tail(q)) = Len(q) - 1
           /\ \A i \in 1 .. Len(q) - 1 : Tail(q)[i] = q[i + 1]
OBVIOUS

LEMMA DifferenceTyped == ASSUME NEW a \in Nat, NEW b \in Nat, b <= a PROVE a - b \in Nat
OBVIOUS

LEMMA OneOrTwo == ASSUME NEW n \in Nat, n <= 2, n # 0 PROVE n = 1 \/ n = 2
OBVIOUS

LEMMA MinOfTwo ==
    ASSUME NEW a \in Int, NEW b \in Int
    PROVE  Min({a, b}) = IF a <= b THEN a ELSE b
<1>1. \E x \in {a, b} : \A y \in {a, b} : x <= y
  OBVIOUS
<1>2. Min({a, b}) \in {a, b} /\ \A y \in {a, b} : Min({a, b}) <= y
  BY <1>1 DEF Min
<1> QED
  BY <1>2

Writes == {s \in Seq(Nat \ {0}) : Len(s) <= 2}

LEMMA SumTyped ==
    ASSUME NEW s \in Writes
    PROVE  /\ Sum(s) \in Nat
           /\ s = <<>> => Sum(s) = 0
           /\ s # <<>> => s[1] \in Nat /\ s[1] > 0 /\ s[1] <= Sum(s) /\ 1 \in DOMAIN s
<1>a. s \in Seq(Nat \ {0}) /\ Len(s) <= 2
  BY DEF Writes
<1>1. /\ Len(s) \in Nat /\ Len(s) <= 2
      /\ \A i \in 1 .. Len(s) : s[i] \in Nat \ {0}
      /\ DOMAIN s = 1 .. Len(s) /\ (s = <<>> <=> Len(s) = 0)
  BY <1>a, SeqBasics
<1>2. CASE Len(s) = 0
  <2>1. s = <<>>
    BY <1>1, <1>2, Zenon
  <2> QED
    BY <2>1 DEF Sum
<1>3. CASE Len(s) = 1
  BY <1>1, <1>3 DEF Sum
<1>4. CASE Len(s) = 2
  BY <1>1, <1>4 DEF Sum
<1> QED
  BY <1>1, <1>2, <1>3, <1>4

LEMMA SumTail ==
    ASSUME NEW s \in Writes, s # <<>>
    PROVE  /\ Tail(s) \in Writes
           /\ Sum(Tail(s)) = Sum(s) - s[1]
           /\ Len(Tail(s)) <= 1
           /\ Len(s) = 2 => Len(Tail(s)) = 1 /\ Tail(s)[1] = s[2]
           /\ Len(s) = 1 => Tail(s) = <<>>
<1>a. s \in Seq(Nat \ {0}) /\ Len(s) <= 2
  BY DEF Writes
<1>1. /\ s \in Seq(Nat \ {0}) /\ (Len(s) = 1 \/ Len(s) = 2)
      /\ \A i \in 1 .. Len(s) : s[i] \in Nat \ {0}
  <2>1. Len(s) \in Nat /\ Len(s) # 0
    BY <1>a, SeqBasics
  <2>2. Len(s) = 1 \/ Len(s) = 2
    BY <1>a, <2>1, OneOrTwo
  <2>3. \A i \in 1 .. Len(s) : s[i] \in Nat \ {0}
    BY <1>a, SeqBasics
  <2> QED
    BY <1>a, <2>2, <2>3
<1>2. /\ Tail(s) \in Seq(Nat \ {0}) /\ Len(Tail(s)) = Len(s) - 1
      /\ Len(s) = 2 => Tail(s)[1] = s[2]
      /\ (Tail(s) = <<>> <=> Len(Tail(s)) = 0)
  <2>1. /\ Tail(s) \in Seq(Nat \ {0})
        /\ Len(Tail(s)) = Len(s) - 1
        /\ \A i \in 1 .. Len(s) - 1 : Tail(s)[i] = s[i + 1]
    BY <1>a, TailBasics
  <2>2. Tail(s) = <<>> <=> Len(Tail(s)) = 0
    BY <2>1, SeqBasics
  <2>3. Len(s) = 2 => 1 \in 1 .. Len(s) - 1 /\ 1 + 1 = 2
    OBVIOUS
  <2> QED
    BY <2>1, <2>2, <2>3
<1>3. CASE Len(s) = 1
  BY <1>1, <1>2, <1>3 DEF Sum, Writes
<1>4. CASE Len(s) = 2
  BY <1>1, <1>2, <1>4 DEF Sum, Writes
<1> QED
  BY <1>1, <1>3, <1>4

LEMMA SumCut ==
    ASSUME NEW s \in Writes, s # <<>>, NEW k \in Nat, k < s[1]
    PROVE  LET c == [s EXCEPT ![1] = @ - k] IN
              c \in Writes /\ c # <<>> /\ Sum(c) = Sum(s) - k /\ Len(c) = Len(s)
<1>a. s \in Seq(Nat \ {0}) /\ Len(s) <= 2
  BY DEF Writes
<1>1. /\ s \in Seq(Nat \ {0}) /\ (Len(s) = 1 \/ Len(s) = 2)
      /\ \A i \in 1 .. Len(s) : s[i] \in Nat \ {0}
  <2>1. Len(s) \in Nat /\ Len(s) # 0
    BY <1>a, SeqBasics
  <2>2. Len(s) = 1 \/ Len(s) = 2
    BY <1>a, <2>1, OneOrTwo
  <2>3. \A i \in 1 .. Len(s) : s[i] \in Nat \ {0}
    BY <1>a, SeqBasics
  <2> QED
    BY <1>a, <2>2, <2>3
<1>2. PICK c : c = [s EXCEPT ![1] = @ - k]
  OBVIOUS
<1>3. c \in Seq(Nat \ {0}) /\ Len(c) = Len(s)
  BY <1>1, <1>2
<1>4. c[1] = s[1] - k /\ (Len(s) = 2 => c[2] = s[2])
  BY <1>1, <1>2
<1>5. c # <<>>
  BY <1>1, <1>3
<1>6. Sum(c) = Sum(s) - k
  <2>1. CASE Len(s) = 1
    BY <1>1, <1>3, <1>4, <1>5, <2>1 DEF Sum
  <2>2. CASE Len(s) = 2
    BY <1>1, <1>3, <1>4, <1>5, <2>2 DEF Sum
  <2> QED
    BY <1>1, <2>1, <2>2
<1> QED
  BY <1>1, <1>2, <1>3, <1>5, <1>6 DEF Writes

LEMMA SumOne ==
    ASSUME NEW a \in Nat, a > 0
    PROVE  <<a>> \in Writes /\ Sum(<<a>>) = a /\ Len(<<a>>) = 1 /\ <<a>>[1] = a
BY DEF Writes, Sum

LEMMA SumTwo ==
    ASSUME NEW a \in Nat, NEW b \in Nat, a > 0, b > 0
    PROVE  /\ <<a, b>> \in Writes /\ Sum(<<a, b>>) = a + b /\ Len(<<a, b>>) = 2
           /\ <<a, b>>[1] = a /\ <<a, b>>[2] = b
BY DEF Writes, Sum

LEMMA SumNone == <<>> \in Writes /\ Sum(<<>>) = 0 /\ Len(<<>>) = 0
BY DEF Writes, Sum

LEMMA Sizes ==
    /\ Width \in Nat /\ WriteBuffer \in Nat /\ ReadBuffer \in Nat
    /\ Segment \in Nat /\ Capacity \in Nat /\ MaxFrames \in Nat
    /\ Width > 0 /\ Width < ReadBuffer /\ Width < WriteBuffer /\ Width <= Segment
    /\ WriteBuffer > 0 /\ ReadBuffer > 0 /\ Segment > 0
    /\ \A n \in Lengths : n \in Nat /\ n > 0
    /\ \A l \in Links : l.writer \in Writers /\ l.reader \in Readers
BY FramingAssumption

-----------------------------------------------------------------------------
(* What the layers say of frames. *)

LEMMA FrameTypes ==
    ASSUME TypeOK
    PROVE  /\ Len(frames) \in Nat /\ DOMAIN frames = 1 .. Len(frames)
           /\ frames # <<>> <=> Len(frames) > 0
           /\ \A i \in DOMAIN frames :
                 /\ frames[i] \in Frames
                 /\ frames[i].at \in Nat /\ frames[i].length \in Nat
                 /\ frames[i].held \in Nat /\ frames[i].ahead \in Nat
                 /\ frames[i].tag \in Tags
                 /\ Size(frames[i]) = 2 * Width + frames[i].length
                 /\ Size(frames[i]) \in Nat /\ Size(frames[i]) >= 2 * Width
<1>1. frames \in Seq(Frames)
  BY DEF TypeOK
<1>2. \A i \in DOMAIN frames : frames[i] \in Frames
  BY <1>1
<1>3. \A f \in Frames : /\ f.at \in Nat /\ f.length \in Nat
                        /\ f.held \in Nat /\ f.ahead \in Nat /\ f.tag \in Tags
  BY DEF Frames
<1>4. \A f \in Frames : Size(f) = 2 * Width + f.length
  BY DEF Size
<1>5. \A f \in Frames : Size(f) \in Nat /\ Size(f) >= 2 * Width
  BY <1>3, <1>4, Sizes
<1> QED
  BY <1>1, <1>2, <1>3, <1>4, <1>5

LEMMA QueuedBounds ==
    ASSUME TypeOK, Layout
    PROVE  /\ Queued \in Nat
           /\ frames = <<>> => Queued = 0
           /\ frames # <<>> => /\ Last \in Frames /\ Last = frames[Len(frames)]
                               /\ Len(frames) \in DOMAIN frames
                               /\ Queued = Last.at + Size(Last)
                               /\ Last.at \in Nat /\ Last.length \in Nat
                               /\ Last.held \in Nat /\ Last.ahead \in Nat
                               /\ Size(Last) = 2 * Width + Last.length
           /\ \A i \in DOMAIN frames : frames[i].at + Size(frames[i]) <= Queued
<1>1. CASE frames = <<>>
  BY <1>1, FrameTypes DEF Queued
<1>2. CASE frames # <<>>
  <2>1. Len(frames) \in DOMAIN frames /\ Last = frames[Len(frames)]
    BY <1>2, FrameTypes DEF Last
  <2>2. Queued = Last.at + Size(Last)
    BY <1>2 DEF Queued
  <2>3. \A i \in DOMAIN frames : i = Len(frames) \/ i < Len(frames)
    BY FrameTypes
  <2>4. \A i \in DOMAIN frames : frames[i].at + Size(frames[i]) <= Queued
    <3> TAKE i \in DOMAIN frames
    <3>1. CASE i = Len(frames)
      BY <2>1, <2>2, <3>1, FrameTypes
    <3>2. CASE i < Len(frames)
      <4>1. frames[i].at + Size(frames[i]) <= Last.at
        BY <2>1, <3>2 DEF Layout
      <4> QED
        BY <2>1, <2>2, <4>1, FrameTypes
    <3> QED
      BY <2>3, <3>1, <3>2
  <2>5. /\ Last \in Frames /\ Last.at \in Nat /\ Last.length \in Nat
        /\ Last.held \in Nat /\ Last.ahead \in Nat
        /\ Size(Last) = 2 * Width + Last.length /\ Size(Last) \in Nat
    BY <2>1, FrameTypes
  <2>6. Queued \in Nat
    BY <2>2, <2>5
  <2> QED
    BY <1>2, <2>1, <2>2, <2>4, <2>5, <2>6
<1> QED
  BY <1>1, <1>2

LEMMA PositionTyped ==
    ASSUME TypeOK, Accounts
    PROVE  Position \in Nat /\ taken \in Nat /\ buffered \in Nat /\ Position = taken - buffered
           /\ taken <= written /\ Position <= taken
<1>1. taken \in 0 .. written /\ written \in Nat /\ buffered \in 0 .. ReadBuffer
  BY DEF TypeOK
<1>2. buffered <= taken
  BY DEF Accounts
<1> QED
  BY <1>1, <1>2, Sizes DEF Position

-----------------------------------------------------------------------------
(* Steps of the writer, in the stream. *)

LEMMA InitStream == Init => StreamInv
<1> SUFFICES ASSUME Init PROVE StreamInv
  OBVIOUS
<1>1. TypeOK
  <2>1. held \in 0 .. WriteBuffer /\ buffered \in 0 .. ReadBuffer /\ taken \in 0 .. written
    BY Sizes DEF Init
  <2>2. frames \in Seq(Frames) /\ chunks \in Seq(Nat \ {0}) /\ received \in Seq(Data)
    BY DEF Init
  <2> QED
    BY <2>1, <2>2 DEF Init, TypeOK, Fields
<1>2. Layout
  BY DEF Init, Layout, Fields
<1>3. Queued = 0 /\ PutSoFar = 0 /\ Position = 0
  BY DEF Init, Queued, PutSoFar, Fields, Position
<1>4. Accounts
  BY <1>3, SumNone DEF Init, Accounts
<1> QED
  BY <1>1, <1>2, <1>4 DEF StreamInv

\* What Begin appends, and what it does to the stream.
LEMMA BeginAppends ==
    ASSUME StreamInv, NEW n \in Nat, NEW tag \in Tags, Begin(n, tag)
    PROVE  \E f \in Frames :
              /\ f.at = Queued /\ f.length = n /\ f.tag = tag /\ f.held = held
              /\ f.ahead = Queued + 2 * Width + n - Position
              /\ Size(f) = 2 * Width + n
              /\ frames' = Append(frames, f)
              /\ frames' \in Seq(Frames)
              /\ Len(frames') = Len(frames) + 1 /\ DOMAIN frames' = 1 .. Len(frames) + 1
              /\ \A i \in DOMAIN frames : frames'[i] = frames[i]
              /\ frames'[Len(frames) + 1] = f
              /\ frames' # <<>>
              /\ Last' = f
              /\ Queued' = Queued + Size(f)
<1> USE DEF StreamInv
<1>1. PICK f : f = [at |-> Queued, length |-> n, tag |-> tag, held |-> held,
                    ahead |-> Queued + 2 * Width + n - Position]
  OBVIOUS
<1>2. Queued \in Nat
  BY QueuedBounds
<1>3. Position \in Nat /\ Position <= Queued
  <2>1. written <= Queued /\ written \in Nat
    BY DEF Accounts, TypeOK
  <2> QED
    BY <1>2, <2>1, PositionTyped
<1>4. held \in Nat
  BY Sizes DEF TypeOK
<1>5. Queued + 2 * Width + n - Position \in Nat
  BY <1>2, <1>3, Sizes
<1>6. f \in Frames
  BY <1>1, <1>2, <1>4, <1>5 DEF Frames
<1>7. /\ f.at = Queued /\ f.length = n /\ f.tag = tag /\ f.held = held
      /\ f.ahead = Queued + 2 * Width + n - Position
  BY <1>1
<1>8. Size(f) = 2 * Width + n
  BY <1>7 DEF Size
<1>9. frames' = Append(frames, f)
  BY <1>1 DEF Begin
<1>10. /\ frames' \in Seq(Frames)
       /\ Len(frames') = Len(frames) + 1 /\ DOMAIN frames' = 1 .. Len(frames) + 1
       /\ \A i \in DOMAIN frames : frames'[i] = frames[i]
       /\ frames'[Len(frames) + 1] = f
       /\ Len(frames) \in Nat
  BY <1>6, <1>9, AppendOne DEF TypeOK
<1>11. frames' # <<>>
  <2>1. Len(frames') # 0
    BY <1>10
  <2> QED
    BY <1>10, <2>1, SeqBasics
<1>12. Last' = f
  BY <1>10 DEF Last
<1>13. Size(f)' = Size(f)
  BY DEF Size
<1>14. Queued' = Queued + Size(f)
  BY <1>7, <1>11, <1>12 DEF Queued, Size
<1> QED
  BY <1>6, <1>7, <1>8, <1>9, <1>10, <1>11, <1>12, <1>14

LEMMA BeginStream ==
    ASSUME StreamInv, NEW n \in Nat, NEW tag \in Tags, Begin(n, tag), Idle,
           buffering' \in BOOLEAN
    PROVE  StreamInv'
<1> USE DEF StreamInv
<1>1. PICK f \in Frames :
              /\ f.at = Queued /\ f.length = n
              /\ f.ahead = Queued + 2 * Width + n - Position
              /\ Size(f) = 2 * Width + n
              /\ frames' \in Seq(Frames)
              /\ Len(frames') = Len(frames) + 1 /\ DOMAIN frames' = 1 .. Len(frames) + 1
              /\ \A i \in DOMAIN frames : frames'[i] = frames[i]
              /\ frames'[Len(frames) + 1] = f
              /\ frames' # <<>>
              /\ Last' = f
              /\ Queued' = Queued + Size(f)
  BY BeginAppends
<1>2. /\ wpc' = "length" /\ UNCHANGED <<link, held, chunks, written, ended, readerVars>>
      /\ wpc = "idle" /\ chunks = <<>> /\ ~ended
  BY DEF Begin, Idle
<1>3. TypeOK'
  BY <1>1, <1>2 DEF TypeOK, readerVars, Fields
<1>4. Len(frames) \in Nat /\ DOMAIN frames = 1 .. Len(frames) /\ Queued \in Nat
  BY FrameTypes, QueuedBounds
<1>5. Layout'
  <2>1. frames'[1].at = 0
    <3>1. CASE frames = <<>>
      <4>1. Len(frames) = 0 /\ Queued = 0
        BY <3>1, QueuedBounds
      <4> QED
        BY <1>1, <4>1
    <3>2. CASE frames # <<>>
      BY <1>1, <3>2, FrameTypes DEF Layout
    <3> QED
      BY <3>1, <3>2
  <2>3. ASSUME NEW i \in DOMAIN frames', NEW k \in DOMAIN frames', i < k
        PROVE  /\ i \in DOMAIN frames
               /\ frames'[i] = frames[i]
               /\ frames[i].at + Size(frames[i]) <= frames'[k].at
    <3>1. i \in DOMAIN frames /\ (k \in DOMAIN frames \/ k = Len(frames) + 1)
      BY <1>1, <1>4, <2>3
    <3>2. CASE k \in DOMAIN frames
      BY <1>1, <2>3, <3>1, <3>2 DEF Layout
    <3>3. CASE k = Len(frames) + 1
      BY <1>1, <3>1, <3>3, QueuedBounds
    <3> QED
      BY <1>1, <3>1, <3>2, <3>3
  <2>4. ASSUME NEW i \in DOMAIN frames', i + 1 \in DOMAIN frames'
        PROVE  /\ frames'[i] = frames[i]
               /\ frames'[i + 1].at = frames[i].at + Size(frames[i])
    <3>1. i \in DOMAIN frames /\ (i + 1 \in DOMAIN frames \/ i = Len(frames))
      BY <1>1, <1>4, <2>4
    <3>2. CASE i + 1 \in DOMAIN frames
      BY <1>1, <3>1, <3>2 DEF Layout
    <3>3. CASE i = Len(frames)
      <4>1. frames # <<>>
        BY <3>1
      <4> QED
        BY <1>1, <3>1, <3>3, <4>1, QueuedBounds
    <3> QED
      BY <1>1, <3>1, <3>2, <3>3
  <2> QED
    BY <1>1, <2>1, <2>3, <2>4 DEF Layout, Size
<1>6. Position' = Position /\ Position \in Nat /\ got' = got
  BY <1>2, PositionTyped DEF Position, readerVars
<1>7. PutSoFar' = Queued
  BY <1>1, <1>2, <1>4, Sizes DEF PutSoFar, Offset, Fields
<1>8. PutSoFar = Queued
  BY <1>2 DEF PutSoFar, Fields
<1>9. written <= Queued' /\ Queued' - Position = f.ahead
  BY <1>1, <1>4, <1>6, Sizes DEF Accounts, TypeOK
<1>10. Accounts'
  BY <1>1, <1>2, <1>6, <1>7, <1>8, <1>9 DEF Accounts, readerVars
<1> QED
  BY <1>3, <1>5, <1>10

\* A step that appends no frame and reads nothing leaves the layout as it is.
Continues ==
    /\ UNCHANGED <<link, frames, readerVars>>
    /\ wpc' \in Fields => wpc \in Fields

LEMMA SameFrames ==
    ASSUME UNCHANGED frames
    PROVE  Queued' = Queued /\ Last' = Last
BY DEF Queued, Last, Size

LEMMA SamePosition ==
    ASSUME UNCHANGED readerVars
    PROVE  Position' = Position /\ got' = got /\ buffered' = buffered /\ taken' = taken
BY DEF Position, readerVars

\* What is left to show of such a step: types and where the bytes are.
LEMMA ContinuesStream ==
    ASSUME StreamInv, Continues,
           wpc' \in Fields \cup {"idle", "flush"}, buffering' \in BOOLEAN,
           held' \in 0 .. WriteBuffer, chunks' \in Writes,
           written' \in Nat, written <= written', written' <= Queued,
           ended' \in BOOLEAN,
           ~ended' => written' + Sum(chunks)' + held' = PutSoFar',
           ended' => wpc' = "idle" /\ chunks' = <<>>,
           link.writer = "cpp" => held' = 0
    PROVE  StreamInv'
<1> USE DEF StreamInv
<1>1. UNCHANGED <<link, frames, readerVars>>
  BY DEF Continues
<1>2. Queued' = Queued /\ Last' = Last
  BY <1>1, SameFrames
<1>3. chunks' \in Seq(Nat \ {0}) /\ Len(chunks') <= 2
  BY DEF Writes
<1>4. taken' \in 0 .. written'
  <2>1. taken' = taken /\ taken \in 0 .. written /\ written \in Nat
    BY <1>1 DEF readerVars, TypeOK
  <2> QED
    BY <2>1
<1>5. TypeOK'
  BY <1>1, <1>3, <1>4 DEF TypeOK, readerVars
<1>6. Layout'
  BY <1>1 DEF Layout, Continues, Size
<1>7. Accounts'
  BY <1>1, <1>2, <1>3, SamePosition DEF Accounts
<1> QED
  BY <1>5, <1>6, <1>7

\* Each writer's buffer: what was put is in the buffer or in the writes.
LEMMA PutKeeps ==
    ASSUME StreamInv, NEW n \in Nat, Put(n), chunks = <<>>
    PROVE  /\ chunks' \in Writes
           /\ held' \in 0 .. WriteBuffer
           /\ Sum(chunks)' + held' = held + n
           /\ link.writer = "cpp" => held' = 0
<1> USE DEF StreamInv
<1>1. held \in Nat /\ held <= WriteBuffer /\ (link.writer = "cpp" => held = 0)
  BY Sizes DEF TypeOK, Accounts
<1>2. Sum(chunks)' = Sum(chunks')
  BY DEF Sum
<1>3. link.writer \in Writers
  BY Sizes DEF TypeOK
<1>4. CASE link.writer = "kotlin"
  <2>1. PutWhole(n)
    BY <1>4 DEF Put
  <2>2. CASE n >= WriteBuffer /\ held > 0
    BY <1>1, <1>2, <1>4, <2>1, <2>2, SumTwo, Sizes DEF PutWhole
  <2>3. CASE n >= WriteBuffer /\ held = 0
    BY <1>1, <1>2, <1>4, <2>1, <2>3, SumOne, Sizes DEF PutWhole
  <2>4. CASE n < WriteBuffer /\ held + n > WriteBuffer
    BY <1>1, <1>2, <1>4, <2>1, <2>4, SumOne, Sizes DEF PutWhole
  <2>5. CASE n < WriteBuffer /\ held + n <= WriteBuffer
    BY <1>1, <1>2, <1>4, <2>1, <2>5, SumNone, Sizes DEF PutWhole
  <2> QED
    BY <1>1, <2>2, <2>3, <2>4, <2>5, Sizes
<1>5. CASE link.writer = "go"
  <2>1. PutFilling(n)
    BY <1>5 DEF Put
  <2> DEFINE rest == held + n - WriteBuffer
  <2>2. CASE rest <= 0
    BY <1>1, <1>2, <1>5, <2>1, <2>2, SumNone, Sizes DEF PutFilling
  <2>3. CASE rest > 0 /\ held = 0
    BY <1>1, <1>2, <1>5, <2>1, <2>3, SumOne, Sizes DEF PutFilling
  <2>4. CASE rest > 0 /\ held > 0 /\ rest > WriteBuffer
    BY <1>1, <1>2, <1>5, <2>1, <2>4, SumTwo, Sizes DEF PutFilling
  <2>5. CASE rest > 0 /\ held > 0 /\ rest <= WriteBuffer
    BY <1>1, <1>2, <1>5, <2>1, <2>5, SumOne, Sizes DEF PutFilling
  <2> QED
    BY <1>1, <2>2, <2>3, <2>4, <2>5, Sizes
<1>6. CASE link.writer = "cpp"
  <2>1. PutDirect(n)
    BY <1>6 DEF Put
  <2>2. CASE n > 0
    BY <1>1, <1>2, <1>6, <2>1, <2>2, SumOne, Sizes DEF PutDirect, Some
  <2>3. CASE n = 0
    BY <1>1, <1>2, <1>6, <2>1, <2>3, SumNone, Sizes DEF PutDirect, Some
  <2> QED
    BY <2>2, <2>3
<1> QED
  BY <1>3, <1>4, <1>5, <1>6 DEF Writers

\* The size of the field that PutField puts.
FieldSize == IF wpc = "data" THEN Last.length ELSE Width

LEMMA PutFieldStream ==
    ASSUME StreamInv, PutField
    PROVE  StreamInv'
<1> USE DEF StreamInv
<1>1. /\ wpc \in Fields /\ chunks = <<>> /\ ~ended
      /\ Put(FieldSize)
      /\ UNCHANGED <<link, frames, buffering, written, ended, readerVars>>
  BY DEF PutField, FieldSize
<1>2. /\ frames # <<>> /\ Last \in Frames /\ Last.at \in Nat /\ Last.length \in Nat
      /\ Queued = Last.at + (2 * Width + Last.length) /\ Queued \in Nat
  BY <1>1, QueuedBounds DEF Layout
<1>3. FieldSize \in Nat
  BY <1>2, Sizes DEF FieldSize
<1>4. PICK n \in Nat : n = FieldSize
  BY <1>3
<1>5. /\ chunks' \in Writes /\ held' \in 0 .. WriteBuffer
      /\ Sum(chunks)' + held' = held + n
      /\ link.writer = "cpp" => held' = 0
  BY <1>1, <1>4, PutKeeps
<1>6. Queued' = Queued /\ Last' = Last
  BY <1>1, SameFrames
<1>7. wpc' \in Fields \cup {"idle", "flush"}
  BY <1>1 DEF PutField, AfterData, Fields
<1>8. PutSoFar' = PutSoFar + n
  <2>1. CASE wpc = "length"
    <3>1. wpc' = "tag" /\ n = Width
      BY <1>4, <2>1 DEF PutField, FieldSize
    <3> QED
      BY <1>2, <1>6, <2>1, <3>1, Sizes DEF PutSoFar, Offset, Fields
  <2>2. CASE wpc = "tag"
    <3>1. wpc' = "data" /\ n = Width
      BY <1>4, <2>2 DEF PutField, FieldSize
    <3> QED
      BY <1>2, <1>6, <2>2, <3>1, Sizes DEF PutSoFar, Offset, Fields
  <2>3. CASE wpc = "data"
    <3>1. wpc' \notin Fields /\ n = Last.length
      BY <1>4, <2>3 DEF PutField, FieldSize, AfterData, Fields
    <3> QED
      BY <1>2, <1>6, <2>3, <3>1, Sizes DEF PutSoFar, Offset, Fields
  <2> QED
    BY <1>1, <2>1, <2>2, <2>3 DEF Fields
<1>9. written + held = PutSoFar /\ written \in Nat /\ held \in Nat
  BY <1>1, SumNone, Sizes DEF Accounts, TypeOK
<1>10. Sum(chunks)' \in Nat /\ held' \in Nat
  <2>1. Sum(chunks)' = Sum(chunks')
    BY DEF Sum
  <2> QED
    BY <1>5, <2>1, SumTyped, Sizes
<1>11. written' + Sum(chunks)' + held' = PutSoFar'
  BY <1>1, <1>5, <1>8, <1>9, <1>10
<1>12. written <= written' /\ written' <= Queued /\ written' \in Nat
  BY <1>1, <1>9 DEF Accounts
<1>13. Continues /\ buffering' \in BOOLEAN /\ ended' \in BOOLEAN /\ ~ended'
  BY <1>1, <1>7 DEF Continues, TypeOK
<1> QED
  BY <1>1, <1>5, <1>7, <1>11, <1>12, <1>13, ContinuesStream

LEMMA FlushStream ==
    ASSUME StreamInv, Flush
    PROVE  StreamInv'
<1> USE DEF StreamInv
<1>1. /\ wpc = "flush" /\ wpc' = "idle" /\ chunks = <<>> /\ ~ended
      /\ chunks' = Some(held) /\ held' = 0
      /\ UNCHANGED <<link, frames, buffering, written, ended, readerVars>>
  BY DEF Flush
<1>2. held \in Nat /\ written \in Nat
  BY Sizes DEF TypeOK
<1>3. chunks' \in Writes /\ Sum(chunks)' = held
  <2>1. Sum(chunks)' = Sum(chunks')
    BY DEF Sum
  <2>2. CASE held > 0
    BY <1>1, <1>2, <2>1, <2>2, SumOne DEF Some
  <2>3. CASE held = 0
    BY <1>1, <2>1, <2>3, SumNone DEF Some
  <2> QED
    BY <1>2, <2>2, <2>3
<1>4. Queued' = Queued /\ Last' = Last
  BY <1>1, SameFrames
<1>5. PutSoFar' = PutSoFar
  BY <1>1, <1>4 DEF PutSoFar, Fields
<1>6. written + held = PutSoFar
  BY <1>1, <1>2, SumNone DEF Accounts
<1>7. written' + Sum(chunks)' + held' = PutSoFar'
  BY <1>1, <1>2, <1>3, <1>5, <1>6
<1>8. Continues /\ buffering' \in BOOLEAN /\ ended' \in BOOLEAN /\ ~ended'
  BY <1>1 DEF Continues, TypeOK, Fields
<1>9. written <= written' /\ written' <= Queued /\ written' \in Nat /\ held' \in 0 .. WriteBuffer
  BY <1>1, <1>2, Sizes DEF Accounts
<1> QED
  BY <1>1, <1>3, <1>7, <1>8, <1>9, ContinuesStream

\* What the socket takes comes off the first write.
LEMMA SendsSome ==
    ASSUME StreamInv, SendSegment
    PROVE  \E k \in Nat :
              /\ k > 0 /\ k <= Segment /\ k <= chunks[1]
              /\ k = chunks[1] \/ k = Segment
              /\ written' = written + k
              /\ chunks' \in Writes
              /\ Sum(chunks)' = Sum(chunks) - k
              /\ Sum(chunks) \in Nat /\ k <= Sum(chunks)
              /\ chunks \in Writes /\ chunks # <<>>
              /\ k = chunks[1] => chunks' = Tail(chunks)
<1> USE DEF StreamInv
<1>1. chunks \in Writes /\ chunks # <<>>
  BY DEF TypeOK, Accounts, Writes, SendSegment
<1>2. /\ chunks[1] \in Nat /\ chunks[1] > 0 /\ chunks[1] <= Sum(chunks)
      /\ Sum(chunks) \in Nat
  BY <1>1, SumTyped
<1>3. PICK k : k = Min({Segment, chunks[1]})
  OBVIOUS
<1>4. /\ k \in Nat /\ k > 0 /\ k <= Segment /\ k <= chunks[1]
      /\ k = chunks[1] \/ k = Segment
  BY <1>2, <1>3, MinOfTwo, Sizes
<1>5. /\ written' = written + k
      /\ chunks' = IF k < chunks[1] THEN [chunks EXCEPT ![1] = @ - k] ELSE Tail(chunks)
  BY <1>3 DEF SendSegment
<1>6. Sum(chunks)' = Sum(chunks')
  BY DEF Sum
<1>7. CASE k < chunks[1]
  <2>1. chunks' = [chunks EXCEPT ![1] = @ - k] /\ k # chunks[1]
    BY <1>2, <1>4, <1>5, <1>7
  <2>2. chunks' \in Writes /\ Sum(chunks') = Sum(chunks) - k
    BY <1>1, <1>4, <1>7, <2>1, SumCut
  <2> QED
    BY <1>1, <1>2, <1>4, <1>5, <1>6, <2>1, <2>2
<1>8. CASE k = chunks[1]
  BY <1>1, <1>2, <1>4, <1>5, <1>6, <1>8, SumTail
<1> QED
  BY <1>2, <1>4, <1>7, <1>8

LEMMA SendStream ==
    ASSUME StreamInv, SendSegment
    PROVE  StreamInv'
<1> USE DEF StreamInv
<1>1. PICK k \in Nat :
              /\ k > 0
              /\ written' = written + k
              /\ chunks' \in Writes
              /\ Sum(chunks)' = Sum(chunks) - k
              /\ Sum(chunks) \in Nat /\ k <= Sum(chunks)
  BY SendsSome
<1>2. ~ended /\ UNCHANGED <<link, frames, wpc, buffering, held, ended, readerVars>>
  BY DEF SendSegment
<1>3. /\ Queued' = Queued /\ PutSoFar' = PutSoFar
  <2>1. Queued' = Queued /\ Last' = Last
    BY <1>2, SameFrames
  <2> QED
    BY <1>2, <2>1 DEF PutSoFar, Offset
<1>4. /\ written \in Nat /\ held \in Nat
      /\ written + Sum(chunks) + held = PutSoFar
  BY <1>2, Sizes DEF TypeOK, Accounts
<1>5. PutSoFar <= Queued
  BY QueuedBounds, Sizes DEF PutSoFar, Offset, Layout
<1>6. written' + Sum(chunks)' + held' = PutSoFar'
  BY <1>1, <1>2, <1>3, <1>4
<1>7. written' \in Nat /\ written <= written' /\ written' <= Queued
  <2>1. Queued \in Nat
    BY QueuedBounds
  <2> QED
    BY <1>1, <1>4, <1>5, <2>1
<1>8. /\ Continues /\ wpc' \in Fields \cup {"idle", "flush"} /\ buffering' \in BOOLEAN
      /\ held' \in 0 .. WriteBuffer /\ ended' \in BOOLEAN /\ ~ended'
      /\ link.writer = "cpp" => held' = 0
  BY <1>2 DEF Continues, TypeOK, Accounts
<1> QED
  BY <1>1, <1>6, <1>7, <1>8, ContinuesStream

LEMMA WriterEndsStream ==
    ASSUME StreamInv, WriterEnds
    PROVE  StreamInv'
<1> USE DEF StreamInv
<1>1. /\ ended' = TRUE /\ wpc' = "idle" /\ held' = 0 /\ chunks' = <<>>
      /\ UNCHANGED <<link, frames, buffering, written, readerVars>>
  BY DEF WriterEnds
<1>2. Continues /\ buffering' \in BOOLEAN /\ held' \in 0 .. WriteBuffer
  BY <1>1, Sizes DEF Continues, TypeOK, Fields
<1>3. written' \in Nat /\ written <= written' /\ written' <= Queued
  BY <1>1 DEF TypeOK, Accounts
<1> QED
  BY <1>1, <1>2, <1>3, SumNone, ContinuesStream

\* The Go receiver's flag.
LEMMA BufferingStream ==
    ASSUME StreamInv, StartBuffering \/ StopBuffering
    PROVE  StreamInv'
<1> USE DEF StreamInv
<1>1. /\ UNCHANGED <<link, frames, held, chunks, written, ended, readerVars>>
      /\ wpc = "idle" /\ wpc' \in {"idle", "flush"} /\ buffering' \in BOOLEAN /\ ~ended
  BY DEF StartBuffering, StopBuffering, Idle
<1>2. Continues /\ held' \in 0 .. WriteBuffer /\ written' \in Nat /\ written <= written'
      /\ written' <= Queued
  BY <1>1 DEF Continues, TypeOK, Accounts, Fields
<1>3. chunks' \in Writes
  BY <1>1 DEF TypeOK, Accounts, Writes
<1>4. Queued' = Queued
  BY <1>1, SameFrames
<1>5. PutSoFar' = PutSoFar
  BY <1>1, <1>4 DEF PutSoFar, Fields
<1>6. Sum(chunks)' = Sum(chunks)
  BY <1>1 DEF Sum
<1> QED
  BY <1>1, <1>2, <1>3, <1>5, <1>6, ContinuesStream DEF Accounts, TypeOK

-----------------------------------------------------------------------------
(* Steps of the reader, in the stream. *)

\* What is left to show of a step of the reader.
LEMMA ReaderStream ==
    ASSUME StreamInv, UNCHANGED <<link, writerVars>>,
           taken' \in Nat, taken' <= written, buffered' \in 0 .. ReadBuffer,
           buffered' <= taken', Position <= Position',
           rpc' \in Fields \cup {"closed"}, got' \in Nat, got' <= Position',
           length' \in Nat, received' \in Seq(Data), split' \in BOOLEAN
    PROVE  StreamInv'
<1> USE DEF StreamInv
<1>1. UNCHANGED <<link, frames, wpc, buffering, held, chunks, written, ended>>
  BY DEF writerVars
<1>2. Queued' = Queued /\ Last' = Last
  BY <1>1, SameFrames
<1>3. PutSoFar' = PutSoFar /\ Sum(chunks)' = Sum(chunks)
  BY <1>1, <1>2 DEF PutSoFar, Offset, Sum
<1>4. written \in Nat /\ taken' \in 0 .. written'
  BY <1>1 DEF TypeOK
<1>5. TypeOK'
  BY <1>1, <1>4 DEF TypeOK
<1>6. Layout'
  BY <1>1 DEF Layout, Size
<1>7. Position \in Nat /\ Position' \in Nat
  <2>1. Position' = taken' - buffered' /\ buffered' \in Nat
    BY Sizes DEF Position
  <2>2. taken' - buffered' \in Nat
    BY <2>1, DifferenceTyped
  <2> QED
    BY <2>1, <2>2, PositionTyped
<1>8. frames # <<>> => Queued' - Position' <= Last'.ahead
  <2>1. frames # <<>> => /\ Queued - Position <= Last.ahead
                         /\ Last.ahead \in Nat /\ Queued \in Nat
    BY QueuedBounds DEF Accounts
  <2> QED
    BY <1>2, <1>7, <2>1
<1>9. Accounts'
  BY <1>1, <1>2, <1>3, <1>8 DEF Accounts
<1> QED
  BY <1>5, <1>6, <1>9

LEMMA FieldReadTypes ==
    ASSUME StreamInv, NEW n \in Nat, NEW p \in Nat, n <= p, FieldRead(n, p)
    PROVE  /\ got' = 0
           /\ rpc' \in Fields \cup {"closed"}
           /\ length' \in Nat
           /\ received' \in Seq(Data)
<1> USE DEF StreamInv
<1>1. length \in Nat /\ received \in Seq(Data) /\ Len(received) \in Nat
  BY DEF TypeOK
<1>2. got' = 0
  BY DEF FieldRead
<1>3. CASE rpc = "length" /\ rpc' = "tag" /\ length' \in Decoded(p - n, n)
           /\ UNCHANGED received
  <2>1. Aligned(p - n) => Len(received) + 1 \in DOMAIN frames
    BY <1>1, FrameTypes DEF Aligned
  <2>2. length' \in Nat
    BY <1>3, <2>1, FrameTypes, Sizes DEF Decoded
  <2> QED
    BY <1>1, <1>2, <1>3, <2>2 DEF Fields
<1>4. CASE rpc = "tag" /\ UNCHANGED <<length, received>>
           /\ rpc' \in {"length", "data", "closed"}
  BY <1>1, <1>2, <1>4 DEF Fields
<1>5. CASE /\ rpc = "data" /\ rpc' \in {"closed", "length"} /\ UNCHANGED length
           /\ received' = Append(received, [from |-> p - n, upto |-> p, length |-> length])
  <2>1. PICK d : d = [from |-> p - n, upto |-> p, length |-> length]
    OBVIOUS
  <2>2. p - n \in Nat
    OBVIOUS
  <2>3. d \in Data
    BY <1>1, <2>1, <2>2 DEF Data
  <2>4. received' \in Seq(Data)
    BY <1>1, <1>5, <2>1, <2>3, AppendOne
  <2> QED
    BY <1>1, <1>2, <1>5, <2>4 DEF Fields
<1> QED
  BY <1>3, <1>4, <1>5 DEF FieldRead

LEMMA WantTyped ==
    ASSUME TypeOK
    PROVE  Need \in Nat /\ Want = Need - got /\ got \in Nat /\ Avail \in Nat
           /\ Avail = written - taken /\ written \in Nat /\ taken \in Nat
<1>1. length \in Nat /\ got \in Nat /\ written \in Nat /\ taken \in 0 .. written
  BY DEF TypeOK
<1> QED
  BY <1>1, Sizes DEF Need, Want, Avail

\* A read takes bytes from the reader's buffer or the socket, the field's at most.
LEMMA ReadSomeTakes ==
    ASSUME StreamInv, ReadSome
    PROVE  \E k \in Nat :
              /\ k > 0 /\ k <= Want /\ rpc # "closed"
              /\ Returned(k, Position + k)
              /\ Position' = Position + k /\ Position + k <= written
              /\ taken' \in Nat /\ taken <= taken' /\ taken' <= written
              /\ buffered' \in 0 .. ReadBuffer /\ buffered' <= taken'
              /\ \/ taken' = taken /\ (k = Want \/ k = buffered)
                 \/ /\ buffered = 0 /\ taken' = taken + k
                    /\ k = Want \/ taken' = written
                 \/ /\ buffered = 0 /\ link.reader \in {"kotlin", "go"}
                    /\ taken' = written \/ taken' = taken + ReadBuffer
                    /\ k = Want \/ taken' = taken + k
<1> USE DEF StreamInv
<1>1. /\ rpc # "closed" /\ Want \in Nat /\ Want > 0 /\ Avail \in Nat
      /\ Avail = written - taken /\ written \in Nat
  BY WantTyped DEF ReadSome
<1>2. /\ Position \in Nat /\ taken \in Nat /\ buffered \in Nat /\ taken <= written
      /\ Position = taken - buffered /\ buffered <= taken /\ buffered <= ReadBuffer
  <2>1. buffered <= ReadBuffer
    BY Sizes DEF TypeOK
  <2> QED
    BY <2>1, PositionTyped DEF Accounts
<1>3. Position' = taken' - buffered'
  BY DEF Position
<1>4. ASSUME buffered > 0,
             LET k == Min({buffered, Want}) IN
                buffered' = buffered - k /\ taken' = taken /\ Returned(k, Position + k)
      PROVE  \E k \in Nat :
              /\ k > 0 /\ k <= Want
              /\ Returned(k, Position + k)
              /\ Position' = Position + k /\ Position + k <= written
              /\ taken' \in Nat /\ taken <= taken' /\ taken' <= written
              /\ buffered' \in 0 .. ReadBuffer /\ buffered' <= taken'
              /\ taken' = taken /\ (k = Want \/ k = buffered)
  <2>1. PICK k : k = Min({buffered, Want})
    OBVIOUS
  <2>2. k \in Nat /\ k > 0 /\ k <= Want /\ k <= buffered /\ (k = Want \/ k = buffered)
    BY <1>1, <1>2, <1>4, <2>1, MinOfTwo
  <2>3. buffered' = buffered - k /\ taken' = taken /\ Returned(k, Position + k)
    BY <1>4, <2>1
  <2> QED
    BY <1>1, <1>2, <1>3, <2>2, <2>3, Sizes
<1>5. ASSUME buffered = 0, Avail > 0,
             LET k == Min({Avail, Want}) IN
                buffered' = 0 /\ taken' = taken + k /\ Returned(k, Position + k)
      PROVE  \E k \in Nat :
              /\ k > 0 /\ k <= Want
              /\ Returned(k, Position + k)
              /\ Position' = Position + k /\ Position + k <= written
              /\ taken' \in Nat /\ taken <= taken' /\ taken' <= written
              /\ buffered' \in 0 .. ReadBuffer /\ buffered' <= taken'
              /\ buffered = 0 /\ taken' = taken + k
              /\ k = Want \/ taken' = written
  <2>1. PICK k : k = Min({Avail, Want})
    OBVIOUS
  <2>2. k \in Nat /\ k > 0 /\ k <= Want /\ k <= Avail /\ (k = Want \/ k = Avail)
    BY <1>1, <1>5, <2>1, MinOfTwo
  <2>3. buffered' = 0 /\ taken' = taken + k /\ Returned(k, Position + k)
    BY <1>5, <2>1
  <2> QED
    BY <1>1, <1>2, <1>3, <1>5, <2>2, <2>3, Sizes
<1>6. ASSUME buffered = 0, Avail > 0, Want < Buffer,
             LET fill == Min({Avail, Buffer})
                 k == Min({fill, Want}) IN
                buffered' = fill - k /\ taken' = taken + fill /\ Returned(k, Position + k)
      PROVE  \E k \in Nat :
              /\ k > 0 /\ k <= Want
              /\ Returned(k, Position + k)
              /\ Position' = Position + k /\ Position + k <= written
              /\ taken' \in Nat /\ taken <= taken' /\ taken' <= written
              /\ buffered' \in 0 .. ReadBuffer /\ buffered' <= taken'
              /\ buffered = 0 /\ link.reader \in {"kotlin", "go"}
              /\ taken' = written \/ taken' = taken + ReadBuffer
              /\ k = Want \/ taken' = taken + k
  <2>1. Buffer = ReadBuffer /\ link.reader \in {"kotlin", "go"}
    BY <1>1, <1>6 DEF Buffer
  <2>2. PICK fill : fill = Min({Avail, Buffer})
    OBVIOUS
  <2>3. /\ fill \in Nat /\ fill > 0 /\ fill <= Avail /\ fill <= ReadBuffer
        /\ fill = Avail \/ fill = ReadBuffer
    BY <1>1, <1>6, <2>1, <2>2, MinOfTwo, Sizes
  <2>4. PICK k : k = Min({fill, Want})
    OBVIOUS
  <2>5. k \in Nat /\ k > 0 /\ k <= Want /\ k <= fill /\ (k = Want \/ k = fill)
    BY <1>1, <2>3, <2>4, MinOfTwo
  <2>6. buffered' = fill - k /\ taken' = taken + fill /\ Returned(k, Position + k)
    BY <1>6, <2>2, <2>4
  <2> QED
    BY <1>1, <1>2, <1>3, <1>6, <2>1, <2>3, <2>5, <2>6, Sizes
<1> QED
  BY <1>1, <1>4, <1>5, <1>6 DEF ReadSome

\* What a read of k bytes leads to.
LEMMA ReturnedTypes ==
    ASSUME StreamInv, NEW k \in Nat, NEW p \in Nat, got + k <= p, Returned(k, p)
    PROVE  /\ got' \in Nat /\ got' <= p
           /\ rpc' \in Fields \cup {"closed"}
           /\ length' \in Nat
           /\ received' \in Seq(Data)
           /\ split' \in BOOLEAN
<1> USE DEF StreamInv
<1>1. got \in Nat /\ Need \in Nat
  BY WantTyped
<1>2. /\ length \in Nat /\ received \in Seq(Data) /\ split \in BOOLEAN
      /\ rpc \in Fields \cup {"closed"}
  BY DEF TypeOK
<1>3. CASE got + k = Need /\ FieldRead(Need, p) /\ UNCHANGED split
  BY <1>1, <1>2, <1>3, FieldReadTypes
<1>4. CASE got' = got + k /\ UNCHANGED <<rpc, length, received, split>>
  BY <1>1, <1>2, <1>4
<1>5. CASE split' = TRUE /\ rpc' = "length" /\ got' = 0 /\ UNCHANGED <<length, received>>
  BY <1>2, <1>5 DEF Fields
<1>6. CASE split' = TRUE /\ FieldRead(got + k, p)
  <2>1. got + k \in Nat
    BY <1>1
  <2> QED
    BY <1>6, <2>1, FieldReadTypes
<1> QED
  BY <1>3, <1>4, <1>5, <1>6 DEF Returned

LEMMA ReadSomeStream ==
    ASSUME StreamInv, ReadSome
    PROVE  StreamInv'
<1> USE DEF StreamInv
<1>1. PICK k \in Nat :
              /\ Returned(k, Position + k)
              /\ Position' = Position + k
              /\ taken' \in Nat /\ taken' <= written
              /\ buffered' \in 0 .. ReadBuffer /\ buffered' <= taken'
  BY ReadSomeTakes
<1>2. Position \in Nat /\ got \in Nat /\ got <= Position
  BY PositionTyped, WantTyped DEF Accounts
<1>3. PICK p \in Nat : p = Position + k
  BY <1>2
<1>4. Returned(k, p) /\ got + k <= p
  BY <1>1, <1>2, <1>3
<1>5. /\ got' \in Nat /\ got' <= p
      /\ rpc' \in Fields \cup {"closed"}
      /\ length' \in Nat
      /\ received' \in Seq(Data)
      /\ split' \in BOOLEAN
  BY <1>4, ReturnedTypes
<1>6. Position <= Position' /\ got' <= Position'
  BY <1>1, <1>2, <1>3, <1>5
<1>7. UNCHANGED <<link, writerVars>>
  BY DEF ReadSome
<1> QED
  BY <1>1, <1>5, <1>6, <1>7, ReaderStream

\* A step of the reader that takes no byte.
LEMMA NothingTakenStream ==
    ASSUME StreamInv, ReadEmpty \/ EndOfStream
    PROVE  StreamInv'
<1> USE DEF StreamInv
<1>1. UNCHANGED <<link, writerVars, taken, buffered, split>>
  BY DEF ReadEmpty, EndOfStream
<1>2. /\ Position' = Position /\ Position \in Nat /\ got \in Nat /\ got <= Position
      /\ taken \in Nat /\ buffered \in 0 .. ReadBuffer
      /\ taken <= written /\ buffered <= taken /\ split \in BOOLEAN
      /\ length \in Nat /\ received \in Seq(Data)
  BY <1>1, PositionTyped DEF Position, Accounts, TypeOK
<1>3. \/ FieldRead(got, Position)
      \/ rpc' = "closed" /\ UNCHANGED <<got, length, received>>
  BY DEF ReadEmpty, EndOfStream
<1>4. PICK p \in Nat : p = Position
  BY <1>2
<1>5. /\ got' \in Nat /\ got' <= Position
      /\ rpc' \in Fields \cup {"closed"}
      /\ length' \in Nat /\ received' \in Seq(Data)
  BY <1>2, <1>3, <1>4, FieldReadTypes
<1> QED
  BY <1>1, <1>2, <1>5, ReaderStream

LEMMA StutterStream ==
    ASSUME StreamInv, UNCHANGED vars
    PROVE  StreamInv'
<1> USE DEF StreamInv, vars, writerVars, readerVars
<1>1. Queued' = Queued /\ Last' = Last
  BY SameFrames
<1>2. PutSoFar' = PutSoFar /\ Sum(chunks)' = Sum(chunks) /\ Position' = Position
  BY <1>1 DEF PutSoFar, Offset, Sum, Position
<1> QED
  BY <1>1, <1>2 DEF TypeOK, Layout, Accounts, Size

LEMMA NextStream == StreamInv /\ [Next]_vars => StreamInv'
<1> SUFFICES ASSUME StreamInv, [Next]_vars PROVE StreamInv'
  OBVIOUS
<1>1. CASE BeginFrame
  <2>1. PICK n \in Lengths : Begin(n, "message")
    BY <1>1 DEF BeginFrame
  <2>2. n \in Nat /\ "message" \in Tags /\ Idle /\ buffering' \in BOOLEAN
    BY <1>1, Sizes DEF Tags, BeginFrame, StreamInv, TypeOK
  <2> QED
    BY <2>1, <2>2, BeginStream
<1>2. CASE SetBuffering
  <2>1. PICK tag : tag = IF buffering THEN "STOP_BUFFERING" ELSE "START_BUFFERING"
    OBVIOUS
  <2>2. tag \in Tags /\ Begin(0, tag) /\ Idle /\ buffering' \in BOOLEAN
    BY <1>2, <2>1 DEF Tags, SetBuffering, StreamInv, TypeOK
  <2> QED
    BY <2>2, BeginStream
<1>3. CASE StartBuffering \/ StopBuffering
  BY <1>3, BufferingStream
<1>4. CASE PutField
  BY <1>4, PutFieldStream
<1>5. CASE Flush
  BY <1>5, FlushStream
<1>6. CASE SendSegment
  BY <1>6, SendStream
<1>7. CASE ReadSome
  BY <1>7, ReadSomeStream
<1>8. CASE ReadEmpty \/ EndOfStream
  BY <1>8, NothingTakenStream
<1>9. CASE WriterEnds
  BY <1>9, WriterEndsStream
<1>10. CASE UNCHANGED vars
  BY <1>10, StutterStream
<1> QED
  BY <1>1, <1>2, <1>3, <1>4, <1>5, <1>6, <1>7, <1>8, <1>9, <1>10
     DEF Next, Write, Read, Quiescent

(***************************************************************************)
(* Whatever the two languages and the sizes of their buffers, the stream   *)
(* is made of the frames that were passed to write, one behind the other,  *)
(* and no byte of it is lost or read before it was written.                *)
(***************************************************************************)
THEOREM Stream == Spec => []StreamInv
<1> QED
  BY InitStream, NextStream, PTL DEF Spec

(***************************************************************************)
(* The type invariant: buffers stay within their sizes, and what is read   *)
(* from the socket was put into it.                                        *)
(***************************************************************************)
THEOREM FramingTypes == Spec => []TypeOK
<1>1. StreamInv => TypeOK
  BY DEF StreamInv
<1> QED
  BY Stream, <1>1, PTL

-----------------------------------------------------------------------------
(* Within the limits, the socket holds whole fields. *)

\* A step that writes no frame, or one more.
Extends ==
    /\ UNCHANGED link
    /\ DOMAIN frames \subseteq DOMAIN frames'
    /\ \A i \in DOMAIN frames : frames'[i] = frames[i]

LEMMA FitsBefore ==
    ASSUME Extends
    PROVE  Looping' = Looping /\ (AllFit' => AllFit)
BY DEF Extends, Looping, AllFit, Fits, Size

LEMMA SameBoundaries ==
    ASSUME UNCHANGED frames
    PROVE  \A x : Boundary(x)' <=> Boundary(x)
BY SameFrames DEF Boundary

LEMMA PutBoundary == StreamInv => Boundary(PutSoFar) /\ PutSoFar \in Nat
<1> SUFFICES ASSUME StreamInv PROVE Boundary(PutSoFar) /\ PutSoFar \in Nat
  OBVIOUS
<1> USE DEF StreamInv
<1>1. CASE wpc \notin Fields
  BY <1>1, QueuedBounds DEF PutSoFar, Boundary
<1>2. CASE wpc \in Fields
  <2>1. /\ Last = frames[Len(frames)] /\ Len(frames) \in DOMAIN frames /\ Last.at \in Nat
    BY <1>2, QueuedBounds DEF Layout
  <2>2. PutSoFar \in {Last.at, Last.at + Width, Last.at + 2 * Width}
    BY <1>2, <2>1, Sizes DEF PutSoFar, Offset
  <2> QED
    BY <2>1, <2>2, Sizes DEF Boundary
<1> QED
  BY <1>1, <1>2

\* The limits on frames are limits on buffers.
LEMMA FitBuffers ==
    ASSUME StreamInv, AllFit, ~Looping
    PROVE  /\ frames # <<>> => Fits(Last)
           /\ ~ended /\ link.writer # "cpp" => held <= Segment \/ chunks # <<>>
<1> USE DEF StreamInv
<1>1. ASSUME frames # <<>> PROVE Fits(Last)
  BY <1>1, QueuedBounds DEF AllFit, Looping
<1>2. ASSUME ~ended, link.writer # "cpp", chunks = <<>> PROVE held <= Segment
  <2>1. held \in Nat /\ held <= WriteBuffer /\ written \in Nat
    BY Sizes DEF TypeOK
  <2>2. CASE frames # <<>>
    BY <1>1, <1>2, <2>1, <2>2, Sizes DEF Fits
  <2>3. CASE frames = <<>>
    <3>1. PutSoFar = 0
      BY <2>3, QueuedBounds DEF PutSoFar, Layout
    <3>2. written + held = 0
      BY <1>2, <2>1, <3>1, SumNone DEF Accounts
    <3> QED
      BY <2>1, <3>2, Sizes
  <2> QED
    BY <2>2, <2>3
<1> QED
  BY <1>1, <1>2

LEMMA InitFields == Init => FieldInv
<1> SUFFICES ASSUME Init PROVE WholeWrites
  BY DEF FieldInv
<1>1. Boundary(0)
  BY DEF Init, Boundary, Queued
<1> QED
  BY <1>1, SumNone DEF Init, WholeWrites, Fields

LEMMA BeginFields ==
    ASSUME StreamInv, FieldInv, NEW n \in Nat, NEW tag \in Tags, Begin(n, tag), Idle
    PROVE  FieldInv' /\ Extends /\ \A x : Boundary(x) => Boundary(x)'
<1> USE DEF StreamInv
<1>1. PICK f \in Frames :
              /\ f.at = Queued /\ f.held = held
              /\ Len(frames') = Len(frames) + 1 /\ DOMAIN frames' = 1 .. Len(frames) + 1
              /\ \A i \in DOMAIN frames : frames'[i] = frames[i]
              /\ frames'[Len(frames) + 1] = f
              /\ Last' = f
  BY BeginAppends
<1>2. /\ wpc' = "length" /\ UNCHANGED <<link, held, chunks, written>>
      /\ chunks = <<>>
  BY DEF Begin, Idle
<1>3. Len(frames) \in Nat /\ DOMAIN frames = 1 .. Len(frames)
  BY FrameTypes
<1>4. Extends
  BY <1>1, <1>2, <1>3 DEF Extends
<1>5. Len(frames) + 1 \in DOMAIN frames' /\ DOMAIN frames \subseteq DOMAIN frames'
  BY <1>1, <1>3
<1>6. ASSUME NEW x, Boundary(x) PROVE Boundary(x)'
  <2>1. CASE x = Queued
    BY <1>1, <1>5, <2>1 DEF Boundary
  <2>2. CASE \E i \in DOMAIN frames :
                x = frames[i].at \/ x = frames[i].at + Width \/ x = frames[i].at + 2 * Width
    BY <1>1, <1>5, <2>2 DEF Boundary
  <2> QED
    BY <1>6, <2>1, <2>2 DEF Boundary
<1>7. ASSUME WholeWrites PROVE WholeWrites'
  <2>1. Sum(chunks)' = 0 /\ written \in Nat /\ held \in Nat
    BY <1>2, SumNone, Sizes DEF Sum, TypeOK
  <2>2. Boundary(written)'
    <3>1. PICK x : x = written
      OBVIOUS
    <3>2. Boundary(x)'
      BY <1>6, <1>7, <3>1 DEF WholeWrites
    <3> QED
      BY <1>2, <3>1, <3>2 DEF Boundary
  <2>3. written' + Sum(chunks)' = written'
    BY <1>2, <2>1
  <2>4. held' = Last'.held + Offset'
    BY <1>1, <1>2, <2>1 DEF Offset
  <2> QED
    BY <1>2, <2>2, <2>3, <2>4, SumNone DEF WholeWrites, Boundary
<1> QED
  BY <1>4, <1>6, <1>7, FitsBefore DEF FieldInv

LEMMA SameFramesExtend ==
    ASSUME UNCHANGED <<link, frames>>
    PROVE  Extends
BY DEF Extends

LEMMA PutFieldFields ==
    ASSUME StreamInv, StreamInv', FieldInv, PutField
    PROVE  FieldInv'
<1> USE DEF StreamInv
<1>1. /\ wpc \in Fields /\ chunks = <<>> /\ ~ended
      /\ Put(FieldSize)
      /\ UNCHANGED <<link, frames, written, ended>>
  BY DEF PutField, FieldSize
<1>2. Extends
  BY <1>1, SameFramesExtend
<1> SUFFICES ASSUME AllFit, ~Looping, WholeWrites PROVE WholeWrites'
  BY <1>2, FitsBefore DEF FieldInv
<1>3. /\ frames # <<>> /\ Last \in Frames /\ Last.at \in Nat /\ Last.length \in Nat
      /\ Last.held \in Nat /\ Size(Last) = 2 * Width + Last.length /\ Fits(Last)
  BY <1>1, QueuedBounds, FitBuffers DEF Layout
<1>4. PICK n : n = FieldSize
  OBVIOUS
<1>5. n \in Nat /\ n <= Segment /\ Offset + n <= Size(Last) /\ Offset \in Nat
  BY <1>1, <1>3, <1>4, Sizes DEF FieldSize, Offset, Fits, Fields
<1>6. held \in Nat /\ held <= WriteBuffer /\ written \in Nat
  BY Sizes DEF TypeOK
<1>7. PICK w, b, e : w = written /\ b = written + held /\ e = written + held + n
  OBVIOUS
<1>8. b = PutSoFar
  BY <1>1, <1>6, <1>7, SumNone DEF Accounts
<1>9. /\ chunks' \in Writes /\ Sum(chunks)' + held' = held + n
      /\ link.writer = "cpp" => held' = 0
  BY <1>1, <1>4, <1>5, PutKeeps
<1>10. e = PutSoFar'
  <2>1. Sum(chunks)' = Sum(chunks')
    BY DEF Sum
  <2>2. Sum(chunks)' \in Nat /\ held' \in Nat
    BY <1>9, <2>1, SumTyped, Sizes DEF TypeOK
  <2>3. written' + Sum(chunks)' + held' = PutSoFar'
    BY <1>1 DEF Accounts
  <2> QED
    BY <1>1, <1>5, <1>6, <1>7, <1>9, <2>2, <2>3
<1>11. Boundary(w)' /\ Boundary(b)' /\ Boundary(e)'
  <2>1. \A x : Boundary(x)' <=> Boundary(x)
    BY <1>1, SameBoundaries
  <2>2. Boundary(w) /\ Boundary(b)
    BY <1>7, <1>8, PutBoundary DEF WholeWrites
  <2>3. (StreamInv => Boundary(PutSoFar) /\ PutSoFar \in Nat)'
    BY PutBoundary, PTL
  <2>4. Boundary(e)'
    BY <1>10, <2>3 DEF Boundary
  <2> QED
    BY <2>1, <2>2, <2>4
\* What each writer's buffer lets through.
<1>12. /\ \A i \in DOMAIN chunks' : chunks'[i] <= Segment
       /\ Len(chunks') = 2 => chunks'[1] = held
       /\ Sum(chunks)' \in {0, held, held + n}
       /\ link.writer = "go" => held' = held + n
  <2>1. Sum(chunks)' = Sum(chunks')
    BY DEF Sum
  <2>2. link.writer \in Writers
    BY Sizes DEF TypeOK
  <2>3. CASE link.writer = "kotlin"
    <3>1. PutWhole(n) /\ WriteBuffer <= Segment
      BY <1>1, <1>3, <1>4, <2>3 DEF Put, Fits
    <3>2. CASE n >= WriteBuffer /\ held > 0
      <4>1. chunks' = <<held, n>> /\ held <= Segment
        BY <1>6, <3>1, <3>2, Sizes DEF PutWhole
      <4> QED
        BY <1>5, <1>6, <2>1, <2>3, <3>2, <4>1, SumTwo, Sizes
    <3>3. CASE n >= WriteBuffer /\ held = 0
      <4>1. chunks' = <<n>>
        BY <1>6, <3>1, <3>3, Sizes DEF PutWhole
      <4> QED
        BY <1>5, <1>6, <2>1, <2>3, <3>3, <4>1, SumOne, Sizes
    <3>4. CASE n < WriteBuffer /\ held + n > WriteBuffer
      <4>1. chunks' = <<held>> /\ held <= Segment /\ held > 0
        BY <1>5, <1>6, <3>1, <3>4, Sizes DEF PutWhole
      <4> QED
        BY <1>5, <1>6, <2>1, <2>3, <4>1, SumOne, Sizes
    <3>5. CASE n < WriteBuffer /\ held + n <= WriteBuffer
      <4>1. chunks' = <<>>
        BY <1>5, <1>6, <3>1, <3>5, Sizes DEF PutWhole
      <4> QED
        BY <2>1, <2>3, <4>1, SumNone
    <3> QED
      BY <1>5, <1>6, <3>2, <3>3, <3>4, <3>5, Sizes
  <2>4. CASE link.writer = "go"
    <3>1. PutFilling(n) /\ Last.held + Size(Last) <= WriteBuffer
      BY <1>1, <1>3, <1>4, <2>4 DEF Put, Fits
    <3>2. held = Last.held + Offset
      BY <1>1, <2>4 DEF WholeWrites
    <3>3. held + n - WriteBuffer <= 0
      <4>1. Size(Last) \in Nat
        BY <1>3, Sizes
      <4>2. held + n <= Last.held + Size(Last)
        BY <1>3, <1>5, <1>6, <3>2, <4>1
      <4> QED
        BY <1>3, <1>5, <1>6, <3>1, <4>1, <4>2, Sizes
    <3>4. chunks' = <<>> /\ held' = held + n
      BY <3>1, <3>3 DEF PutFilling
    <3> QED
      BY <2>1, <3>4, SumNone
  <2>5. CASE link.writer = "cpp"
    <3>1. PutDirect(n) /\ held = 0
      BY <1>1, <1>4, <2>5 DEF Put, Accounts
    <3>2. CASE n > 0
      <4>1. chunks' = <<n>>
        BY <3>1, <3>2 DEF PutDirect, Some
      <4> QED
        BY <1>5, <1>6, <2>1, <2>5, <3>1, <3>2, <4>1, SumOne, Sizes
    <3>3. CASE n = 0
      <4>1. chunks' = <<>>
        BY <3>1, <3>3 DEF PutDirect, Some
      <4> QED
        BY <2>1, <2>5, <4>1, SumNone
    <3> QED
      BY <1>5, <3>2, <3>3
  <2> QED
    BY <2>2, <2>3, <2>4, <2>5 DEF Writers
<1>13. written' + Sum(chunks)' \in {w, b, e} /\ (Len(chunks') = 2 => written' + chunks'[1] = b)
  BY <1>1, <1>5, <1>6, <1>7, <1>12
<1>14. /\ Boundary(written)'
       /\ Boundary(written + Sum(chunks))'
       /\ Len(chunks') = 2 => Boundary(written + chunks[1])'
  BY <1>1, <1>7, <1>11, <1>13 DEF Boundary
<1>15. link.writer' = "go" /\ wpc' \in Fields => held' = Last'.held + Offset'
  <2> SUFFICES ASSUME link.writer = "go", wpc' \in Fields
               PROVE  held' = Last'.held + Offset'
    BY <1>1
  <2>1. Last' = Last
    BY <1>1, SameFrames
  <2>2. held = Last.held + Offset
    BY <1>1 DEF WholeWrites
  <2>3. Offset' = Offset + n
    BY <1>4, Sizes DEF PutField, FieldSize, Offset, AfterData, Fields
  <2> QED
    BY <1>3, <1>5, <1>12, <2>1, <2>2, <2>3
<1> QED
  BY <1>12, <1>14, <1>15 DEF WholeWrites

LEMMA FlushFields ==
    ASSUME StreamInv, StreamInv', FieldInv, Flush
    PROVE  FieldInv'
<1> USE DEF StreamInv
<1>1. /\ wpc' = "idle" /\ chunks = <<>> /\ ~ended /\ wpc = "flush"
      /\ chunks' = Some(held)
      /\ UNCHANGED <<link, frames, written>>
  BY DEF Flush
<1>2. Extends
  BY <1>1, SameFramesExtend
<1> SUFFICES ASSUME AllFit, ~Looping, WholeWrites PROVE WholeWrites'
  BY <1>2, FitsBefore DEF FieldInv
<1>3. held \in Nat /\ written \in Nat
  BY Sizes DEF TypeOK
<1>4. PICK w, b : w = written /\ b = written + held
  OBVIOUS
<1>5. Boundary(w)' /\ Boundary(b)'
  <2>1. \A x : Boundary(x)' <=> Boundary(x)
    BY <1>1, SameBoundaries
  <2>2. b = PutSoFar
    BY <1>1, <1>3, <1>4, SumNone DEF Accounts
  <2> QED
    BY <1>4, <2>1, <2>2, PutBoundary DEF WholeWrites
<1>6. Sum(chunks)' = Sum(chunks')
  BY DEF Sum
<1>7. /\ \A i \in DOMAIN chunks' : chunks'[i] <= Segment
      /\ Len(chunks') # 2
      /\ Sum(chunks)' \in {0, held}
  <2>1. CASE held > 0
    <3>1. chunks' = <<held>> /\ held <= Segment
      BY <1>1, <1>3, <2>1, FitBuffers DEF Some, Accounts
    <3> QED
      BY <1>3, <1>6, <2>1, <3>1, SumOne
  <2>2. CASE held = 0
    BY <1>1, <1>6, <2>2, SumNone DEF Some
  <2> QED
    BY <1>3, <2>1, <2>2
<1>8. written' + Sum(chunks)' \in {w, b}
  BY <1>1, <1>3, <1>4, <1>7
<1>9. Boundary(written)' /\ Boundary(written + Sum(chunks))'
  BY <1>1, <1>4, <1>5, <1>8 DEF Boundary
<1> QED
  BY <1>1, <1>7, <1>9 DEF WholeWrites, Fields

LEMMA SendFields ==
    ASSUME StreamInv, FieldInv, SendSegment
    PROVE  FieldInv'
<1> USE DEF StreamInv
<1>1. ~ended /\ UNCHANGED <<link, frames, wpc, held>>
  BY DEF SendSegment
<1>2. Extends
  BY <1>1, SameFramesExtend
<1> SUFFICES ASSUME ~Looping, WholeWrites PROVE WholeWrites'
  BY <1>2, FitsBefore DEF FieldInv
<1>3. PICK k \in Nat :
              /\ k <= chunks[1]
              /\ k = chunks[1] \/ k = Segment
              /\ written' = written + k
              /\ chunks' \in Writes
              /\ Sum(chunks)' = Sum(chunks) - k
              /\ Sum(chunks) \in Nat /\ k <= Sum(chunks)
              /\ chunks \in Writes /\ chunks # <<>>
              /\ k = chunks[1] => chunks' = Tail(chunks)
  BY SendsSome
<1>4. chunks[1] \in Nat /\ 1 \in DOMAIN chunks
  BY <1>3, SumTyped
<1>5. k = chunks[1]
  BY <1>3, <1>4, Sizes DEF WholeWrites
<1>6. /\ Len(chunks') <= 1
      /\ Len(chunks) = 1 \/ Len(chunks) = 2
      /\ Len(chunks) = 2 => Len(chunks') = 1 /\ chunks'[1] = chunks[2]
      /\ Len(chunks) = 1 => chunks' = <<>>
  <2>1. /\ Len(chunks') <= 1
        /\ Len(chunks) = 2 => Len(chunks') = 1 /\ chunks'[1] = chunks[2]
        /\ Len(chunks) = 1 => chunks' = <<>>
    BY <1>3, <1>5, SumTail
  <2>2. Len(chunks) \in Nat /\ Len(chunks) # 0 /\ Len(chunks) <= 2
    BY <1>3, SeqBasics DEF Writes
  <2> QED
    BY <2>1, <2>2, OneOrTwo
<1>7. chunks \in Seq(Nat \ {0}) /\ chunks' \in Seq(Nat \ {0})
  BY <1>3 DEF Writes
<1>8. \A i \in DOMAIN chunks' : chunks'[i] <= Segment
  <2>1. CASE Len(chunks) = 2
    <3>1. DOMAIN chunks' = 1 .. 1 /\ 2 \in DOMAIN chunks
      BY <1>6, <1>7, <2>1, SeqBasics
    <3> QED
      BY <1>6, <2>1, <3>1 DEF WholeWrites
  <2>2. CASE Len(chunks) = 1
    BY <1>6, <2>2
  <2> QED
    BY <1>6, <2>1, <2>2
<1>9. PICK w, e : w = written + k /\ e = written + Sum(chunks)
  OBVIOUS
<1>10. Boundary(w) /\ Boundary(e)
  <2>1. CASE Len(chunks) = 2
    BY <1>5, <1>9, <2>1 DEF WholeWrites
  <2>2. CASE Len(chunks) = 1
    <3>1. Sum(chunks) = k
      BY <1>3, <1>5, <2>2 DEF Sum
    <3> QED
      BY <1>9, <3>1 DEF WholeWrites
  <2> QED
    BY <1>6, <1>9, <2>1, <2>2 DEF WholeWrites
<1>11. Boundary(w)' /\ Boundary(e)'
  BY <1>1, <1>10, SameBoundaries
<1>12. written \in Nat
  BY DEF TypeOK
<1>13. written' = w /\ written' + Sum(chunks)' = e
  BY <1>3, <1>9, <1>12
<1>14. Boundary(written)' /\ Boundary(written + Sum(chunks))'
  BY <1>11, <1>13 DEF Boundary
<1>15. Len(chunks') # 2
  BY <1>6
<1>16. Last' = Last /\ Offset' = Offset
  BY <1>1, SameFrames DEF Offset
<1> QED
  BY <1>1, <1>8, <1>14, <1>15, <1>16 DEF WholeWrites

\* A step that puts nothing into the socket.
LEMMA SocketKept ==
    ASSUME FieldInv, UNCHANGED <<link, frames, written>>,
           \/ chunks' = chunks /\ wpc' \notin Fields
           \/ chunks' = <<>> /\ wpc' \notin Fields
           \/ UNCHANGED <<chunks, wpc, held>>,
           TypeOK
    PROVE  FieldInv' /\ Extends
<1>1. Extends
  BY SameFramesExtend
<1> SUFFICES ASSUME WholeWrites PROVE WholeWrites'
  BY <1>1, FitsBefore DEF FieldInv
<1>2. PICK w, e : w = written /\ e = written + Sum(chunks)
  OBVIOUS
<1>3. Boundary(w)' /\ Boundary(e)'
  BY <1>2, SameBoundaries DEF WholeWrites
<1>4. Last' = Last
  BY SameFrames
<1>5. CASE chunks' = chunks
  <2>1. written' = w /\ written' + Sum(chunks)' = e
    BY <1>2, <1>5 DEF Sum
  <2>2. Boundary(written)' /\ Boundary(written + Sum(chunks))'
    BY <1>3, <2>1 DEF Boundary
  <2>3. Len(chunks') = 2 => Boundary(written + chunks[1])'
    <3>1. PICK b : b = written + chunks[1]
      OBVIOUS
    <3>2. Len(chunks) = 2 => Boundary(b)'
      BY <3>1, SameBoundaries DEF WholeWrites
    <3>3. written' + chunks'[1] = b
      BY <1>5, <3>1
    <3> QED
      BY <1>5, <3>2, <3>3 DEF Boundary
  <2>4. link.writer' = "go" /\ wpc' \in Fields => held' = Last'.held + Offset'
    BY <1>4, <1>5 DEF WholeWrites, Offset, Fields
  <2> QED
    BY <1>5, <2>2, <2>3, <2>4 DEF WholeWrites
<1>6. CASE chunks' = <<>> /\ wpc' \notin Fields
  <2>1. Sum(chunks)' = 0 /\ Len(chunks') # 2
    BY <1>6, SumNone DEF Sum
  <2>2. written' = w /\ written' + Sum(chunks)' = w
    BY <1>2, <2>1 DEF TypeOK
  <2>3. Boundary(written)' /\ Boundary(written + Sum(chunks))'
    BY <1>3, <2>2 DEF Boundary
  <2> QED
    BY <1>6, <2>1, <2>3 DEF WholeWrites
<1> QED
  BY <1>5, <1>6

LEMMA NextFields == StreamInv /\ StreamInv' /\ FieldInv /\ [Next]_vars => FieldInv' /\ Extends
<1> SUFFICES ASSUME StreamInv, StreamInv', FieldInv, [Next]_vars PROVE FieldInv' /\ Extends
  OBVIOUS
<1>1. CASE BeginFrame
  <2>1. PICK n \in Lengths : Begin(n, "message")
    BY <1>1 DEF BeginFrame
  <2>2. n \in Nat /\ "message" \in Tags /\ Idle
    BY <1>1, Sizes DEF Tags, BeginFrame
  <2> QED
    BY <2>1, <2>2, BeginFields
<1>2. CASE SetBuffering
  <2>1. PICK tag : tag = IF buffering THEN "STOP_BUFFERING" ELSE "START_BUFFERING"
    OBVIOUS
  <2>2. tag \in Tags /\ Begin(0, tag) /\ Idle
    BY <1>2, <2>1 DEF Tags, SetBuffering
  <2> QED
    BY <2>2, BeginFields
<1>3. CASE StartBuffering \/ StopBuffering
  <2>1. UNCHANGED <<link, frames, chunks, written>> /\ wpc' \notin Fields
    BY <1>3 DEF StartBuffering, StopBuffering, Idle, Fields
  <2> QED
    BY <2>1, SocketKept DEF StreamInv
<1>4. CASE PutField
  <2>1. UNCHANGED <<link, frames>>
    BY <1>4 DEF PutField
  <2> QED
    BY <1>4, <2>1, PutFieldFields, SameFramesExtend
<1>5. CASE Flush
  <2>1. UNCHANGED <<link, frames>>
    BY <1>5 DEF Flush
  <2> QED
    BY <1>5, <2>1, FlushFields, SameFramesExtend
<1>6. CASE SendSegment
  <2>1. UNCHANGED <<link, frames>>
    BY <1>6 DEF SendSegment
  <2> QED
    BY <1>6, <2>1, SendFields, SameFramesExtend
<1>7. CASE WriterEnds
  <2>1. UNCHANGED <<link, frames, written>> /\ chunks' = <<>> /\ wpc' \notin Fields
    BY <1>7 DEF WriterEnds, Fields
  <2> QED
    BY <2>1, SocketKept DEF StreamInv
<1>8. CASE ReadSome \/ ReadEmpty \/ EndOfStream \/ UNCHANGED vars
  <2>1. UNCHANGED <<link, frames, written, chunks, wpc, held>>
    BY <1>8 DEF ReadSome, ReadEmpty, EndOfStream, writerVars, vars
  <2> QED
    BY <2>1, SocketKept DEF StreamInv
<1> QED
  BY <1>1, <1>2, <1>3, <1>4, <1>5, <1>6, <1>7, <1>8
     DEF Next, Write, Read, Quiescent

-----------------------------------------------------------------------------
(* The reader stays in step. *)

LEMMA BoundaryWithin ==
    ASSUME StreamInv, NEW x, Boundary(x)
    PROVE  x \in Nat /\ x <= Queued
<1> USE DEF StreamInv
<1>1. CASE x = Queued
  BY <1>1, QueuedBounds
<1>2. CASE \E i \in DOMAIN frames :
              x = frames[i].at \/ x = frames[i].at + Width \/ x = frames[i].at + 2 * Width
  <2>1. PICK i \in DOMAIN frames :
              x = frames[i].at \/ x = frames[i].at + Width \/ x = frames[i].at + 2 * Width
    BY <1>2
  <2>2. /\ frames[i].at \in Nat /\ Size(frames[i]) >= 2 * Width /\ Size(frames[i]) \in Nat
        /\ frames[i].at + Size(frames[i]) <= Queued /\ Queued \in Nat
    BY FrameTypes, QueuedBounds
  <2> QED
    BY <2>1, <2>2, Sizes
<1> QED
  BY <1>1, <1>2 DEF Boundary

\* Between two fields that follow each other there is no boundary.
LEMMA NextBoundary ==
    ASSUME StreamInv, NEW i \in DOMAIN frames, NEW x, Boundary(x)
    PROVE  /\ x > frames[i].at => x >= frames[i].at + Width
           /\ x > frames[i].at + Width => x >= frames[i].at + 2 * Width
           /\ x > frames[i].at + 2 * Width => x >= frames[i].at + Size(frames[i])
<1> USE DEF StreamInv
<1>1. /\ frames[i].at \in Nat /\ Size(frames[i]) >= 2 * Width /\ Size(frames[i]) \in Nat
      /\ frames[i].at + Size(frames[i]) <= Queued /\ Queued \in Nat
  BY FrameTypes, QueuedBounds
<1>2. CASE x = Queued
  BY <1>1, <1>2, Sizes
<1>3. ASSUME NEW j \in DOMAIN frames,
             x = frames[j].at \/ x = frames[j].at + Width \/ x = frames[j].at + 2 * Width
      PROVE  /\ x > frames[i].at => x >= frames[i].at + Width
             /\ x > frames[i].at + Width => x >= frames[i].at + 2 * Width
             /\ x > frames[i].at + 2 * Width => x >= frames[i].at + Size(frames[i])
  <2>1. frames[j].at \in Nat /\ Size(frames[j]) >= 2 * Width /\ Size(frames[j]) \in Nat
    BY FrameTypes
  <2>2. CASE j < i
    <3>1. frames[j].at + Size(frames[j]) <= frames[i].at
      BY <2>2 DEF Layout
    <3> QED
      BY <1>1, <1>3, <2>1, <3>1, Sizes
  <2>3. CASE j = i
    BY <1>1, <1>3, <2>3, Sizes
  <2>4. CASE i < j
    <3>1. frames[i].at + Size(frames[i]) <= frames[j].at
      BY <2>4 DEF Layout
    <3> QED
      BY <1>1, <1>3, <2>1, <3>1, Sizes
  <2>5. j < i \/ j = i \/ i < j
    BY FrameTypes
  <2> QED
    BY <2>2, <2>3, <2>4, <2>5
<1> QED
  BY <1>2, <1>3 DEF Boundary

\* Where the field ends that the reader is in, when there is something to read.
LEMMA FieldEnds ==
    ASSUME StreamInv, InStep, NEW x \in Nat, Position < x, x <= Queued
    PROVE  /\ Following \in DOMAIN frames
           /\ FieldStart \in Nat /\ Position = FieldStart + got
           /\ Boundary(FieldStart + Need)
           /\ Boundary(x) /\ got = 0 => x >= FieldStart + Need
<1> USE DEF StreamInv
<1>1. /\ Position \in Nat /\ got \in Nat /\ got <= Position /\ Need \in Nat
      /\ FieldStart = Position - got /\ Queued \in Nat
  BY PositionTyped, WantTyped, QueuedBounds DEF Accounts, FieldStart
<1>2. Following \in DOMAIN frames
  <2> SUFFICES ASSUME FieldStart = Queued PROVE FALSE
    BY DEF InStep
  <2> QED
    BY <1>1
<1>3. PICK i \in DOMAIN frames : i = Following
  BY <1>2
<1>4. /\ frames[i].at \in Nat /\ frames[i].length \in Nat
      /\ Size(frames[i]) = 2 * Width + frames[i].length
  BY FrameTypes
<1>5. CASE rpc = "length"
  <2>1. FieldStart = frames[i].at /\ Need = Width
    BY <1>3, <1>5 DEF InStep, Need
  <2>2. FieldStart + Need = frames[i].at + Width
    BY <2>1
  <2> QED
    BY <1>1, <1>2, <1>4, <2>1, <2>2, NextBoundary DEF Boundary
<1>6. CASE rpc = "tag"
  <2>1. FieldStart = frames[i].at + Width /\ Need = Width
    BY <1>3, <1>6 DEF InStep, Need
  <2>2. FieldStart + Need = frames[i].at + 2 * Width
    BY <1>4, <2>1, Sizes
  <2> QED
    BY <1>1, <1>2, <2>1, <2>2, NextBoundary DEF Boundary
<1>7. CASE rpc = "data"
  <2>1. FieldStart = frames[i].at + 2 * Width /\ Need = frames[i].length
    BY <1>3, <1>7 DEF InStep, Need
  <2>2. FieldStart + Need = frames[i].at + Size(frames[i])
    BY <1>4, <2>1, Sizes
  <2>3. CASE i + 1 \in DOMAIN frames
    <3>1. frames[i + 1].at = frames[i].at + Size(frames[i])
      BY <2>3 DEF Layout
    <3> QED
      BY <1>1, <1>2, <2>1, <2>2, <2>3, <3>1, NextBoundary DEF Boundary
  <2>4. CASE i + 1 \notin DOMAIN frames
    <3>1. i = Len(frames) /\ frames # <<>>
      BY <2>4, FrameTypes
    <3>2. Queued = frames[i].at + Size(frames[i])
      BY <3>1, QueuedBounds
    <3> QED
      BY <1>1, <1>2, <2>1, <2>2, <3>2, NextBoundary DEF Boundary
  <2> QED
    BY <2>3, <2>4
<1> QED
  BY <1>5, <1>6, <1>7 DEF InStep

\* The next frame begins where this one ends.
LEMMA FrameEnds ==
    ASSUME StreamInv, NEW i \in DOMAIN frames
    PROVE  /\ i + 1 \in DOMAIN frames => frames[i + 1].at = frames[i].at + Size(frames[i])
           /\ i + 1 \notin DOMAIN frames => Queued = frames[i].at + Size(frames[i])
<1> USE DEF StreamInv
<1>1. CASE i + 1 \in DOMAIN frames
  BY <1>1 DEF Layout
<1>2. CASE i + 1 \notin DOMAIN frames
  <2>1. i = Len(frames) /\ frames # <<>>
    BY <1>2, FrameTypes
  <2> QED
    BY <1>2, <2>1, QueuedBounds
<1> QED
  BY <1>1, <1>2

\* A field that is read whole is the right one, and the next one follows.
LEMMA FieldComplete ==
    ASSUME StreamInv, InStep, Intact, ~split, UNCHANGED <<link, frames, ended, written, split>>,
           NEW p \in Nat, p = FieldStart + Need, FieldRead(Need, p),
           Following \in DOMAIN frames, FieldStart \in Nat,
           Position' = p, Looping \/ Boundary(taken)'
    PROVE  InStep' /\ Intact'
<1> USE DEF StreamInv
<1>1. PICK i \in DOMAIN frames : i = Following
  OBVIOUS
<1>2. /\ frames[i].at \in Nat /\ frames[i].length \in Nat
      /\ Size(frames[i]) = 2 * Width + frames[i].length
      /\ DOMAIN frames = 1 .. Len(frames) /\ Len(frames) \in Nat
  BY FrameTypes
<1>3. /\ received \in Seq(Data) /\ Len(received) \in Nat /\ i = Len(received) + 1
  BY <1>1 DEF TypeOK, Following
<1>4. got' = 0 /\ FieldStart' = p
  BY DEF FieldRead, FieldStart
<1>5. Looping' = Looping /\ frames' = frames
  BY DEF Looping
<1>6. Aligned(frames[i].at)
  BY <1>1, <1>2, <1>3 DEF Aligned, Following
<1>7. CASE rpc = "length"
  <2>1. FieldStart = frames[i].at /\ Need = Width
    BY <1>1, <1>7 DEF InStep, Need
  <2>2. rpc' = "tag" /\ length' \in Decoded(p - Need, Need) /\ received' = received
    BY <1>7 DEF FieldRead
  <2>3. p - Need = frames[i].at
    <3>1. p = frames[i].at + Width
      BY <2>1
    <3> QED
      BY <1>2, <2>1, <3>1, Sizes
  <2>4. length' = frames[i].length
    BY <1>1, <1>6, <2>1, <2>2, <2>3 DEF Decoded, Following
  <2>5. Following' = i
    BY <1>1, <2>2 DEF Following
  <2>6. InStep'
    BY <1>2, <1>3, <1>4, <1>5, <2>1, <2>2, <2>4, <2>5 DEF InStep
  <2> QED
    BY <2>2, <2>6 DEF Intact, Cut, Size
<1>8. CASE rpc = "tag"
  <2>1. FieldStart = frames[i].at + Width /\ Need = Width /\ length = frames[i].length
    BY <1>1, <1>8 DEF InStep, Need
  <2>2. p = frames[i].at + 2 * Width /\ p - 2 * Width = frames[i].at
    <3>1. PICK a, w : a = frames[i].at /\ w = Width
      OBVIOUS
    <3>2. a \in Nat /\ w \in Nat /\ p = a + w + w
      BY <1>2, <2>1, <3>1, Sizes
    <3>3. p = a + 2 * w /\ p - 2 * w = a
      BY <3>2
    <3> QED
      BY <3>1, <3>3
  <2>3. rpc' = "data" /\ length' = length /\ received' = received
    BY <1>6, <1>8, <2>1, <2>2 DEF FieldRead
  <2>4. Following' = i
    BY <1>1, <2>3 DEF Following
  <2>5. InStep'
    BY <1>2, <1>3, <1>4, <1>5, <2>1, <2>2, <2>3, <2>4 DEF InStep
  <2> QED
    BY <2>3, <2>5 DEF Intact, Cut, Size
<1>9. CASE rpc = "data"
  <2>1. /\ FieldStart = frames[i].at + 2 * Width /\ Need = length
        /\ length = frames[i].length
    BY <1>1, <1>9 DEF InStep, Need
  <2>2. PICK d : d = [from |-> p - Need, upto |-> p, length |-> length]
    OBVIOUS
  <2>3. rpc' = "length" /\ received' = Append(received, d)
    BY <1>9, <2>2 DEF FieldRead
  <2>4. p - Need = frames[i].at + 2 * Width /\ p = frames[i].at + Size(frames[i])
    <3>1. PICK a, l : a = frames[i].at /\ l = frames[i].length
      OBVIOUS
    <3>2. PICK w : w = Width
      OBVIOUS
    <3>3. a \in Nat /\ l \in Nat /\ w \in Nat /\ p = a + 2 * w + l /\ Need = l
      BY <1>2, <2>1, <3>1, <3>2, Sizes
    <3>4. p - l = a + 2 * w /\ p = a + (2 * w + l)
      BY <3>3
    <3>5. Size(frames[i]) = 2 * w + l
      BY <1>2, <3>1, <3>2
    <3> QED
      BY <3>1, <3>2, <3>3, <3>4, <3>5
  <2>5. d = [from |-> frames[i].at + 2 * Width, upto |-> frames[i].at + Size(frames[i]),
             length |-> frames[i].length]
    BY <2>1, <2>2, <2>4
  <2>6. d \in Data
    BY <1>2, <2>2, <2>4, <2>1, Sizes DEF Data
  <2>7. /\ Len(received') = i /\ DOMAIN received = 1 .. Len(received)
        /\ DOMAIN received' = 1 .. i
        /\ \A j \in DOMAIN received : received'[j] = received[j]
        /\ received'[i] = d
    BY <1>3, <2>3, <2>6, AppendOne
  <2>8. Following' = i + 1
    BY <2>7 DEF Following
  <2>9. Queued' = Queued
    BY SameFrames
  <2>10. InStep'
    BY <1>2, <1>4, <1>5, <2>3, <2>4, <2>7, <2>8, <2>9, FrameEnds DEF InStep
  <2>11. Intact'
    <3> SUFFICES ASSUME NEW j \in DOMAIN received'
                 PROVE  /\ j \in DOMAIN frames
                        /\ \/ received'[j] = [from   |-> frames[j].at + 2 * Width,
                                              upto   |-> frames[j].at + Size(frames[j]),
                                              length |-> frames[j].length]
                           \/ Cut(frames[j]) /\ link.reader \in {"go", "python"}
      BY DEF Intact, Cut, Size
    <3>1. CASE j = i
      BY <2>5, <2>7, <3>1
    <3>2. CASE j # i
      <4>1. j \in DOMAIN received
        BY <1>3, <2>7, <3>2
      <4> QED
        BY <2>7, <4>1 DEF Intact
    <3> QED
      BY <3>1, <3>2
  <2> QED
    BY <2>10, <2>11
<1> QED
  BY <1>7, <1>8, <1>9 DEF InStep

\* What StepInv says of the reader within the limits.
Follows == ~split /\ Intact /\ (InStep \/ AtEnd \/ rpc = "closed")

LEMMA InitFollows == Init => Follows
<1> SUFFICES ASSUME Init PROVE Follows
  OBVIOUS
<1>1. /\ frames = <<>> /\ received = <<>> /\ rpc = "length" /\ got = 0 /\ split = FALSE
      /\ taken = 0 /\ buffered = 0
  BY DEF Init
<1>2. Len(received) = 0 /\ Len(frames) = 0 /\ DOMAIN frames = {} /\ DOMAIN received = {}
  BY <1>1
<1>3. Queued = 0 /\ FieldStart = 0
  BY <1>1 DEF Queued, FieldStart, Position
<1>4. Boundary(taken)
  BY <1>1, <1>3 DEF Boundary
<1>5. InStep
  BY <1>1, <1>2, <1>3, <1>4 DEF InStep
<1> QED
  BY <1>1, <1>2, <1>5 DEF Follows, Intact

\* The writer's steps do not put a reader out of step.
LEMMA WriterKeepsFollows ==
    ASSUME StreamInv, Follows, Extends, UNCHANGED readerVars,
           \A x : Boundary(x) => Boundary(x)',
           ended => UNCHANGED <<frames, written, ended>>,
           \/ UNCHANGED frames
           \/ /\ Len(frames') = Len(frames) + 1
              /\ frames'[Len(frames) + 1].at = Queued
              /\ DOMAIN frames' = 1 .. Len(frames) + 1
    PROVE  Follows'
<1> USE DEF StreamInv
<1>1. /\ UNCHANGED <<taken, buffered, rpc, got, length, received, split, link>>
      /\ Looping' = Looping /\ Need' = Need /\ FieldStart' = FieldStart
      /\ Following' = Following
  BY DEF Extends, readerVars, Looping, Need, FieldStart, Position, Following
<1>2. /\ \A i \in DOMAIN frames : i \in DOMAIN frames' /\ frames'[i] = frames[i]
      /\ \A f : Cut(f) => Cut(f)'
  BY DEF Extends, Cut, Size
<1>3. Intact => Intact'
  <2> SUFFICES ASSUME Intact, NEW j \in DOMAIN received
               PROVE  /\ j \in DOMAIN frames'
                      /\ \/ received'[j] = [from   |-> frames'[j].at + 2 * Width,
                                            upto   |-> frames'[j].at + Size(frames[j])',
                                            length |-> frames'[j].length]
                         \/ Cut(frames[j])' /\ link.reader \in {"go", "python"}
    BY <1>1 DEF Intact
  <2>1. /\ j \in DOMAIN frames /\ j \in DOMAIN frames'
        /\ frames'[j] = frames[j] /\ Size(frames[j])' = Size(frames[j])
    BY <1>2 DEF Intact, Size
  <2>2. CASE Cut(frames[j]) /\ link.reader \in {"go", "python"}
    <3>1. ended /\ written < frames[j].at + Size(frames[j]) /\ ended' = ended /\ written' = written
      BY <2>2 DEF Cut
    <3>2. Cut(frames[j])'
      BY <2>1, <3>1 DEF Cut
    <3> QED
      BY <2>1, <2>2, <3>2
  <2>3. CASE received[j] = [from   |-> frames[j].at + 2 * Width,
                            upto   |-> frames[j].at + Size(frames[j]),
                            length |-> frames[j].length]
    <3>1. received' = received
      BY <1>1
    <3> QED
      BY <2>1, <2>3, <3>1
  <2> QED
    BY <2>2, <2>3 DEF Intact
<1>4. ASSUME InStep PROVE InStep'
  <2>1. /\ Len(frames) \in Nat /\ DOMAIN frames = 1 .. Len(frames)
        /\ Len(received) \in Nat
    BY FrameTypes DEF TypeOK
  <2>2. Len(received) <= Len(frames)
    BY <1>4 DEF InStep
  <2>3. Looping \/ Boundary(taken)'
    <3>1. PICK x : x = taken
      OBVIOUS
    <3>2. Boundary(x) => Boundary(x)'
      OBVIOUS
    <3>3. Boundary(x)' => Boundary(taken)'
      BY <1>1, <3>1 DEF Boundary
    <3> QED
      BY <1>4, <3>1, <3>2, <3>3 DEF InStep
  <2>4. CASE UNCHANGED frames
    <3>1. Queued' = Queued
      BY <2>4, SameFrames
    <3> QED
      BY <1>1, <1>4, <2>3, <2>4, <3>1 DEF InStep
  <2>5. CASE /\ Len(frames') = Len(frames) + 1
             /\ frames'[Len(frames) + 1].at = Queued
             /\ DOMAIN frames' = 1 .. Len(frames) + 1
    <3>1. Following \in DOMAIN frames'
      BY <2>1, <2>2, <2>5 DEF Following
    <3>2. Following \notin DOMAIN frames => Following = Len(frames) + 1
      BY <2>1, <2>2 DEF Following
    <3>3. Len(received) <= Len(frames')
      BY <2>1, <2>2, <2>5
    <3>4. Following \notin DOMAIN frames => frames'[Following].at = Queued
      BY <2>5, <3>2
    <3> QED
      BY <1>1, <1>2, <1>4, <2>3, <3>1, <3>3, <3>4 DEF InStep
  <2> QED
    BY <2>4, <2>5
<1>5. ASSUME AtEnd PROVE AtEnd'
  BY <1>1, <1>5 DEF AtEnd, Cut, Size
<1> QED
  BY <1>1, <1>3, <1>4, <1>5 DEF Follows

\* Within the limits a read that takes bytes takes the whole field.
LEMMA ReadsWhole ==
    ASSUME StreamInv, WholeWrites, AllFit, ~Looping, InStep, UNCHANGED frames,
           NEW k \in Nat, k > 0, k <= Want, Position + k <= written,
           taken' \in Nat, taken' <= written,
           \/ taken' = taken /\ (k = Want \/ k = buffered)
           \/ /\ buffered = 0 /\ taken' = taken + k
              /\ k = Want \/ taken' = written
           \/ /\ buffered = 0 /\ link.reader \in {"kotlin", "go"}
              /\ taken' = written \/ taken' = taken + ReadBuffer
              /\ k = Want \/ taken' = taken + k
    PROVE  k = Want /\ Boundary(taken)'
<1> USE DEF StreamInv
<1>1. /\ Need \in Nat /\ Want = Need - got /\ written \in Nat /\ taken \in Nat
      /\ buffered \in Nat /\ Position \in Nat /\ Position = taken - buffered
      /\ Queued \in Nat /\ written <= Queued /\ taken <= written
  BY WantTyped, PositionTyped, QueuedBounds DEF Accounts
<1>2. got = 0
  BY DEF InStep
<1>3. PICK x \in Nat : x = Position + k
  BY <1>1
<1>4. /\ Following \in DOMAIN frames /\ Position = FieldStart + got
      /\ FieldStart \in Nat /\ Boundary(FieldStart + Need)
  <2>1. Position < x /\ x <= Queued
    BY <1>1, <1>3
  <2> QED
    BY <2>1, FieldEnds
<1>5. Position = FieldStart
  BY <1>2, <1>4
<1>6. ASSUME NEW y \in Nat, Boundary(y), Position < y, y <= Queued
      PROVE  y >= Position + Need
  BY <1>2, <1>5, <1>6, FieldEnds
<1>7. Boundary(taken) /\ Boundary(written)
  BY DEF InStep, WholeWrites
<1>8. CASE taken' = taken /\ (k = Want \/ k = buffered)
  <2>1. k = buffered => taken >= Position + Need
    BY <1>1, <1>6, <1>7
  <2>2. k = Want
    BY <1>1, <1>2, <1>8, <2>1
  <2> QED
    BY <1>7, <1>8, <2>2, SameBoundaries DEF Boundary
<1>9. taken' = written => k = Want \/ taken' # taken + k \/ buffered # 0
  <2> SUFFICES ASSUME taken' = written, taken' = taken + k, buffered = 0 PROVE k = Want
    OBVIOUS
  <2>1. written > Position
    BY <1>1
  <2>2. written >= Position + Need
    BY <1>1, <1>6, <1>7, <2>1
  <2> QED
    BY <1>1, <1>2, <2>2
<1>10. CASE /\ buffered = 0 /\ taken' = taken + k
            /\ k = Want \/ taken' = written
  <2>1. k = Want
    BY <1>9, <1>10
  <2>2. PICK e : e = FieldStart + Need
    OBVIOUS
  <2>3. Boundary(e)'
    BY <1>4, <2>2, SameBoundaries
  <2>4. taken' = e
    BY <1>1, <1>2, <1>4, <1>10, <2>1, <2>2
  <2> QED
    BY <2>1, <2>3, <2>4 DEF Boundary
<1>11. CASE /\ buffered = 0 /\ link.reader \in {"kotlin", "go"}
            /\ taken' = written \/ taken' = taken + ReadBuffer
            /\ k = Want \/ taken' = taken + k
  <2>1. taken' = written
    <3>1. link.reader = "kotlin"
      BY <1>11 DEF Looping
    <3>2. frames # <<>> /\ Last \in Frames /\ Last.ahead \in Nat /\ Fits(Last)
      BY <1>4, QueuedBounds, FrameTypes, FitBuffers
    <3>3. Queued - Position <= ReadBuffer
      <4>1. Last.ahead <= ReadBuffer
        BY <3>1, <3>2 DEF Fits
      <4>2. Queued - Position <= Last.ahead
        BY <3>2 DEF Accounts
      <4> QED
        BY <1>1, <3>2, <4>1, <4>2, Sizes
    <3> QED
      BY <1>1, <1>11, <3>3, Sizes
  <2>2. k = Want
    BY <1>9, <1>11, <2>1
  <2>3. PICK w : w = written
    OBVIOUS
  <2>4. Boundary(w)'
    BY <1>7, <2>3, SameBoundaries
  <2> QED
    BY <2>1, <2>2, <2>3, <2>4 DEF Boundary
<1> QED
  BY <1>8, <1>10, <1>11

LEMMA ReadSomeFollows ==
    ASSUME StreamInv, FieldInv, AllFit, Follows, ReadSome
    PROVE  Follows'
<1> USE DEF StreamInv
<1>1. PICK k \in Nat :
              /\ k > 0 /\ k <= Want /\ rpc # "closed"
              /\ Returned(k, Position + k)
              /\ Position' = Position + k /\ Position + k <= written
              /\ taken' \in Nat /\ taken <= taken' /\ taken' <= written
              /\ \/ taken' = taken /\ (k = Want \/ k = buffered)
                 \/ /\ buffered = 0 /\ taken' = taken + k
                    /\ k = Want \/ taken' = written
                 \/ /\ buffered = 0 /\ link.reader \in {"kotlin", "go"}
                    /\ taken' = written \/ taken' = taken + ReadBuffer
                    /\ k = Want \/ taken' = taken + k
  BY ReadSomeTakes
<1>2. /\ Need \in Nat /\ Want = Need - got /\ written \in Nat /\ taken \in Nat /\ got \in Nat
      /\ buffered \in Nat /\ Position \in Nat /\ Position = taken - buffered
      /\ Queued \in Nat /\ written <= Queued
  BY WantTyped, PositionTyped, QueuedBounds DEF Accounts
<1>3. UNCHANGED <<link, frames, ended, written>>
  BY DEF ReadSome, writerVars
<1>4. InStep /\ Intact /\ ~split
  <2>1. ~AtEnd
    BY <1>1, <1>2 DEF AtEnd
  <2> QED
    BY <1>1, <2>1 DEF Follows
<1>5. PICK p \in Nat : p = Position + k
  BY <1>2
<1>6. /\ Following \in DOMAIN frames /\ Position = FieldStart + got
      /\ FieldStart \in Nat
  <2>1. Position < p /\ p <= Queued
    BY <1>1, <1>2, <1>5
  <2> QED
    BY <1>4, <2>1, FieldEnds
<1>7. Looping \/ (k = Want /\ Boundary(taken)')
  <2> SUFFICES ASSUME ~Looping PROVE k = Want /\ Boundary(taken)'
    OBVIOUS
  <2>1. WholeWrites
    BY DEF FieldInv
  <2> QED
    BY <1>1, <1>3, <1>4, <2>1, ReadsWhole
<1>8. CASE got + k = Need
  <2>1. FieldRead(Need, p) /\ split' = split
    BY <1>1, <1>2, <1>5, <1>8 DEF Returned
  <2>2. p = FieldStart + Need
    BY <1>2, <1>5, <1>6, <1>8
  <2>3. Position' = p
    BY <1>1, <1>5
  <2>4. InStep' /\ Intact'
    BY <1>3, <1>4, <1>6, <1>7, <2>1, <2>2, <2>3, FieldComplete
  <2> QED
    BY <1>4, <2>1, <2>4 DEF Follows
<1>9. CASE got + k < Need
  <2>1. Looping /\ ~Checking
    BY <1>2, <1>7, <1>9 DEF Looping, Checking
  <2>2. got' = got + k /\ UNCHANGED <<rpc, length, received, split>>
    BY <1>1, <1>2, <1>9, <2>1 DEF Returned
  <2>3. /\ FieldStart' = FieldStart /\ Following' = Following /\ Need' = Need
        /\ Looping' = Looping /\ Queued' = Queued
    BY <1>1, <1>2, <1>3, <2>2, SameFrames DEF FieldStart, Following, Need, Looping
  <2>4. InStep'
    BY <1>3, <1>4, <1>6, <1>9, <2>1, <2>2, <2>3 DEF InStep
  <2>5. Intact'
    BY <1>3, <1>4, <2>2 DEF Intact, Cut, Size
  <2> QED
    BY <1>4, <2>2, <2>4, <2>5 DEF Follows
<1> QED
  BY <1>1, <1>2, <1>8, <1>9

\* What a reader that does not look at the end of the stream returns then.
LEMMA CutReturned ==
    ASSUME StreamInv, Intact, ~split, UNCHANGED <<link, frames, ended, written>>,
           rpc = "data", Following \in DOMAIN frames, Cut(frames[Following]),
           link.reader \in {"go", "python"},
           NEW n \in Nat, NEW p \in Nat, n <= p, FieldRead(n, p)
    PROVE  Intact' /\ rpc' = "length" /\ got' = 0
<1> USE DEF StreamInv
<1>1. PICK d : d = [from |-> p - n, upto |-> p, length |-> length]
  OBVIOUS
<1>2. rpc' = "length" /\ got' = 0 /\ received' = Append(received, d)
  BY <1>1 DEF FieldRead
<1>3. d \in Data
  <2>1. length \in Nat /\ p - n \in Nat
    BY DEF TypeOK
  <2> QED
    BY <1>1, <2>1 DEF Data
<1>4. received \in Seq(Data) /\ Len(received) \in Nat
  BY DEF TypeOK
<1>5. /\ DOMAIN received = 1 .. Len(received)
      /\ DOMAIN received' = 1 .. Len(received) + 1
      /\ \A j \in DOMAIN received : received'[j] = received[j]
  BY <1>2, <1>3, <1>4, AppendOne
<1>6. Intact'
  <2> SUFFICES ASSUME NEW j \in DOMAIN received'
               PROVE  /\ j \in DOMAIN frames
                      /\ \/ received'[j] = [from   |-> frames[j].at + 2 * Width,
                                            upto   |-> frames[j].at + Size(frames[j]),
                                            length |-> frames[j].length]
                         \/ Cut(frames[j]) /\ link.reader \in {"go", "python"}
    BY DEF Intact, Cut, Size
  <2>1. CASE j = Following
    BY <2>1
  <2>2. CASE j # Following
    <3>1. j \in DOMAIN received
      BY <1>4, <1>5, <2>2 DEF Following
    <3> QED
      BY <1>5, <3>1 DEF Intact
  <2> QED
    BY <2>1, <2>2
<1> QED
  BY <1>2, <1>6

\* A reader that stops has returned what it had.
LEMMA ClosedFollows ==
    ASSUME Follows, UNCHANGED <<link, frames, ended, written, received, split>>, rpc' = "closed"
    PROVE  Follows'
BY DEF Follows, Intact, Cut, Size

LEMMA ReadEmptyFollows ==
    ASSUME StreamInv, FieldInv, AllFit, Follows, ReadEmpty
    PROVE  Follows'
<1> USE DEF StreamInv
<1>1. /\ rpc = "data" /\ Want = 0
      /\ UNCHANGED <<link, frames, ended, written, taken, buffered, split>>
  BY DEF ReadEmpty, writerVars
<1>2. /\ Need \in Nat /\ Want = Need - got /\ got \in Nat
      /\ Position \in Nat /\ Position' = Position
  BY <1>1, WantTyped, PositionTyped DEF Position
<1>3. CASE rpc' = "closed" /\ UNCHANGED <<got, length, received>>
  BY <1>1, <1>3, ClosedFollows
<1>4. CASE FieldRead(got, Position)
  <2>1. PICK p \in Nat : p = Position
    BY <1>2
  <2>2. CASE InStep
    <3>1. got = 0 /\ Need = 0 /\ (Looping \/ Boundary(taken))
      BY <1>1, <1>2, <2>2 DEF InStep
    <3>2. FieldRead(Need, p)
      BY <1>4, <2>1, <3>1
    <3>3. p = FieldStart + Need /\ FieldStart \in Nat /\ Position' = p
      BY <1>2, <2>1, <3>1 DEF FieldStart
    <3>4. Following \in DOMAIN frames
      BY <1>1, <2>2 DEF InStep
    <3>5. Looping \/ Boundary(taken)'
      BY <1>1, <3>1, SameBoundaries DEF Boundary
    <3>6. InStep' /\ Intact'
      BY <1>1, <2>2, <3>2, <3>3, <3>4, <3>5, FieldComplete DEF Follows
    <3> QED
      BY <1>1, <3>6 DEF Follows
  <2>3. CASE AtEnd
    <3>1. /\ Following \in DOMAIN frames /\ Cut(frames[Following])
          /\ link.reader \in {"go", "python"} /\ got = 0
      BY <1>1, <2>3 DEF AtEnd
    <3>2. Intact' /\ rpc' = "length" /\ got' = 0
      BY <1>1, <1>2, <1>4, <2>1, <3>1, CutReturned DEF Follows
    <3>3. AtEnd'
      BY <1>1, <2>3, <3>2 DEF AtEnd
    <3> QED
      BY <1>1, <3>2, <3>3 DEF Follows
  <2> QED
    BY <1>1, <2>2, <2>3 DEF Follows
<1> QED
  BY <1>3, <1>4 DEF ReadEmpty

LEMMA EndOfStreamFollows ==
    ASSUME StreamInv, AllFit, Follows, EndOfStream
    PROVE  Follows'
<1> USE DEF StreamInv
<1>1. /\ rpc # "closed" /\ Want > 0 /\ ended /\ Avail = 0 /\ buffered = 0
      /\ UNCHANGED <<link, frames, ended, written, taken, buffered, split>>
  BY DEF EndOfStream, writerVars
<1>2. /\ Need \in Nat /\ Want = Need - got /\ got \in Nat /\ got < Need
      /\ Position \in Nat /\ got <= Position /\ taken = written /\ Position = written
      /\ written \in Nat /\ Position' = Position
  <2>1. /\ Need \in Nat /\ Want = Need - got /\ got \in Nat /\ Avail = written - taken
        /\ written \in Nat /\ taken \in Nat /\ Position \in Nat /\ Position = taken - buffered
        /\ got <= Position
    BY WantTyped, PositionTyped DEF Accounts
  <2>2. Position' = Position
    BY <1>1 DEF Position
  <2> QED
    BY <1>1, <2>1, <2>2
<1>3. CASE rpc' = "closed" /\ UNCHANGED <<got, length, received>>
  BY <1>1, <1>3, ClosedFollows
<1>4. CASE FieldRead(got, Position) /\ rpc # "length" /\ link.reader \in {"go", "python"}
  <2>1. /\ rpc \in {"tag", "data"} /\ Following \in DOMAIN frames
        /\ Cut(frames[Following])
    <3>1. rpc \in {"tag", "data"}
      BY <1>1, <1>4 DEF TypeOK, Fields
    <3>2. CASE InStep
      <4>1. Following \in DOMAIN frames
        BY <1>4, <3>1, <3>2 DEF InStep
      <4>2. PICK f : f = frames[Following]
        OBVIOUS
      <4>3. f.at \in Nat /\ f.length \in Nat /\ Size(f) = 2 * Width + f.length
        BY <4>1, <4>2, FrameTypes
      <4>4. written = FieldStart + got
        BY <1>2 DEF FieldStart
      <4>5. CASE rpc = "tag"
        <5>1. FieldStart = f.at + Width /\ Need = Width
          BY <3>2, <4>2, <4>5 DEF InStep, Need
        <5> QED
          BY <1>1, <1>2, <3>1, <4>1, <4>2, <4>3, <4>4, <5>1, Sizes DEF Cut
      <4>6. CASE rpc = "data"
        <5>1. FieldStart = f.at + 2 * Width /\ Need = f.length
          BY <3>2, <4>2, <4>6 DEF InStep, Need
        <5> QED
          BY <1>1, <1>2, <3>1, <4>1, <4>2, <4>3, <4>4, <5>1, Sizes DEF Cut
      <4> QED
        BY <3>1, <4>5, <4>6
    <3>3. CASE AtEnd
      BY <1>4, <3>1, <3>3 DEF AtEnd
    <3> QED
      BY <1>1, <3>2, <3>3 DEF Follows
  <2>2. CASE rpc = "tag"
    <3>1. /\ got' = 0 /\ rpc' \in {"length", "data", "closed"}
          /\ UNCHANGED <<length, received>>
      BY <1>4, <2>2 DEF FieldRead
    <3>2. Intact' /\ Following' = Following /\ (Cut(frames[Following]))'
      BY <1>1, <2>1, <3>1 DEF Follows, Intact, Cut, Size, Following
    <3>3. AtEnd' \/ rpc' = "closed"
      BY <1>1, <1>2, <1>4, <2>1, <3>1, <3>2 DEF AtEnd
    <3> QED
      BY <1>1, <3>2, <3>3 DEF Follows
  <2>3. CASE rpc = "data"
    <3>1. PICK p \in Nat : p = Position
      BY <1>2
    <3>2. Intact' /\ rpc' = "length" /\ got' = 0
      BY <1>1, <1>2, <1>4, <2>1, <2>3, <3>1, CutReturned DEF Follows
    <3>3. AtEnd'
      BY <1>1, <1>2, <3>2 DEF AtEnd
    <3> QED
      BY <1>1, <3>2, <3>3 DEF Follows
  <2> QED
    BY <2>1, <2>2, <2>3
<1> QED
  BY <1>3, <1>4 DEF EndOfStream

LEMMA NextSteps ==
    StreamInv /\ StreamInv' /\ FieldInv /\ StepInv /\ [Next]_vars => StepInv'
<1> SUFFICES ASSUME StreamInv, StreamInv', FieldInv, StepInv, [Next]_vars, AllFit'
             PROVE  Follows'
  BY DEF StepInv, Follows
<1>1. Extends
  BY NextFields
<1>2. AllFit /\ Follows
  BY <1>1, FitsBefore DEF StepInv, Follows
<1>3. ASSUME NEW n \in Nat, NEW tag \in Tags, Begin(n, tag), Idle PROVE Follows'
  <2>1. \A x : Boundary(x) => Boundary(x)'
    BY <1>3, BeginFields
  <2>2. PICK f \in Frames :
              /\ f.at = Queued
              /\ Len(frames') = Len(frames) + 1 /\ DOMAIN frames' = 1 .. Len(frames) + 1
              /\ frames'[Len(frames) + 1] = f
    BY <1>3, BeginAppends
  <2>3. UNCHANGED readerVars /\ ~ended
    BY <1>3 DEF Begin, Idle
  <2> QED
    BY <1>1, <1>2, <2>1, <2>2, <2>3, WriterKeepsFollows
<1>4. ASSUME UNCHANGED frames, UNCHANGED readerVars, ended => UNCHANGED <<written, ended>>
      PROVE  Follows'
  <2>1. \A x : Boundary(x) => Boundary(x)'
    BY <1>4, SameBoundaries
  <2> QED
    BY <1>1, <1>2, <1>4, <2>1, WriterKeepsFollows
<1>5. CASE BeginFrame
  <2>1. PICK n \in Lengths : Begin(n, "message")
    BY <1>5 DEF BeginFrame
  <2>2. n \in Nat /\ "message" \in Tags /\ Idle
    BY <1>5, Sizes DEF Tags, BeginFrame
  <2> QED
    BY <1>3, <2>1, <2>2
<1>6. CASE SetBuffering
  <2>1. PICK tag : tag = IF buffering THEN "STOP_BUFFERING" ELSE "START_BUFFERING"
    OBVIOUS
  <2>2. tag \in Tags /\ Begin(0, tag) /\ Idle
    BY <1>6, <2>1 DEF Tags, SetBuffering
  <2> QED
    BY <1>3, <2>2
<1>7. CASE StartBuffering \/ StopBuffering \/ PutField \/ Flush \/ SendSegment
              \/ WriterEnds \/ UNCHANGED vars
  <2>1. /\ UNCHANGED frames /\ UNCHANGED readerVars
        /\ ended => UNCHANGED <<written, ended>>
    BY <1>7 DEF StartBuffering, StopBuffering, PutField, Flush, SendSegment, WriterEnds,
                vars, writerVars, Idle
  <2> QED
    BY <1>4, <2>1
<1>8. CASE ReadSome
  BY <1>2, <1>8, ReadSomeFollows
<1>9. CASE ReadEmpty
  BY <1>2, <1>9, ReadEmptyFollows
<1>10. CASE EndOfStream
  BY <1>2, <1>10, EndOfStreamFollows
<1> QED
  BY <1>5, <1>6, <1>7, <1>8, <1>9, <1>10 DEF Next, Write, Read, Quiescent

(***************************************************************************)
(* All three layers hold: within the limits the socket holds whole fields  *)
(* after every write, and a reader is at the beginning of the field that   *)
(* it is about to read, unless it has stopped or the writer has ended.     *)
(***************************************************************************)
THEOREM FramingInvariance == Spec => []IInv
<1>1. Init => IInv
  BY InitStream, InitFields, InitFollows DEF IInv, FieldInv, StepInv, Follows
<1>2. IInv /\ [Next]_vars => IInv'
  <2>1. IInv => StreamInv /\ FieldInv /\ StepInv
    BY DEF IInv
  <2>2. StreamInv' /\ FieldInv' /\ StepInv' => IInv'
    BY DEF IInv
  <2> QED
    BY <2>1, <2>2, NextStream, NextFields, NextSteps
<1> QED
  BY <1>1, <1>2, PTL DEF Spec

(***************************************************************************)
(* Every frame that a read returns is the frame that was written in its    *)
(* place, whatever the two languages and the sizes of their buffers, as    *)
(* long as the frames are within the limits; a cut one is returned only by *)
(* the Go and the Python reader, after the writer's process ended.         *)
(***************************************************************************)
THEOREM FramesStayIntact == Spec => []FramesIntact
<1>1. IInv => FramesIntact
  BY DEF IInv, StepInv, Intact, FramesIntact
<1> QED
  BY FramingInvariance, <1>1, PTL

(***************************************************************************)
(* Within the limits no read returns a part of a field, though C++, Python *)
(* and Kotlin call read once for a field, and neither the socket nor the   *)
(* buffers know where a field ends.                                        *)
(***************************************************************************)
THEOREM FieldsStayWhole == Spec => []WholeFields
<1>1. IInv => WholeFields
  BY DEF IInv, StepInv, WholeFields
<1> QED
  BY FramingInvariance, <1>1, PTL

=============================================================================
