------------------------ MODULE BatchBufferingProofs ------------------------
(***************************************************************************)
(* Proofs about BatchBuffering, for all capacities and sizes of batches.   *)
(***************************************************************************)
EXTENDS BatchBuffering, SequenceTheorems, TLAPS

-----------------------------------------------------------------------------
(* The inductive invariant.                                                *)

\* Frames and responses move along their way in order.
Chain ==
    /\ handled <= taken /\ taken <= sent /\ sent <= out /\ out <= Len(stream)
    /\ got <= gsent /\ gsent <= gout /\ gout <= answered

Batched == stream[base + 1] = "START_BUFFERING"

\* What the call has written since it began.
ShapeWrite ==
    wpc = "write" =>
        /\ buffering /\ expected = size /\ todo <= size
        /\ Len(stream) = base + 1 + size - todo
        /\ Batched
        /\ \A i \in base + 2 .. Len(stream) : stream[i] = "REQUEST"

ShapeRead ==
    wpc \in {"read", "idle"} => ~buffering /\ out = Len(stream)

ShapeSingle ==
    wpc = "read" /\ ~Batched =>
        Len(stream) = base + 1 /\ size = 1 /\ stream[base + 1] = "REQUEST"

ShapeBatch ==
    wpc = "read" /\ Batched =>
        /\ Len(stream) = base + size + 2
        /\ \A i \in base + 2 .. base + size + 1 : stream[i] = "REQUEST"
        /\ stream[base + size + 2] = "STOP_BUFFERING"

Shape ==
    /\ wpc \in {"idle", "write", "read"}
    /\ ShapeWrite /\ ShapeRead /\ ShapeSingle /\ ShapeBatch
    /\ expected <= size
    /\ Unwritten /\ wpc # "idle" => expected = size

\* Requests of this call that were answered.
Done ==
    IF handled <= base THEN 0
    ELSE IF ~Batched THEN handled - base
    ELSE IF handled = base + size + 2 THEN size
    ELSE handled - base - 1

\* Every response that was not read is one to a request of this call.
Balance == wpc # "idle" => answered + size = got + expected + Done

\* Earlier calls left no request, and at most an empty batch behind.
Past ==
    wpc # "idle" =>
        /\ \A i \in handled + 1 .. base : stream[i] # "REQUEST"
        /\ handled = base => ~gbuffering
        /\ handled < base => stream[base] = "STOP_BUFFERING"

\* The receiver buffers between the two tags of the batch.
Buffers ==
    wpc # "idle" /\ handled > base => (gbuffering <=> Batched /\ handled # base + size + 2)

\* The receiver is in a write after the last frame, or before it can answer.
Flushing ==
    gsent < gout =>
        \/ wpc = "read" /\ handled = Len(stream)
        \/ handled < taken /\ stream[handled + 1] = "REQUEST"

Rest ==
    wpc = "idle" =>
        /\ got = answered /\ sent = out
        /\ \A i \in handled + 1 .. Len(stream) : stream[i] # "REQUEST"
        /\ handled = Len(stream) => ~gbuffering
        /\ handled < Len(stream) => stream[Len(stream)] = "STOP_BUFFERING"

Inv == TypeOK /\ base <= Len(stream) /\ Chain /\ Shape /\ Balance /\ Past /\ Buffers
         /\ Flushing /\ Rest

-----------------------------------------------------------------------------
(* The invariant holds.                                                    *)

LEMMA AppendTag ==
    ASSUME NEW s \in Seq(Tags), NEW e \in Tags
    PROVE  /\ Append(s, e) \in Seq(Tags)
           /\ Len(Append(s, e)) = Len(s) + 1
           /\ \A i \in 1 .. Len(s) : Append(s, e)[i] = s[i]
           /\ Append(s, e)[Len(s) + 1] = e
BY AppendProperties

LEMMA MinOfTwo ==
    ASSUME NEW a \in Nat, NEW b \in Nat
    PROVE  Min({a, b}) \in {a, b} /\ Min({a, b}) <= a /\ Min({a, b}) <= b
<1>1. \E m \in {a, b} : \A y \in {a, b} : m <= y
  BY a <= b \/ b <= a
<1>2. QED
  BY <1>1 DEF Min

LEMMA InvInit == Init => Inv
<1> SUFFICES ASSUME Init PROVE Inv
  OBVIOUS
<1>1. stream \in Seq(Tags) /\ Len(stream) = 0
  BY EmptySeq DEF Init
<1>2. TypeOK /\ Chain
  <2>1. TypeOK
    BY <1>1 DEF Init, TypeOK
  <2>2. Chain
    BY <1>1 DEF Init, Chain
  <2>3. QED
    BY <2>1, <2>2
<1>3. Shape /\ Balance /\ Past /\ Buffers /\ Flushing /\ Rest
  BY <1>1 DEF Init, Shape, ShapeWrite, ShapeRead, ShapeSingle, ShapeBatch, Unwritten,
              Balance, Past, Buffers, Flushing, Rest
<1>4. QED
  BY <1>1, <1>2, <1>3 DEF Inv, Init

\* Where the next frame of the receiver is in the call.
LEMMA NextFrame ==
    ASSUME Inv, wpc # "idle", handled < Len(stream)
    PROVE  /\ stream[handled + 1] = "START_BUFFERING" =>
                 handled <= base /\ (handled = base => Batched)
           /\ stream[handled + 1] = "REQUEST" =>
                 IF Batched THEN handled > base /\ handled <= base + size ELSE handled = base
           /\ stream[handled + 1] = "STOP_BUFFERING" =>
                 handled < base \/ (wpc = "read" /\ Batched /\ handled = base + size + 1)
<1> USE DEF Inv, TypeOK, Tags, Chain
<1>1. CASE wpc = "write"
  BY <1>1 DEF Shape, ShapeWrite, Batched, Past
<1>2. CASE wpc = "read" /\ Batched
  <2>1. CASE handled < base
    BY <1>2, <2>1 DEF Past
  <2>2. CASE handled >= base
    BY <1>2, <2>2 DEF Shape, ShapeBatch, Batched
  <2>3. QED
    BY <2>1, <2>2
<1>3. CASE wpc = "read" /\ ~Batched
  BY <1>3 DEF Shape, ShapeSingle, Batched, Past
<1>4. QED
  BY <1>1, <1>2, <1>3

LEMMA DoneBound == Inv /\ wpc # "idle" => Done \in 0 .. size
<1> SUFFICES ASSUME Inv, wpc # "idle" PROVE Done \in 0 .. size
  OBVIOUS
<1> USE DEF Inv, TypeOK, Chain
<1>1. CASE wpc = "write"
  BY <1>1 DEF Shape, ShapeWrite, Done
<1>2. CASE wpc = "read" /\ Batched
  BY <1>2 DEF Shape, ShapeBatch, Done
<1>3. CASE wpc = "read" /\ ~Batched
  BY <1>3 DEF Shape, ShapeSingle, Done
<1>4. QED
  BY <1>1, <1>2, <1>3

LEMMA SendFrameStep == Inv /\ SendFrame => Inv'
<1> SUFFICES ASSUME Inv, SendFrame PROVE Inv'
  OBVIOUS
<1> USE BatchAssumption DEF Inv, SendFrame, wrapperVars, receiverVars, Unwritten, TypeOK, Tags, Chain
<1>1. TypeOK'
  OBVIOUS
<1>2. (base <= Len(stream) /\ Chain)'
  OBVIOUS
<1>3. Shape'
  BY DEF Shape, ShapeWrite, ShapeRead, ShapeSingle, ShapeBatch, Batched, Unwritten
<1>4. Balance'
  BY DEF Balance, Done, Batched
<1>5. Past'
  BY DEF Past
<1>6. Buffers'
  BY DEF Buffers, Batched
<1>7. Flushing'
  BY DEF Flushing
<1>8. Rest'
  BY DEF Rest
<1>9. QED
  BY <1>1, <1>2, <1>3, <1>4, <1>5, <1>6, <1>7, <1>8

LEMMA SendBackStep == Inv /\ SendBack => Inv'
<1> SUFFICES ASSUME Inv, SendBack PROVE Inv'
  OBVIOUS
<1> USE BatchAssumption DEF Inv, SendBack, wrapperVars, receiverVars, TypeOK, Tags, Chain
<1>1. TypeOK'
  OBVIOUS
<1>2. (base <= Len(stream) /\ Chain)'
  OBVIOUS
<1>3. Shape'
  BY DEF Shape, ShapeWrite, ShapeRead, ShapeSingle, ShapeBatch, Batched, Unwritten
<1>4. Balance'
  BY DEF Balance, Done, Batched
<1>5. Past'
  BY DEF Past
<1>6. Buffers'
  BY DEF Buffers, Batched
<1>7. Flushing'
  BY DEF Flushing
<1>8. Rest'
  BY DEF Rest
<1>9. QED
  BY <1>1, <1>2, <1>3, <1>4, <1>5, <1>6, <1>7, <1>8

LEMMA FillStep == Inv /\ Fill => Inv'
<1> SUFFICES ASSUME Inv, Fill PROVE Inv'
  OBVIOUS
<1> USE BatchAssumption DEF Inv, Fill, wrapperVars, receiverVars, Ready, TypeOK, Tags, Chain
<1>1. TypeOK'
  BY MinOfTwo
<1>2. (base <= Len(stream) /\ Chain)'
  BY MinOfTwo
<1>3. Shape'
  BY DEF Shape, ShapeWrite, ShapeRead, ShapeSingle, ShapeBatch, Batched, Unwritten
<1>4. Balance'
  BY DEF Balance, Done, Batched
<1>5. Past'
  BY DEF Past
<1>6. Buffers'
  BY DEF Buffers, Batched
<1>7. Flushing'
  BY MinOfTwo DEF Flushing
<1>8. Rest'
  BY DEF Rest
<1>9. QED
  BY <1>1, <1>2, <1>3, <1>4, <1>5, <1>6, <1>7, <1>8

LEMMA StartStep == Inv /\ Start => Inv'
<1> SUFFICES ASSUME Inv, Start PROVE Inv'
  OBVIOUS
<1> USE BatchAssumption DEF Inv, Start, wrapperVars, receiverVars, Handle, Ready, TypeOK, Tags, Chain
<1>1. TypeOK'
  OBVIOUS
<1>2. (base <= Len(stream) /\ Chain)'
  OBVIOUS
<1>3. Shape'
  BY DEF Shape, ShapeWrite, ShapeRead, ShapeSingle, ShapeBatch, Batched, Unwritten
<1>4. Balance'
  BY NextFrame DEF Balance, Done, Batched
<1>5. Past'
  BY DEF Past
<1>6. Buffers'
  BY NextFrame DEF Buffers, Batched
<1>7. Flushing'
  BY DEF Flushing
<1>8. Rest'
  BY DEF Rest
<1>9. QED
  BY <1>1, <1>2, <1>3, <1>4, <1>5, <1>6, <1>7, <1>8

LEMMA StopStep == Inv /\ Stop => Inv'
<1> SUFFICES ASSUME Inv, Stop PROVE Inv'
  OBVIOUS
<1> USE BatchAssumption DEF Inv, Stop, wrapperVars, receiverVars, Handle, Ready, TypeOK, Tags, Chain
<1>1. TypeOK'
  <2>1. gbuffering' \in BOOLEAN
    OBVIOUS
  <2>2. QED
    BY <2>1
<1>2. (base <= Len(stream) /\ Chain)'
  OBVIOUS
<1>3. Shape'
  BY DEF Shape, ShapeWrite, ShapeRead, ShapeSingle, ShapeBatch, Batched, Unwritten
<1>4. Balance'
  BY NextFrame DEF Balance, Done, Batched
<1>5. Past'
  BY DEF Past
<1>6. Buffers'
  BY NextFrame DEF Buffers, Batched
<1>7. Flushing'
  BY NextFrame DEF Flushing, Balance, Done, Batched, Shape, ShapeBatch, Rest
<1>8. Rest'
  <2>1. wpc = "idle" =>
           /\ got = answered /\ sent = out /\ wpc' = "idle"
           /\ \A i \in handled + 1 .. Len(stream) : stream[i] # "REQUEST"
           /\ handled < Len(stream) => stream[Len(stream)] = "STOP_BUFFERING"
    BY DEF Rest
  <2>2. \A i \in handled' + 1 .. Len(stream) : i \in handled + 1 .. Len(stream)
    OBVIOUS
  <2>3. stream' = stream /\ wpc' = wpc /\ got' = got /\ answered' = answered
        /\ sent' = sent /\ out' = out /\ gbuffering' = FALSE /\ handled' = handled + 1
        /\ handled' <= Len(stream)
    OBVIOUS
  <2>4. handled' < Len(stream) => handled < Len(stream)
    OBVIOUS
  <2> HIDE DEF Inv, TypeOK, Chain, Stop, Handle
  <2>5. QED
    BY <2>1, <2>2, <2>3, <2>4 DEF Rest
<1>9. QED
  BY <1>1, <1>2, <1>3, <1>4, <1>5, <1>6, <1>7, <1>8

LEMMA AnswerStep == Inv /\ Answer => Inv'
<1> SUFFICES ASSUME Inv, Answer PROVE Inv'
  OBVIOUS
<1> USE BatchAssumption DEF Inv, Answer, wrapperVars, receiverVars, Handle, Ready, TypeOK, Tags, Chain
<1>1. TypeOK'
  OBVIOUS
<1>2. (base <= Len(stream) /\ Chain)'
  OBVIOUS
<1>3. Shape'
  BY DEF Shape, ShapeWrite, ShapeRead, ShapeSingle, ShapeBatch, Batched, Unwritten
<1>4. Balance'
  BY NextFrame DEF Balance, Done, Batched
<1>5. Past'
  BY DEF Past
<1>6. Buffers'
  BY NextFrame DEF Buffers, Past, Batched
<1>7. Flushing'
  <2>1. wpc # "idle"
    <3>1. handled + 1 \in handled + 1 .. Len(stream) /\ stream[handled + 1] = "REQUEST"
      OBVIOUS
    <3>2. QED
      BY <3>1 DEF Rest
  <2>2. gsent < gout' => ~gbuffering
    OBVIOUS
  <2>3. gsent < gout' => ~Batched
    BY <2>1, <2>2, NextFrame DEF Buffers
  <2>4. gsent < gout' => wpc = "read" /\ handled' = Len(stream)
    BY <2>1, <2>3, NextFrame DEF Shape, ShapeWrite, ShapeSingle
  <2>5. QED
    BY <2>4 DEF Flushing
<1>8. Rest'
  <2>1. handled + 1 \in handled + 1 .. Len(stream) /\ stream[handled + 1] = "REQUEST"
    OBVIOUS
  <2>2. QED
    BY <2>1 DEF Rest
<1>9. QED
  BY <1>1, <1>2, <1>3, <1>4, <1>5, <1>6, <1>7, <1>8

LEMMA OverflowStep == Inv /\ Overflow => Inv'
<1> SUFFICES ASSUME Inv, Overflow PROVE Inv'
  OBVIOUS
<1> USE BatchAssumption DEF Inv, Overflow, wrapperVars, receiverVars, Ready, TypeOK, Tags, Chain
<1>1. TypeOK'
  OBVIOUS
<1>2. (base <= Len(stream) /\ Chain)'
  OBVIOUS
<1>3. Shape'
  BY DEF Shape, ShapeWrite, ShapeRead, ShapeSingle, ShapeBatch, Batched, Unwritten
<1>4. Balance'
  BY DEF Balance, Done, Batched
<1>5. Past'
  BY DEF Past
<1>6. Buffers'
  BY DEF Buffers, Batched
<1>7. Flushing'
  BY DEF Flushing
<1>8. Rest'
  BY DEF Rest
<1>9. QED
  BY <1>1, <1>2, <1>3, <1>4, <1>5, <1>6, <1>7, <1>8

LEMMA ReadResponseStep == Inv /\ ReadResponse => Inv'
<1> SUFFICES ASSUME Inv, ReadResponse PROVE Inv'
  OBVIOUS
<1> USE BatchAssumption DEF Inv, ReadResponse, wrapperVars, receiverVars, Unwritten, TypeOK, Tags, Chain
<1>1. TypeOK'
  OBVIOUS
<1>2. (base <= Len(stream) /\ Chain)'
  OBVIOUS
<1>3. Shape'
  BY DEF Shape, ShapeWrite, ShapeRead, ShapeSingle, ShapeBatch, Batched, Unwritten
<1>4. Balance'
  BY DEF Balance, Done, Batched
<1>5. Past'
  BY DEF Past
<1>6. Buffers'
  BY DEF Buffers, Batched
<1>7. Flushing'
  BY DEF Flushing
<1>8. Rest'
  BY DEF Rest
<1>9. QED
  BY <1>1, <1>2, <1>3, <1>4, <1>5, <1>6, <1>7, <1>8

LEMMA EndCallStep == Inv /\ EndCall => Inv'
<1> SUFFICES ASSUME Inv, EndCall PROVE Inv'
  OBVIOUS
<1> USE BatchAssumption DEF Inv, EndCall, wrapperVars, receiverVars, Unwritten, TypeOK, Tags, Chain
<1>1. TypeOK'
  OBVIOUS
<1>2. (base <= Len(stream) /\ Chain)'
  OBVIOUS
<1>3. Shape'
  BY DEF Shape, ShapeWrite, ShapeRead, ShapeSingle, ShapeBatch, Batched, Unwritten
<1>4. Balance'
  BY DEF Balance, Done, Batched
<1>5. Past'
  BY DEF Past
<1>6. Buffers'
  BY DEF Buffers, Batched
<1>7. Flushing'
  BY DoneBound DEF Flushing, Balance
<1>8. Rest'
  <2>1. got = answered /\ Done = size
    BY DoneBound DEF Balance
  <2>2. CASE Batched
    BY <2>1, <2>2 DEF Rest, Done, Shape, ShapeRead, ShapeBatch, Past, Buffers, Batched
  <2>3. CASE ~Batched
    <3>1. size = 1 /\ Len(stream) = base + 1
      BY <2>3 DEF Shape, ShapeSingle
    <3>2. handled = Len(stream) /\ ~gbuffering
      BY <2>1, <2>3, <3>1 DEF Done, Buffers
    <3>3. QED
      BY <2>1, <3>2 DEF Rest, Shape, ShapeRead
  <2>4. QED
    BY <2>2, <2>3
<1>9. QED
  BY <1>1, <1>2, <1>3, <1>4, <1>5, <1>6, <1>7, <1>8

LEMMA SendRequestStep == Inv /\ SendRequest => Inv'
<1> SUFFICES ASSUME Inv, SendRequest PROVE Inv'
  OBVIOUS
<1> USE BatchAssumption DEF Inv, SendRequest, wrapperVars, receiverVars, WriteFrame, TypeOK, Tags, Chain
<1>0. /\ stream' = Append(stream, "REQUEST") /\ stream' \in Seq(Tags)
      /\ Len(stream') = Len(stream) + 1 /\ stream'[Len(stream) + 1] = "REQUEST"
      /\ \A i \in 1 .. Len(stream) : stream'[i] = stream[i]
  BY AppendTag
<1>1. TypeOK'
  BY <1>0
<1>2. (base <= Len(stream) /\ Chain)'
  BY <1>0
<1>3. Shape'
  BY <1>0 DEF Shape, ShapeWrite, ShapeRead, ShapeSingle, ShapeBatch, Batched, Unwritten
<1>4. Balance'
  <2>1. answered = got /\ handled <= base'
    BY DEF Rest
  <2>2. QED
    BY <2>1 DEF Balance, Done
<1>5. Past'
  BY <1>0 DEF Past, Rest
<1>6. Buffers'
  BY <1>0 DEF Buffers, Batched
<1>7. Flushing'
  BY <1>0 DEF Flushing
<1>8. Rest'
  BY <1>0 DEF Rest
<1>9. QED
  BY <1>1, <1>2, <1>3, <1>4, <1>5, <1>6, <1>7, <1>8

LEMMA SendRequestsStep == Inv /\ SendRequests => Inv'
<1> SUFFICES ASSUME Inv, SendRequests PROVE Inv'
  OBVIOUS
<1> USE BatchAssumption DEF Inv, SendRequests, wrapperVars, receiverVars, WriteFrame, TypeOK, Tags, Chain
<1>0. /\ stream' = Append(stream, "START_BUFFERING") /\ stream' \in Seq(Tags)
      /\ Len(stream') = Len(stream) + 1 /\ stream'[Len(stream) + 1] = "START_BUFFERING"
      /\ \A i \in 1 .. Len(stream) : stream'[i] = stream[i]
  BY AppendTag
<1>1. TypeOK'
  BY <1>0
<1>2. (base <= Len(stream) /\ Chain)'
  BY <1>0
<1>3. Shape'
  BY <1>0 DEF Shape, ShapeWrite, ShapeRead, ShapeSingle, ShapeBatch, Batched, Unwritten
<1>4. Balance'
  <2>1. answered = got /\ handled <= base'
    BY DEF Rest
  <2>2. QED
    BY <2>1 DEF Balance, Done
<1>5. Past'
  BY <1>0 DEF Past, Rest
<1>6. Buffers'
  BY <1>0 DEF Buffers, Batched
<1>7. Flushing'
  BY <1>0 DEF Flushing
<1>8. Rest'
  BY <1>0 DEF Rest
<1>9. QED
  BY <1>1, <1>2, <1>3, <1>4, <1>5, <1>6, <1>7, <1>8

LEMMA WriteRequestStep == Inv /\ WriteRequest => Inv'
<1> SUFFICES ASSUME Inv, WriteRequest PROVE Inv'
  OBVIOUS
<1> USE BatchAssumption DEF Inv, WriteRequest, wrapperVars, receiverVars, WriteFrame, Unwritten, TypeOK, Tags, Chain
<1>0. /\ stream' = Append(stream, "REQUEST") /\ stream' \in Seq(Tags)
      /\ Len(stream') = Len(stream) + 1 /\ stream'[Len(stream) + 1] = "REQUEST"
      /\ \A i \in 1 .. Len(stream) : stream'[i] = stream[i]
  BY AppendTag
<1>1. TypeOK'
  BY <1>0
<1>2. (base <= Len(stream) /\ Chain)'
  BY <1>0
<1>3. Shape'
  <2>1. ShapeWrite
    BY DEF Shape
  <2>2. ShapeWrite'
    <3>1. /\ buffering /\ expected = size /\ todo <= size /\ base + 1 \in 1 .. Len(stream)
          /\ Len(stream) = base + 1 + size - todo
          /\ stream[base + 1] = "START_BUFFERING"
          /\ \A i \in base + 2 .. Len(stream) : stream[i] = "REQUEST"
      BY <2>1 DEF ShapeWrite, Batched
    <3>2. \A i \in base + 2 .. Len(stream) + 1 : stream'[i] = "REQUEST"
      BY <1>0, <3>1
    <3>3. Batched'
      BY <1>0, <3>1 DEF Batched
    <3>4. /\ buffering' /\ expected' = size' /\ todo' <= size'
          /\ Len(stream') = base' + 1 + size' - todo'
      BY <1>0, <3>1
    <3>5. \A i \in base' + 2 .. Len(stream') : stream'[i] = "REQUEST"
      BY <1>0, <3>2
    <3>6. QED
      BY <3>3, <3>4, <3>5 DEF ShapeWrite
  <2>3. QED
    BY <2>1, <2>2 DEF Shape, ShapeWrite, ShapeRead, ShapeSingle, ShapeBatch, Unwritten
<1>4. Balance'
  BY <1>0 DEF Balance, Done, Batched
<1>5. Past'
  BY <1>0 DEF Past
<1>6. Buffers'
  BY <1>0 DEF Buffers, Batched
<1>7. Flushing'
  BY <1>0 DEF Flushing
<1>8. Rest'
  BY <1>0 DEF Rest
<1>9. QED
  BY <1>1, <1>2, <1>3, <1>4, <1>5, <1>6, <1>7, <1>8

LEMMA EndBatchStep == Inv /\ EndBatch => Inv'
<1> SUFFICES ASSUME Inv, EndBatch PROVE Inv'
  OBVIOUS
<1> USE BatchAssumption DEF Inv, EndBatch, wrapperVars, receiverVars, WriteFrame, Unwritten, TypeOK, Tags, Chain
<1>0. /\ stream' = Append(stream, "STOP_BUFFERING") /\ stream' \in Seq(Tags)
      /\ Len(stream') = Len(stream) + 1 /\ stream'[Len(stream) + 1] = "STOP_BUFFERING"
      /\ \A i \in 1 .. Len(stream) : stream'[i] = stream[i]
  BY AppendTag
<1>1. TypeOK'
  <2>1. buffering' \in BOOLEAN
    OBVIOUS
  <2>2. QED
    BY <1>0, <2>1
<1>2. (base <= Len(stream) /\ Chain)'
  BY <1>0
<1>3. Shape'
  <2>1. ShapeWrite
    BY DEF Shape
  <2>2. ShapeBatch' /\ Batched'
    <3>0. Len(stream) = base + 1 + size /\ Batched
      BY <2>1 DEF ShapeWrite
    <3>1. /\ base + 1 \in 1 .. Len(stream) /\ Len(stream) = base + 1 + size
          /\ \A i \in base + 2 .. Len(stream) : stream[i] = "REQUEST"
      BY <2>1, <3>0 DEF ShapeWrite
    <3>2. Batched'
      BY <1>0, <3>0, <3>1 DEF Batched
    <3>3. /\ Len(stream') = base' + size' + 2
          /\ \A i \in base' + 2 .. base' + size' + 1 : stream'[i] = "REQUEST"
          /\ stream'[base' + size' + 2] = "STOP_BUFFERING"
      BY <1>0, <3>1
    <3>4. QED
      BY <3>2, <3>3 DEF ShapeBatch
  <2>3. QED
    BY <1>0, <2>1, <2>2 DEF Shape, ShapeWrite, ShapeRead, ShapeSingle, Unwritten
<1>4. Balance'
  BY <1>0 DEF Balance, Done, Batched
<1>5. Past'
  BY <1>0 DEF Past
<1>6. Buffers'
  BY <1>0 DEF Buffers, Batched
<1>7. Flushing'
  BY <1>0 DEF Flushing
<1>8. Rest'
  BY <1>0 DEF Rest
<1>9. QED
  BY <1>1, <1>2, <1>3, <1>4, <1>5, <1>6, <1>7, <1>8

LEMMA InvStep == Inv /\ [Next]_vars => Inv'
<1>1. Inv /\ UNCHANGED vars => Inv'
  <2> SUFFICES ASSUME Inv, UNCHANGED vars PROVE Inv'
    OBVIOUS
  <2> USE DEF Inv, vars, wrapperVars, receiverVars
  <2>1. TypeOK' /\ Chain' /\ Shape' /\ (base <= Len(stream))'
    BY DEF TypeOK, Chain, Shape, ShapeWrite, ShapeRead, ShapeSingle, ShapeBatch, Batched,
           Unwritten
  <2>2. Balance' /\ Past' /\ Buffers'
    BY DEF Balance, Done, Past, Buffers, Batched
  <2>3. Flushing' /\ Rest'
    BY DEF Flushing, Rest
  <2>4. QED
    BY <2>1, <2>2, <2>3
<1>2. QED
  BY <1>1, SendFrameStep, SendBackStep, FillStep, StartStep, StopStep, AnswerStep,
     OverflowStep, ReadResponseStep, EndCallStep, SendRequestStep, SendRequestsStep,
     WriteRequestStep, EndBatchStep DEF Next, Wrapper, Receiver, Quiescent

LEMMA Invariance == Spec => []Inv
BY InvInit, InvStep, PTL DEF Spec

-----------------------------------------------------------------------------
(* The theorems.                                                           *)

\* The types hold.
THEOREM BatchTypes == Spec => []TypeOK
<1>1. Inv => TypeOK
  BY DEF Inv
<1>2. QED
  BY <1>1, Invariance, PTL

\* After sendRequest and sendRequests nothing of the call is left on the connection.
THEOREM CallsLeaveNothing == Spec => []NothingLeft
<1>1. Inv => NothingLeft
  BY DEF Inv, Rest, Shape, ShapeRead, NothingLeft
<1>2. QED
  BY <1>1, Invariance, PTL

\* Both sides wait in a write only if the receiver has answered more requests than
\* the socket takes responses, holds one more, and the other socket is full as well:
\* then the batch is larger than the two sockets together.
THEOREM OnlyLargeBatchesBlock == Spec => []StuckOnlyIfLarge
<1>1. ASSUME Inv, Stuck PROVE size > Limit
  <2> USE BatchAssumption DEF Inv, TypeOK, Chain
  <2>1. /\ sent < out /\ taken + ToSocket <= sent
        /\ gsent < gout /\ got + FromSocket <= gsent
    BY <1>1 DEF Stuck, Unwritten
  <2>2. wpc # "idle" /\ expected = size
    BY <1>1, <2>1 DEF Rest, Shape, Unwritten
  <2>3. handled < taken /\ stream[handled + 1] = "REQUEST"
    BY <1>1, <2>1 DEF Flushing
  <2>4. answered = got + Done
    BY <1>1, <2>2 DEF Balance, Done
  <2>5. Batched /\ handled > base /\ handled <= base + size
    BY <1>1, <2>1, <2>2, <2>3, <2>4, NextFrame DEF Done
  <2>6. Done = handled - base - 1
    BY <1>1, <2>5 DEF Done
  <2>7. Len(stream) <= base + size + 2
    BY <1>1, <2>2, <2>5 DEF Shape, ShapeWrite, ShapeBatch
  <2>8. taken \in Nat /\ out \in Nat /\ gsent \in Nat /\ gout \in Nat
    BY <1>1
  <2>9. handled + 1 <= taken /\ out <= Len(stream) /\ gout <= answered
    BY <1>1, <2>3
  <2>10. /\ handled \in Nat /\ base \in Nat /\ size \in Nat /\ got \in Nat
        /\ answered \in Nat /\ sent \in Nat /\ Len(stream) \in Nat
        /\ ToSocket \in Nat /\ FromSocket \in Nat
    BY <1>1
  <2> HIDE DEF Inv, TypeOK, Chain
  <2>11. /\ handled + 1 + ToSocket <= sent /\ sent < Len(stream)
        /\ got + FromSocket < answered
    BY <2>1, <2>10, <2>8, <2>9
  <2>12. QED
    BY <2>4, <2>6, <2>7, <2>11, <2>10 DEF Limit
<1>2. Inv => StuckOnlyIfLarge
  BY <1>1 DEF StuckOnlyIfLarge
<1>3. QED
  BY <1>2, Invariance, PTL

=============================================================================
