----------------------------- MODULE WireFormat -----------------------------
(***************************************************************************)
(* The primitives of the protobuf runtime (WireFormatLite, CodedInput-     *)
(* Stream) that the generated message classes are built from, as           *)
(* exchange.pb.cc uses them.  A byte is a number; a string is a sequence   *)
(* of bytes.  A field is a tag byte, then its payload.                     *)
(***************************************************************************)
EXTENDS Integers, Sequences, SequencesExt

CONSTANT
    Width  \* bytes of a fixed64 (8); a fixed32 has half of them

ASSUME WidthAssumption == Width \in Nat \ {0} /\ Width % 2 = 0

\* Wire types.
Varint == 0
Fixed64 == 1
Delimited == 2
Fixed32 == 5

Tag(field, wire) == 8 * field + wire

-----------------------------------------------------------------------------
(* Writing.  Lengths and enumeration values stay below 128, so that a      *)
(* varint is one byte.                                                     *)

\* 256 ^ i.
Power[i \in 0 .. Width] == IF i = 0 THEN 1 ELSE 256 * Power[i - 1]

\* n, shifted right by 0 to Width bytes.
Shifted(n) ==
    LET shifted[i \in 0 .. Width] == IF i = 0 THEN n ELSE shifted[i - 1] \div 256
    IN  shifted

\* Mutant: the last byte is not cut to a byte.
FixedBytesLong(n) ==
    [i \in 1 .. Width |->
        IF i = Width THEN Shifted(n)[i - 1] ELSE Shifted(n)[i - 1] % 256]

FixedBytes(n) == [i \in 1 .. Width |-> Shifted(n)[i - 1] % 256]

PutString(field, s) == <<Tag(field, Delimited), Len(s)>> \o s

\* The length prefix of a nested message is the size computed before; it is not
\* taken from the bytes that are written.
PutMessage(field, size, bytes) == <<Tag(field, Delimited), size>> \o bytes

PutBool(field, b) == <<Tag(field, Varint), IF b THEN 1 ELSE 0>>

PutEnum(field, n) == <<Tag(field, Varint), n>>

PutFixed(field, n) == <<Tag(field, Fixed64)>> \o FixedBytes(n)

\* A field that is written under a condition.
If(condition, bytes) == IF condition THEN bytes ELSE <<>>

StringSize(s) == 1 + Len(s)

MessageSize(size) == 1 + size

-----------------------------------------------------------------------------
(* Reading.                                                                *)

Unsigned(s) == FoldRight(LAMBDA b, n : b + 256 * n, s, 0)

Signed(s) ==
    LET n == Unsigned(s)
    IN  IF 2 * n < Power[Width] THEN n ELSE n - Power[Width]

\* The first and the last byte of the payload of the field whose tag is s[i].
Payload(s, i) ==
    CASE s[i] % 8 = Varint -> <<i + 1, i + 1>>
      [] s[i] % 8 = Fixed64 -> <<i + 1, i + Width>>
      [] s[i] % 8 = Fixed32 -> <<i + 1, i + Width \div 2>>
      [] s[i] % 8 = Delimited /\ i < Len(s) -> <<i + 2, i + 1 + s[i + 1]>>
      [] OTHER -> <<i + 1, Len(s) + 1>>

\* ReadTag and what follows it can be read: the field number is not 0 (which
\* SkipField refuses), the wire type is known, the payload is there.
Readable(s, i) == s[i] \div 8 # 0 /\ Payload(s, i)[2] <= Len(s)

\* The fields of s up to its end ("limit"), to a tag 0 ("zero"), which ends a message
\* too, or to something that cannot be read ("bad").
Fields(s) ==
    LET from[i \in 1 .. Len(s) + 1] ==
            IF i = Len(s) + 1 THEN [fields |-> <<>>, end |-> "limit"]
            ELSE IF s[i] = 0 THEN [fields |-> <<>>, end |-> "zero"]
            ELSE IF ~Readable(s, i) THEN [fields |-> <<>>, end |-> "bad"]
            ELSE LET at == Payload(s, i)
                     first == [tag |-> s[i], bytes |-> SubSeq(s, at[1], at[2])]
                 IN  [from[at[2] + 1] EXCEPT !.fields = <<first>> \o @]
    IN  from[1]

Read(message) == [message |-> message, ok |-> TRUE]

\* MergePartialFromCodedStream: Field(message, field) merges one field.  The first
\* field that fails ends it; what was merged until then stays.  A message that
\* ended at a tag 0 has ended too early, which ConsumedEntireMessage finds.
MergeFields(Field(_, _), message, s) ==
    LET all == Fields(s)
        Step(r, f) == IF r.ok THEN Field(r.message, f) ELSE r
        result == FoldLeft(Step, Read(message), all.fields)
    IN  [result EXCEPT !.ok = @ /\ all.end = "limit"]

=============================================================================
