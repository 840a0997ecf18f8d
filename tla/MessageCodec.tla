---------------------------- MODULE MessageCodec ----------------------------
(***************************************************************************)
(* Messages written one after another into one buffer, and what is read    *)
(* back from it.  The reference definition of the encoding: the buffer is  *)
(* as long as the sizes say, and reading it gives the merge of what was    *)
(* written, which for a single message is the message itself.              *)
(***************************************************************************)
EXTENDS WireMessages

CONSTANTS
    Requests,    \* requests that are written
    Responses,   \* responses that are written
    MaxMessages  \* bound: messages in the buffer

ASSUME CodecAssumption == MaxMessages \in Nat

ASSUME MessagesAssumption ==
    Requests \subseteq RequestMessages /\ Responses \subseteq ResponseMessages

VARIABLES
    kind,     \* what the buffer holds
    written,  \* the messages written into it
    buffer    \* what they were written into

codecVars == <<kind, written, buffer>>

Sent == IF kind = "request" THEN Requests ELSE Responses

CodecInit ==
    /\ kind \in {"request", "response"}
    /\ written = <<>>
    /\ buffer = <<>>

Bytes(m) == IF kind = "request" THEN RequestBytes(m) ELSE ChannelResponseBytes(m)

\* SerializeToString measures a message, then writes it behind what is there.
Serialize(m) ==
    /\ Len(written) < MaxMessages
    /\ written' = Append(written, m)
    /\ buffer' = buffer \o Bytes(m)
    /\ UNCHANGED kind

CodecNext == \E m \in Sent : Serialize(m)

CodecSpec == CodecInit /\ [][CodecNext]_codecVars

-----------------------------------------------------------------------------
Size(m) == IF kind = "request" THEN RequestSize(m) ELSE ChannelResponseSize(m)

Parsed == IF kind = "request" THEN ParseRequest(buffer) ELSE ParseChannelResponse(buffer)

Merged ==
    IF kind = "request" THEN FoldLeft(MergeRequest, EmptyRequest, written)
    ELSE FoldLeft(MergeChannelResponse, EmptyChannelResponse, written)

(***************************************************************************)
(* ByteSizeLong returns the bytes that the serialiser writes.  The lengths *)
(* of nested messages are taken from it, before their bytes are known.     *)
(***************************************************************************)
SizesAgree == Len(buffer) = FoldLeft(LAMBDA n, m : Size(m) + n, 0, written)

(***************************************************************************)
(* Reading what was written succeeds, and gives what was written: a field  *)
(* with its default is not written and not missed, an alternative of a     *)
(* oneof replaces the one before unless it is the same nested message,     *)
(* which is merged.  MergeFrom does the same to messages in memory.        *)
(***************************************************************************)
ReadingMerges == Parsed = Read(Merged)

(***************************************************************************)
(* The receiver reads every frame as a Request.  A response, as the        *)
(* wrapper sends one for a callback, is read as a method call without      *)
(* method and type if it has a value, and as no request if it has none.    *)
(***************************************************************************)
ResponsesNameNoMethod ==
    kind = "response" /\ Len(written) = 1 /\ written[1].case # "exception_message" =>
        LET r == ParseRequest(buffer)
        IN  /\ r.ok
            /\ r.message.assigned_id = written[1].assigned_id
            /\ r.message.case =
                    IF written[1].case = "return_value" THEN "method_call" ELSE "none"
            /\ r.message.method_call.methodname = <<>>
            /\ r.message.method_call.type = <<>>

=============================================================================
