------------------------------- MODULE Session -------------------------------
(***************************************************************************)
(* LengthPrefixedCodec and Session as values: a session is a record, and   *)
(* each member function an operator from a session to a session.  Bytes    *)
(* are digits of base ByteBase; the header is big-endian.  Output is kept  *)
(* as the number of bytes still to be written.                             *)
(***************************************************************************)
EXTENDS Integers, Sequences, SequencesExt

CONSTANTS
    HeaderSize, ByteBase,           \* 4 and 256 in the code
    MaxPayload,                     \* kMaxPayloadSize
    MaxFrame,                       \* max_frame_payload_bytes
    InputWatermark, MaxInput,       \* input_soft_watermark_bytes, max_input_buffer_bytes
    OutputWatermark, MaxOutput      \* output_soft_watermark_bytes, max_output_buffer_bytes

(* validConfig *)
ASSUME SessionAssumption ==
    /\ HeaderSize \in Nat \ {0} /\ ByteBase \in Nat \ {0, 1}
    /\ 0 < MaxFrame /\ MaxFrame <= MaxPayload
    /\ 0 < InputWatermark /\ InputWatermark <= MaxInput /\ MaxInput >= MaxFrame
    /\ 0 < OutputWatermark /\ OutputWatermark <= MaxOutput

-----------------------------------------------------------------------------
EncodePayloadLength(n) ==
    [i \in 1..HeaderSize |-> (n \div ByteBase^(HeaderSize - i)) % ByteBase]
DecodePayloadLength(header) == FoldLeft(LAMBDA n, b : n * ByteBase + b, 0, header)
ValidatePayloadLength(n) ==
    IF n < 1 THEN "empty_payload" ELSE IF n > MaxPayload THEN "payload_too_large" ELSE "none"

NewCodec == [next |-> "NeedHeader", header |-> <<>>, expected |-> 0, payload |-> <<>>, error |-> "none"]
CodecBuffered(c) == Len(c.header) + Len(c.payload)

(* One byte of the header; the last one decides.  Then one of the body.    *)
LengthKnown(n) ==
    IF ValidatePayloadLength(n) = "none" THEN [NewCodec EXCEPT !.next = "NeedBody", !.expected = n]
    ELSE [NewCodec EXCEPT !.next = "Error", !.error = ValidatePayloadLength(n)]
HeaderByte(c, b) ==
    IF Len(c.header) + 1 < HeaderSize THEN [c EXCEPT !.header = Append(@, b)]
    ELSE LengthKnown(DecodePayloadLength(Append(c.header, b)))
BodyByte(r, b) ==
    IF Len(r.codec.payload) + 1 < r.codec.expected THEN [r EXCEPT !.codec.payload = Append(@, b)]
    ELSE [r EXCEPT !.codec = NewCodec, !.frames = Append(@, Append(r.codec.payload, b))]
ConsumeByte(r, b) ==
    CASE r.codec.next = "Error" -> r
      [] r.codec.next = "NeedHeader" -> [r EXCEPT !.codec = HeaderByte(@, b), !.consumed = @ + 1]
      [] r.codec.next = "NeedBody" -> [BodyByte(r, b) EXCEPT !.consumed = @ + 1]
Consume(c, input) ==
    FoldLeft(ConsumeByte, [codec |-> c, frames |-> <<>>, consumed |-> 0], input)

-----------------------------------------------------------------------------
NewSession ==
    [state |-> "Reading", codec |-> NewCodec, pending |-> <<>>, output |-> 0,
     peerClosed |-> FALSE, closeAfterWrite |-> FALSE, reason |-> "None"]
Ended(s) == s.state \in {"Closing", "Closed"}

BeginClose(s, reason) ==
    IF Ended(s) THEN s ELSE [s EXCEPT !.state = "Closing", !.reason = reason]
FinalizeClose(s) == [BeginClose(s, "LocalShutdown") EXCEPT !.state = "Closed"]

BufferedInput(s) == CodecBuffered(s.codec) + Len(s.pending)
BytesNeededByCodec(s) ==
    IF s.codec.next = "NeedHeader" THEN HeaderSize - CodecBuffered(s.codec)
    ELSE s.codec.expected - CodecBuffered(s.codec)

(* Results: the session, the request that became ready, as a sequence of   *)
(* at most one frame, and the number of bytes accepted.                     *)
Result(s, request, accepted) == [session |-> s, request |-> request, accepted |-> accepted]

(* The loop of consumeReadingBytes from offset on, with count bytes for the *)
(* codec in this turn; Decoded is what follows its answer r.                *)
RECURSIVE DecodeFrom(_, _, _, _)
Decoded(s, r, input, next, store) ==
    IF r.codec.next = "Error" THEN Result(BeginClose(s, "ProtocolError"), <<>>, next)
    ELSE IF r.codec.next = "NeedBody" /\ r.codec.expected > MaxFrame
    THEN Result(BeginClose(s, "InputLimitExceeded"), <<>>, next)
    ELSE IF Len(r.frames) > 1 THEN Result(BeginClose(s, "ProtocolError"), <<>>, next)
    ELSE IF r.frames # <<>> THEN Result([s EXCEPT !.state = "Processing"], r.frames, next)
    ELSE DecodeFrom(s, input, next, store)
DecodeTurn(s, r, input, offset, store) ==
    Decoded([s EXCEPT !.codec = r.codec], r, input, offset + r.consumed, store)
DecodeFrom(s, input, offset, store) ==
    LET count == Min({BytesNeededByCodec(s), Len(input) - offset})
    IN  IF offset = Len(input) THEN Result(s, <<>>, offset)
        ELSE IF store /\ count > MaxInput - BufferedInput(s)
        THEN Result(BeginClose(s, "InputLimitExceeded"), <<>>, offset)
        ELSE DecodeTurn(s, Consume(s.codec, SubSeq(input, offset + 1, offset + count)),
                        input, offset, store)

(* Bytes behind the request are stored, up to the hard limit. *)
AppendPendingInput(s, input) == [s EXCEPT !.pending = @ \o input]
StoreRest(r, input, store) ==
    LET rest == SubSeq(input, r.accepted + 1, Len(input))
    IN  IF Ended(r.session) \/ ~store \/ rest = <<>> THEN r
        ELSE IF Len(rest) > MaxInput - BufferedInput(r.session)
        THEN Result(BeginClose(r.session, "InputLimitExceeded"), <<>>, r.accepted)
        ELSE Result(AppendPendingInput(r.session, rest), r.request, Len(input))
ConsumeReadingBytes(s, input, store) == StoreRest(DecodeFrom(s, input, 0, store), input, store)

OnInput(s, input) ==
    IF Ended(s) THEN Result(s, <<>>, 0)
    ELSE IF s.state # "Reading"
    THEN IF Len(input) > MaxInput - BufferedInput(s)
         THEN Result(BeginClose(s, "InputLimitExceeded"), <<>>, 0)
         ELSE Result(AppendPendingInput(s, input), <<>>, Len(input))
    ELSE ConsumeReadingBytes(s, input, TRUE)

ConsumePendingInputLater(s) == Result(s, <<>>, 0)
DropAccepted(r) ==
    Result([r.session EXCEPT !.pending = SubSeq(@, r.accepted + 1, Len(@))], r.request, r.accepted)
ConsumePendingInput(s) == DropAccepted(ConsumeReadingBytes(s, s.pending, FALSE))

(* queueResponse for a token that matches: a status and the session. *)
QueueResponse(s, bytes) ==
    IF s.state # "Processing" \/ bytes = 0 THEN [status |-> "InvalidState", session |-> s]
    ELSE IF bytes > MaxOutput
    THEN [status |-> "OutputLimitExceeded", session |-> BeginClose(s, "OutputLimitExceeded")]
    ELSE [status |-> "Ok", session |-> [s EXCEPT !.output = bytes, !.state = "Writing"]]

OnBytesWritten(s, bytes) ==
    LET t == [s EXCEPT !.output = @ - bytes]
    IN  IF s.state # "Writing" THEN Result(s, <<>>, 0)
        ELSE IF bytes > s.output THEN Result(BeginClose(s, "WriteInvariantViolation"), <<>>, 0)
        ELSE IF t.output # 0 THEN Result(t, <<>>, 0)
        ELSE IF s.closeAfterWrite \/ s.peerClosed
        THEN Result(BeginClose(t, IF s.closeAfterWrite THEN s.reason ELSE "PeerClosed"), <<>>, 0)
        ELSE ConsumePendingInput([t EXCEPT !.state = "Reading"])

CloseAfterWrite(s, reason) ==
    IF s.state # "Writing" THEN s ELSE [s EXCEPT !.reason = reason, !.closeAfterWrite = TRUE]

OnPeerReadClosedAbrupt(s) ==
    BeginClose(s, IF BufferedInput(s) # 0 THEN "PeerTruncatedFrame" ELSE "PeerClosed")
OnPeerReadClosed(s) ==
    IF Ended(s) THEN s
    ELSE IF s.state \in {"Processing", "Writing"}
    THEN [s EXCEPT !.peerClosed = TRUE, !.reason = "PeerClosed"]
    ELSE [BeginClose(s, IF BufferedInput(s) # 0 THEN "PeerTruncatedFrame" ELSE "PeerClosed")
             EXCEPT !.peerClosed = TRUE]

(* Input is paused by a watermark only while a request is in progress. *)
ReadPausedByBackpressure(s) ==
    /\ ~s.peerClosed /\ s.state \in {"Processing", "Writing"}
    /\ BufferedInput(s) >= InputWatermark \/ s.output >= OutputWatermark
Interest(s) ==
    IF Ended(s) THEN {}
    ELSE (IF s.state = "Writing" THEN {"write"} ELSE {})
         \cup (IF s.peerClosed THEN {} ELSE {"hup"})
         \cup (IF s.peerClosed \/ ReadPausedByBackpressure(s) THEN {} ELSE {"read"})
==============================================================================
