---------------------------- MODULE SessionStream ----------------------------
(***************************************************************************)
(* One session fed with every chunking of a byte stream, answered with     *)
(* responses of every size and written in pieces of every size.  Reference *)
(* is the decoding of the whole stream at once.                            *)
(***************************************************************************)
EXTENDS Session

CONSTANTS
    Streams,          \* the byte streams a peer may send
    MaxChunk          \* read_scratch_bytes

VARIABLES
    stream, pos,      \* what the peer sends, and how much recv has returned
    shut,             \* EPOLLRDHUP has been seen: recv goes on to the end
    s,                \* the session
    taken,            \* the requests handed to the business pool, in order
    answered          \* how many of them have a response written in full
vars == <<stream, pos, shut, s, taken, answered>>

Init ==
    /\ stream \in Streams /\ pos = 0 /\ shut = FALSE
    /\ s = NewSession /\ taken = <<>> /\ answered = 0

PeerShuts ==
    /\ ~shut /\ "hup" \in Interest(s) /\ shut' = TRUE
    /\ UNCHANGED <<stream, pos, s, taken, answered>>
Receive(n) ==
    LET r == OnInput(s, SubSeq(stream, pos + 1, pos + n))
    IN  /\ pos + n <= Len(stream) /\ ~Ended(s) /\ (shut \/ "read" \in Interest(s))
        /\ pos' = pos + n /\ s' = r.session /\ taken' = taken \o r.request
        /\ UNCHANGED <<stream, shut, answered>>
ReceiveEnd ==
    /\ shut /\ pos = Len(stream) /\ ~Ended(s) /\ ~s.peerClosed
    /\ s' = OnPeerReadClosed(s) /\ UNCHANGED <<stream, pos, shut, taken, answered>>
Respond(bytes) ==
    /\ s.state = "Processing" /\ s' = QueueResponse(s, bytes).session
    /\ UNCHANGED <<stream, pos, shut, taken, answered>>
Write(bytes) ==
    LET r == OnBytesWritten(s, bytes)
    IN  /\ s.state = "Writing" /\ bytes <= s.output
        /\ s' = r.session /\ taken' = taken \o r.request
        /\ answered' = IF bytes = s.output THEN answered + 1 ELSE answered
        /\ UNCHANGED <<stream, pos, shut>>
Drain ==
    /\ s.state = "Writing" /\ ~s.closeAfterWrite /\ s' = CloseAfterWrite(s, "LocalShutdown")
    /\ UNCHANGED <<stream, pos, shut, taken, answered>>
Close ==
    /\ s.state = "Closing" /\ s' = FinalizeClose(s)
    /\ UNCHANGED <<stream, pos, shut, taken, answered>>

Next ==
    \/ PeerShuts \/ ReceiveEnd \/ Drain \/ Close
    \/ \E n \in 1..MaxChunk : Receive(n)
    \/ \E bytes \in 1..(MaxOutput + 1) : Respond(bytes)
    \/ \E bytes \in 1..MaxOutput : Write(bytes)

Spec == Init /\ [][Next]_vars

-----------------------------------------------------------------------------
(* The reference: the frames of a whole stream, how it ends, and the length *)
(* announced by a frame that is not complete.                               *)
RECURSIVE Reference(_)
Reference(bytes) ==
    LET length == FoldFunctionOnSet(+, 0, [i \in 1..HeaderSize |-> bytes[i] * ByteBase^(HeaderSize - i)],
                                    1..HeaderSize)
        size == HeaderSize + length
        rest == Reference(SubSeq(bytes, size + 1, Len(bytes)))
    IN  IF Len(bytes) < HeaderSize THEN [frames |-> <<>>, end |-> "partial", length |-> 0]
        ELSE IF length = 0 \/ length > MaxPayload THEN [frames |-> <<>>, end |-> "bad", length |-> length]
        ELSE IF Len(bytes) < size THEN [frames |-> <<>>, end |-> "partial", length |-> length]
        ELSE [rest EXCEPT !.frames = <<SubSeq(bytes, HeaderSize + 1, size)>> \o @]
Received == SubSeq(stream, 1, pos)
FrameBytes(payload) == EncodePayloadLength(Len(payload)) \o payload
CodecBytes(c) ==
    IF c.next = "NeedBody" THEN EncodePayloadLength(c.expected) \o c.payload ELSE c.header

(* Type invariant, with the hard limit on buffered input. *)
TypeOK ==
    /\ pos \in 0..Len(stream) /\ answered \in 0..Len(taken)
    /\ s.state \in {"Reading", "Processing", "Writing", "Closing", "Closed"}
    /\ BufferedInput(s) <= MaxInput /\ s.output \in 0..MaxOutput

(* The variables keep their types; every byte that recv returned is in a    *)
(* request already handed out, in the codec or among the pending bytes, in  *)
(* the order of the stream; and the requests handed out are, in order,      *)
(* those of the reference decoding, none left over while the session reads: *)
(* no chunking, pipelining or pause loses, repeats or reorders a byte.      *)
RequestsMatch ==
    /\ TypeOK
    /\ ~Ended(s) => FlattenSeq([i \in DOMAIN taken |-> FrameBytes(taken[i])])
                        \o CodecBytes(s.codec) \o s.pending = Received
    /\ IsPrefix(taken, Reference(Received).frames)
    /\ s.state = "Reading" => taken = Reference(Received).frames

(* A connection is closed as faulty only for what the peer really sent: a   *)
(* bad length, a frame over the limit, or more input than may be buffered.  *)
(* The end of the peer's input never takes away an answer: the session      *)
(* closes for it only when every request handed out has its response        *)
(* written in full.                                                         *)
ClosesForCause ==
    LET r == Reference(Received)
        used == FoldLeft(LAMBDA n, f : n + Len(FrameBytes(f)), 0, taken)
    IN  /\ s.reason = "ProtocolError" => r.end = "bad"
        /\ s.reason = "InputLimitExceeded" =>
              \/ pos - used > MaxInput
              \/ r.end = "partial" /\ r.length > MaxFrame
              \/ \E i \in DOMAIN r.frames : Len(r.frames[i]) > MaxFrame
        /\ Ended(s) /\ s.reason \in {"PeerClosed", "PeerTruncatedFrame"} => answered = Len(taken)
==============================================================================
