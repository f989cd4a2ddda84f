---------------------------- MODULE MCConnections ----------------------------
(***************************************************************************)
(* The three parts that carry a connection and share no state in the       *)
(* models: the acceptor, the group of event loops and the session.  A      *)
(* behaviour is one of one part; the others stay where they began.         *)
(***************************************************************************)
EXTENDS EventLoopGroup, Sequences

CONSTANTS
    MaxConnects, MaxExhaustions,
    HeaderSize, ByteBase, MaxPayload, MaxFrame, InputWatermark, MaxInput, OutputWatermark, MaxOutput,
    Streams, MaxChunk

VARIABLES
    part,
    accState, accStop, accThread, batch, backlog, edge, wake, listening, reserve, free,
    exhaustions, gaveUp, dispatched, connects, accOwner, accJoined,
    stream, pos, shut, s, taken, answered

accVars == <<accState, accStop, accThread, batch, backlog, edge, wake, listening, reserve, free,
             exhaustions, gaveUp, dispatched, connects, accOwner, accJoined>>
strVars == <<stream, pos, shut, s, taken, answered>>
Acc == INSTANCE AcceptorLoop WITH state <- accState, stopRequested <- accStop, thread <- accThread,
                                  owner <- accOwner, joined <- accJoined
Str == INSTANCE SessionStream

MCInit ==
    /\ part \in {"acceptor", "group", "session"} /\ Init /\ Acc!Init /\ Str!Init
    /\ part # "session" => stream = <<0>>
(* A session may wait for its peer for ever. *)
Waits == UNCHANGED strVars
MCNext ==
    /\ UNCHANGED part
    /\ \/ part = "acceptor" /\ Acc!Next /\ UNCHANGED <<vars, strVars>>
       \/ part = "group" /\ Next /\ UNCHANGED <<accVars, strVars>>
       \/ part = "session" /\ (Str!Next \/ Waits) /\ UNCHANGED <<vars, accVars>>

(* The fairness of FairSpec and of Acc!FairSpec, for the part that runs. *)
MCFairSpec ==
    /\ MCInit /\ [][MCNext]_<<part, vars, accVars, strVars>>
    /\ WF_accVars(part = "acceptor" /\ Acc!ThreadStep)
    /\ WF_accVars(part = "acceptor" /\ Acc!Started)
    /\ WF_vars(part = "group" /\ OwnerStep)
    /\ \A l \in Loops : WF_vars(part = "group" /\ LoopStep(l))
    /\ \A a \in Actors : WF_vars(part = "group" /\ ActorStep(a))

(* All streams of up to eight bits; headers have two digits. *)
BitStreams == UNION {[1..n -> {0, 1}] : n \in 1..8}

(* BacklogServed of AcceptorLoop: what is in the backlog is taken or shed,  *)
(* unless the acceptor gives up or shedding is refused again and again.     *)
BacklogServed == Acc!BacklogServed
(* RequestsMatch of SessionStream: no byte is lost, repeated or reordered.  *)
RequestsMatch == Str!RequestsMatch
(* ClosesForCause of SessionStream: a session closes only for a reason.     *)
ClosesForCause == Str!ClosesForCause
==============================================================================
