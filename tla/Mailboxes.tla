------------------------------ MODULE Mailboxes ------------------------------
(***************************************************************************)
(* The three mailboxes of an event loop as values.  The ring of slots is a *)
(* sequence; signal stands for the eventfd: a post raises it, and the loop *)
(* is woken while it is raised.  wakes says whether the write of the       *)
(* eventfd succeeds; when it fails the post is undone.                     *)
(***************************************************************************)
EXTENDS Integers, Sequences, SequencesExt

CONSTANTS
    CompletionCapacity, CompletionBytes,   \* completion_capacity, completion_byte_capacity
    MaxCompletion,                         \* max_completion_bytes
    TimeoutCapacity, ConnectionCapacity    \* slots of the other two

ASSUME MailboxAssumption ==
    /\ {CompletionCapacity, CompletionBytes, MaxCompletion,
        TimeoutCapacity, ConnectionCapacity} \subseteq Nat \ {0}
    /\ MaxCompletion <= CompletionBytes

NewMailbox == [queue |-> <<>>, signal |-> FALSE, accepting |-> TRUE, rescan |-> FALSE]

(* Posts answer with the mailbox and whether the message was taken. *)
Refused(m) == [mailbox |-> m, ok |-> FALSE]
Posted(m, x, wakes) ==
    IF wakes THEN [mailbox |-> [m EXCEPT !.queue = Append(@, x), !.signal = TRUE], ok |-> TRUE]
    ELSE Refused(m)
Pop(m) == [m EXCEPT !.queue = Tail(@)]
DrainWakeSignal(m) == [m EXCEPT !.signal = FALSE]

-----------------------------------------------------------------------------
(* LoopMailbox: bounded in messages and in bytes. *)
BufferedBytes(m) == FoldLeft(LAMBDA n, c : n + c.size, 0, m.queue)
CompletionPost(m, c, wakes) ==
    IF \/ (c.status = "Response") # (c.size > 0) \/ c.size > MaxCompletion
       \/ ~m.accepting \/ Len(m.queue) = CompletionCapacity
       \/ c.size > CompletionBytes - BufferedBytes(m)
    THEN Refused(m) ELSE Posted(m, c, wakes)
CompletionClose(m) == [m EXCEPT !.accepting = FALSE, !.queue = <<>>]

-----------------------------------------------------------------------------
(* ConnectionMailbox: closing it wakes the loop. *)
ConnectionPost(m, x, wakes) ==
    IF ~m.accepting \/ Len(m.queue) = ConnectionCapacity THEN Refused(m) ELSE Posted(m, x, wakes)
ConnectionClose(m) == [m EXCEPT !.accepting = FALSE, !.queue = <<>>, !.signal = TRUE]

-----------------------------------------------------------------------------
(* TimeoutMailbox: a full one asks the loop to scan all deadlines instead. *)
TimeoutPostDropping(m, e, wakes) ==
    IF ~m.accepting \/ Len(m.queue) = TimeoutCapacity THEN Refused(m) ELSE Posted(m, e, wakes)
TimeoutPost(m, e, wakes) ==
    IF ~m.accepting THEN Refused(m)
    ELSE IF Len(m.queue) = TimeoutCapacity
    THEN [mailbox |-> [m EXCEPT !.rescan = TRUE, !.signal = @ \/ wakes], ok |-> wakes]
    ELSE Posted(m, e, wakes)
TakeRescanRequest(m) == [m EXCEPT !.rescan = FALSE]
TimeoutClose(m) == [m EXCEPT !.accepting = FALSE, !.rescan = FALSE, !.queue = <<>>]
==============================================================================
