------------------------------ MODULE EventLoop ------------------------------
(***************************************************************************)
(* One event loop: the edge-triggered sockets of its sessions, the three   *)
(* mailboxes through which business workers, the timer thread and the      *)
(* acceptor reach it, and its drain and shutdown.                          *)
(*                                                                         *)
(* A handler of the loop is one step.  Handlers call each other (reading   *)
(* dispatches, a rejected dispatch writes, a finished write dispatches     *)
(* again), and what the pool, the timer and epoll_ctl answer is open, so   *)
(* each is an operator from a world to the set of worlds it may lead to.   *)
(* A world is the state the handlers share: sessions, sockets, business    *)
(* tasks, scheduled timers and the count of reserved connections.          *)
(*                                                                         *)
(* Time is one flag per deadline: due, once its moment has passed.         *)
(***************************************************************************)
EXTENDS Session, Mailboxes, FiniteSets

CONSTANTS
    Fds,                 \* descriptors; one is used again after it is closed
    ReadScratch,         \* read_scratch_bytes
    MaxRoom,             \* bytes the send buffer of a socket holds
    Settings             \* configurations and surroundings a loop may have, with fields
                         \*   wire         the bytes a peer sends, or a prefix of them
                         \*   segment      how many of them arrive together
                         \*   shut         a peer may shut down its side
                         \*   connections  connections in a run (the bound of generation)
                         \*   overload     overload_response_frame is configured
                         \*   timeout      business_timeout_response_frame is configured
                         \*   reject       the business pool may be full
                         \*   fail         scheduling a timer and epoll_ctl may fail
                         \*   reset        a peer may reset its connection
                         \*   halt         "stop": the group is drained or stopped at any time,
                         \*                "drain": it is stopped when it has been drained,
                         \*                "idle": and drained when its connections have ended

VARIABLES
    setting,             \* the configuration and surroundings of this loop
    sessions,            \* fd -> SessionEntry, NoEntry when the fd is not adopted
    socks,               \* fd -> the socket and its place in epoll
    tasks,               \* business tasks accepted by the pool and not finished
    timers,              \* timers scheduled and neither fired nor cancelled
    load,                \* reserved connections (ConnectionLoadCounter)
    requests,            \* requests decoded so far, over all connections
    firing,              \* events of the timer thread on their way to the mailbox
    completions, timeouts, connections,     \* the mailboxes
    routing,             \* the router accepts and the loop is bound
    generation,          \* next_generation
    pc, batch,           \* the loop, and the events of epoll_wait not yet handled
    drain, stop,         \* drain_requested, stop_requested
    closing              \* beginDrain or stop has still to close the registrations
world == <<sessions, socks, tasks, timers, load, requests, firing>>
mail == <<completions, timeouts, connections>>
vars == <<setting, sessions, socks, tasks, timers, load, requests, firing, completions, timeouts,
          connections, routing, generation, pc, batch, drain, stop, closing>>

NoEntry ==
    [gen |-> 0, s |-> NewSession, reg |-> {}, seq |-> 0, kind |-> "Idle", active |-> FALSE,
     due |-> FALSE, expired |-> FALSE, req |-> 0, answer |-> 0]
NoSocket ==
    [open |-> FALSE, rx |-> <<>>, sent |-> 0, fin |-> FALSE, reset |-> FALSE,
     room |-> 0, edge |-> FALSE]

Init ==
    /\ setting \in Settings
    /\ sessions = [fd \in Fds |-> NoEntry] /\ socks = [fd \in Fds |-> NoSocket]
    /\ tasks = {} /\ timers = {} /\ load = 0 /\ requests = 0 /\ firing = {}
    /\ completions = NewMailbox /\ timeouts = NewMailbox /\ connections = NewMailbox
    /\ routing = TRUE /\ generation = 1 /\ pc = "poll" /\ batch = {}
    /\ drain = FALSE /\ stop = FALSE /\ closing = FALSE

World ==
    [sessions |-> sessions, socks |-> socks, tasks |-> tasks, timers |-> timers,
     load |-> load, requests |-> requests, firing |-> firing]
Become(w) ==
    /\ sessions' = w.sessions /\ socks' = w.socks /\ tasks' = w.tasks
    /\ timers' = w.timers /\ load' = w.load /\ requests' = w.requests /\ firing' = w.firing

Present(w, fd) == w.sessions[fd].gen # 0
Outcomes == IF setting.fail THEN BOOLEAN ELSE {TRUE}

-----------------------------------------------------------------------------
(* epoll: what a socket is ready for, and the edge that a registration or  *)
(* an arrival leaves in the ready list.                                     *)
Ready(k) ==
    (IF k.rx # <<>> \/ k.fin \/ k.reset THEN {"read"} ELSE {})
        \cup (IF k.room > 0 THEN {"write"} ELSE {})
        \cup (IF k.fin THEN {"hup"} ELSE {}) \cup (IF k.reset THEN {"error"} ELSE {})
Mask(k, reg) == Ready(k) \cap (reg \cup {"error"})
Rearmed(k, reg) == [k EXCEPT !.edge = @ \/ Mask(k, reg) # {}]

(* Timers of a session. *)
TimerOf(fd, e) == [fd |-> fd, gen |-> e.gen, seq |-> e.seq, kind |-> e.kind]
CancelDeadline(w, fd) ==
    IF ~w.sessions[fd].active THEN w
    ELSE [w EXCEPT !.sessions[fd].active = FALSE, !.sessions[fd].due = FALSE,
                   !.timers = @ \ {TimerOf(fd, w.sessions[fd])}]
DeadlineKindFor(s) ==
    CASE s.state = "Processing" -> "Business"
      [] s.state = "Writing" -> "Write"
      [] s.state = "Reading" /\ BufferedInput(s) # 0 -> "Read"
      [] OTHER -> "Idle"

ReleaseSlot(w) == [w EXCEPT !.load = @ - 1]
CloseSession(w, fd) ==
    IF ~Present(w, fd) THEN w
    ELSE ReleaseSlot([CancelDeadline(w, fd) EXCEPT !.sessions[fd] = NoEntry, !.socks[fd] = NoSocket])

(* armDeadline: a fresh sequence number; a session that cannot be timed is  *)
(* closed by every caller.                                                  *)
Timed(w, fd, e) == [w EXCEPT !.sessions[fd] = e, !.timers = @ \cup {TimerOf(fd, e)}]
Rearm(w, fd, kind) ==
    {IF ok THEN Timed(w, fd, [w.sessions[fd] EXCEPT !.seq = @ + 1, !.kind = kind,
                                                    !.active = TRUE, !.due = FALSE])
     ELSE CloseSession(w, fd) : ok \in Outcomes}
ArmDeadline(w, fd, kind) == Rearm(CancelDeadline(w, fd), fd, kind)
SyncDeadline(w, fd) ==
    LET e == w.sessions[fd]
    IN  IF Ended(e.s) THEN {CancelDeadline(w, fd)}
        ELSE IF e.active /\ e.kind = DeadlineKindFor(e.s) THEN {w}
        ELSE ArmDeadline(w, fd, DeadlineKindFor(e.s))

(* modifyInterest: epoll_ctl only when the interest has changed; a failure  *)
(* closes the session in every caller.                                      *)
ModifyInterest(w, fd) ==
    LET desired == Interest(w.sessions[fd].s)
    IN  IF Ended(w.sessions[fd].s) THEN {CloseSession(w, fd)}
        ELSE IF desired = w.sessions[fd].reg THEN {w}
        ELSE {IF ok THEN [w EXCEPT !.sessions[fd].reg = desired, !.socks[fd] = Rearmed(@, desired)]
              ELSE CloseSession(w, fd) : ok \in Outcomes}
SetSession(w, fd, s) == [w EXCEPT !.sessions[fd].s = s]

-----------------------------------------------------------------------------
RECURSIVE HandleWrite(_, _)
RECURSIVE HandleRead(_, _, _)

(* dispatchRequest: the worlds, and whether the caller goes on. *)
DispatchRequest(w, fd) ==
    LET n == w.requests + 1
        v == [w EXCEPT !.requests = n, !.sessions[fd].req = n]
        task == [fd |-> fd, gen |-> w.sessions[fd].gen, req |-> n]
        accepted == [v EXCEPT !.tasks = @ \cup {task}, !.sessions[fd].expired = FALSE]
        overloaded == SetSession([v EXCEPT !.sessions[fd].answer = 0], fd,
                                 QueueResponse(w.sessions[fd].s, 1).session)
        rejected ==
            IF setting.overload THEN UNION {HandleWrite(x, fd) : x \in SyncDeadline(overloaded, fd)}
            ELSE {CloseSession(v, fd)}
    IN  IF drain THEN {[w |-> CloseSession(v, fd), on |-> FALSE]}
        ELSE {[w |-> x, on |-> Present(x, fd)] : x \in SyncDeadline(accepted, fd)}
             \cup (IF setting.reject THEN {[w |-> x, on |-> FALSE] : x \in rejected} ELSE {})

(* handleWrite: send until the response is written, the socket is full or   *)
(* the session ends; the next pipelined request is dispatched on the way.   *)
Written(w, fd, r) ==
    IF r.request = <<>>
    THEN UNION {HandleWrite(x, fd) : x \in SyncDeadline(SetSession(w, fd, r.session), fd)}
    ELSE UNION {IF d.on THEN HandleWrite(d.w, fd) ELSE {d.w} :
                    d \in DispatchRequest(SetSession(w, fd, r.session), fd)}
HandleWrite(w, fd) ==
    LET e == w.sessions[fd]
        bytes == Min({e.s.output, w.socks[fd].room})
    IN  IF ~Present(w, fd) THEN {w}
        ELSE IF e.s.state # "Writing"
        THEN IF Ended(e.s) THEN {CloseSession(w, fd)} ELSE ModifyInterest(w, fd)
        ELSE IF e.s.output = 0 \/ w.socks[fd].reset THEN {CloseSession(w, fd)}
        ELSE IF bytes = 0 THEN ModifyInterest(w, fd)
        ELSE Written([w EXCEPT !.socks[fd].room = @ - bytes], fd, OnBytesWritten(e.s, bytes))

(* handleRead: recv until it would block, the input is paused or the        *)
(* session ends.                                                            *)
AfterInput(w, fd, drainPeer) ==
    LET e == w.sessions[fd]
        synced == IF e.s.state = "Reading" THEN SyncDeadline(w, fd) ELSE {w}
    IN  IF ~Present(w, fd) THEN {w}
        ELSE IF Ended(e.s) THEN {CloseSession(w, fd)}
        ELSE UNION {IF ~Present(x, fd) THEN {x}
                    ELSE IF ~drainPeer /\ "read" \notin Interest(e.s) THEN ModifyInterest(x, fd)
                    ELSE HandleRead(x, fd, drainPeer) : x \in synced}
Decodes(w, fd, r, drainPeer) ==
    UNION {IF d.on THEN AfterInput(d.w, fd, drainPeer) ELSE {d.w} :
               d \in IF r.request = <<>> THEN {[w |-> w, on |-> TRUE]} ELSE DispatchRequest(w, fd)}
Received(w, fd, r, drainPeer) == Decodes(SetSession(w, fd, r.session), fd, r, drainPeer)
HandleRead(w, fd, drainPeer) ==
    LET k == w.socks[fd]
        e == w.sessions[fd]
        bytes == Min({ReadScratch, Len(k.rx)})
    IN  IF ~Present(w, fd) THEN {w}
        ELSE IF bytes > 0
        THEN Received([w EXCEPT !.socks[fd].rx = SubSeq(@, bytes + 1, Len(@))], fd,
                      OnInput(e.s, SubSeq(k.rx, 1, bytes)), drainPeer)
        ELSE IF k.reset THEN {CloseSession(w, fd)}
        ELSE ModifyInterest(IF k.fin THEN SetSession(w, fd, OnPeerReadClosed(e.s)) ELSE w, fd)

(* handleSocketEvent, for an event that still belongs to a session. *)
HandleSocketEvent(w, fd, mask) ==
    LET reads == "hup" \in mask \/ {"read"} \subseteq mask \cap Interest(w.sessions[fd].s)
        afterRead == IF reads THEN HandleRead(w, fd, "hup" \in mask) ELSE {w}
    IN  IF "error" \in mask THEN {CloseSession(w, fd)}
        ELSE UNION {IF "write" \in mask THEN HandleWrite(x, fd) ELSE {x} : x \in afterRead}

(* handleTimeoutEvent: only the current deadline of the same connection,    *)
(* in the state it was armed for, and not before its time.  When the loop   *)
(* finds a deadline due by itself, the id of its timer is forgotten and not *)
(* cancelled: the timer, due as well, still fires.                          *)
HandleTimeoutEvent(w, t) ==
    LET e == w.sessions[t.fd]
        idle == [w EXCEPT !.sessions[t.fd].active = FALSE, !.sessions[t.fd].due = FALSE,
                          !.timers = @ \ {t}, !.firing = @ \cup (w.timers \cap {t})]
        q == QueueResponse(e.s, 1)
        late == [SetSession(idle, t.fd, CloseAfterWrite(q.session, "BusinessTimeout"))
                    EXCEPT !.sessions[t.fd].expired = TRUE, !.sessions[t.fd].answer = 0]
    IN  IF ~(e.active /\ t = TimerOf(t.fd, e) /\ t.kind = DeadlineKindFor(e.s) /\ e.due) THEN {w}
        ELSE IF t.kind = "Business" /\ setting.timeout /\ q.status = "Ok"
        THEN UNION {HandleWrite(x, t.fd) : x \in SyncDeadline(late, t.fd)}
        ELSE {CloseSession(idle, t.fd)}

(* applyCompletion: a result for a connection that is gone, or that has     *)
(* run out of time, is dropped.                                             *)
ApplyCompletionByFd(w, c) ==
    LET e == w.sessions[c.fd]
        v == CancelDeadline(w, c.fd)
        q == QueueResponse(e.s, c.size)
        s == IF drain THEN CloseAfterWrite(q.session, "LocalShutdown") ELSE q.session
        queued == [SetSession(v, c.fd, s) EXCEPT !.sessions[c.fd].answer = c.req]
    IN  IF e.gen = 0 \/ e.expired THEN {w}
        ELSE IF c.status # "Response" \/ q.status # "Ok" THEN {CloseSession(v, c.fd)}
        ELSE UNION {HandleWrite(x, c.fd) : x \in SyncDeadline(queued, c.fd)}
ApplyCompletion(w, c) ==
    LET e == w.sessions[c.fd]
        v == CancelDeadline(w, c.fd)
        q == QueueResponse(e.s, c.size)
        s == IF drain THEN CloseAfterWrite(q.session, "LocalShutdown") ELSE q.session
        queued == [SetSession(v, c.fd, s) EXCEPT !.sessions[c.fd].answer = c.req]
    IN  IF e.gen # c.gen \/ e.expired THEN {w}
        ELSE IF e.active /\ e.kind = "Business" /\ e.due
        THEN HandleTimeoutEvent(w, TimerOf(c.fd, e))
        ELSE IF c.status # "Response" \/ q.status # "Ok" THEN {CloseSession(v, c.fd)}
        ELSE UNION {HandleWrite(x, c.fd) : x \in SyncDeadline(queued, c.fd)}

(* applyGracefulDrain for one session. *)
DrainSession(w, fd) ==
    LET s == w.sessions[fd].s
    IN  CASE Present(w, fd) /\ s.state = "Reading" -> {CloseSession(w, fd)}
          [] Present(w, fd) /\ s.state = "Writing" ->
                HandleWrite(SetSession(w, fd, CloseAfterWrite(s, "LocalShutdown")), fd)
          [] OTHER -> {w}

(* The worlds after Op has been applied to each descriptor of fdSeq. *)
Each(Op(_, _), fdSeq) ==
    FoldLeft(LAMBDA W, fd : UNION {Op(w, fd) : w \in W}, {World}, fdSeq)
FdSeq == SetToSeq(Fds)

-----------------------------------------------------------------------------
(* The loop. *)
others == <<routing, generation, drain, stop, closing>>

(* loopMain looks at stop_requested before each pollOnce; once inside       *)
(* epoll_wait only an event returns it.                                     *)
PollOnce ==
    /\ pc = "poll" /\ batch = {} /\ ~stop /\ pc' = "wait"
    /\ UNCHANGED <<world, mail, batch, others>>
Signalled == completions.signal \/ timeouts.signal \/ connections.signal
EpollWait ==
    LET ready == {fd \in Fds : sessions[fd].gen # 0 /\ socks[fd].edge
                               /\ Mask(socks[fd], sessions[fd].reg) # {}}
        events == {[fd |-> fd, gen |-> sessions[fd].gen, mask |-> Mask(socks[fd], sessions[fd].reg)] :
                       fd \in ready}
    IN  /\ pc = "wait" /\ pc' = "poll"
        /\ ready # {} \/ Signalled
        /\ batch' = events \cup (IF Signalled THEN {[fd |-> 0, gen |-> 0, mask |-> {}]} ELSE {})
        /\ socks' = [fd \in Fds |-> [socks[fd] EXCEPT !.edge = FALSE]]
        /\ UNCHANGED <<sessions, tasks, timers, load, requests, firing, mail, others>>

SocketEvent(ev) ==
    /\ pc = "poll" /\ ev \in batch /\ ev.gen # 0
    /\ batch' = batch \ {ev}
    /\ IF sessions[ev.fd].gen = ev.gen
       THEN \E w \in HandleSocketEvent(World, ev.fd, ev.mask) : Become(w)
       ELSE UNCHANGED world
    /\ UNCHANGED <<mail, pc, others>>

(* drainMailboxes, in its order; each signal is cleared before its queue    *)
(* is emptied.                                                              *)
DrainMailboxes(ev) ==
    /\ pc = "poll" /\ ev \in batch /\ ev.gen = 0
    /\ batch' = batch \ {ev} /\ pc' = "completions"
    /\ completions' = DrainWakeSignal(completions)
    /\ UNCHANGED <<world, timeouts, connections, others>>
PopCompletion ==
    /\ pc = "completions" /\ completions.queue # <<>>
    /\ completions' = Pop(completions)
    /\ \E w \in ApplyCompletion(World, Head(completions.queue)) : Become(w)
    /\ UNCHANGED <<timeouts, connections, pc, batch, others>>
CompletionsDone ==
    /\ pc = "completions" /\ completions.queue = <<>>
    /\ pc' = "timeouts" /\ timeouts' = DrainWakeSignal(timeouts)
    /\ UNCHANGED <<world, completions, connections, batch, others>>
PopTimeout ==
    /\ pc = "timeouts" /\ timeouts.queue # <<>>
    /\ timeouts' = Pop(timeouts)
    /\ \E w \in HandleTimeoutEvent(World, Head(timeouts.queue)) : Become(w)
    /\ UNCHANGED <<completions, connections, pc, batch, others>>
TimeoutsDone ==
    /\ pc = "timeouts" /\ timeouts.queue = <<>> /\ pc' = "rescan"
    /\ UNCHANGED <<world, mail, batch, others>>

(* takeRescanRequest and the scan of all deadlines. *)
ScanDeadline(w, fd) ==
    IF w.sessions[fd].active /\ w.sessions[fd].due
    THEN HandleTimeoutEvent(w, TimerOf(fd, w.sessions[fd])) ELSE {w}
RescanDrains ==
    /\ pc = "rescan" /\ pc' = "connections"
    /\ timeouts' = DrainWakeSignal(TakeRescanRequest(timeouts))
    /\ connections' = DrainWakeSignal(connections)
    /\ IF timeouts.rescan THEN \E w \in Each(ScanDeadline, FdSeq) : Become(w) ELSE UNCHANGED world
    /\ UNCHANGED <<completions, batch, others>>
Rescan ==
    /\ pc = "rescan" /\ pc' = "connections"
    /\ timeouts' = TakeRescanRequest(timeouts)
    /\ connections' = DrainWakeSignal(connections)
    /\ IF timeouts.rescan THEN \E w \in Each(ScanDeadline, FdSeq) : Become(w) ELSE UNCHANGED world
    /\ UNCHANGED <<completions, batch, others>>

(* adopt: a new generation, epoll, the first deadline.  Without a deadline  *)
(* the slot of the connection is given back once.                           *)
AdoptedReleasesTwice(w, fd, gen) ==
    LET e == [NoEntry EXCEPT !.gen = gen, !.reg = Interest(NewSession)]
        v == [w EXCEPT !.sessions[fd] = e, !.socks[fd] = Rearmed(@, e.reg)]
    IN  SyncDeadline(v, fd) \cup (IF setting.fail THEN {ReleaseSlot(CloseSession(v, fd))} ELSE {})
Adopted(w, fd, gen) ==
    LET e == [NoEntry EXCEPT !.gen = gen, !.reg = Interest(NewSession)]
        v == [w EXCEPT !.sessions[fd] = e, !.socks[fd] = Rearmed(@, e.reg)]
    IN  SyncDeadline(v, fd) \cup (IF setting.fail THEN {CloseSession(v, fd)} ELSE {})
PopConnection ==
    LET fd == Head(connections.queue)
    IN  /\ pc = "connections" /\ connections.queue # <<>>
        /\ connections' = Pop(connections) /\ generation' = generation + 1
        /\ \E w \in Adopted(World, fd, generation) : Become(w)
        /\ UNCHANGED <<completions, timeouts, routing, pc, batch, drain, stop, closing>>
ConnectionsDone ==
    /\ pc = "connections" /\ connections.queue = <<>> /\ pc' = "poll"
    /\ IF drain THEN \E w \in Each(DrainSession, FdSeq) : Become(w) ELSE UNCHANGED world
    /\ UNCHANGED <<mail, batch, others>>
(* loopMain sees stop_requested: forceShutdown. *)
CloseAll(w, fd) == {CloseSession(w, fd)}
Shutdown ==
    /\ pc = "poll" /\ batch = {} /\ stop /\ pc' = "stopped" /\ routing' = FALSE
    /\ completions' = CompletionClose(completions) /\ timeouts' = TimeoutClose(timeouts)
    /\ connections' = ConnectionClose(connections)
    /\ \E w \in Each(CloseAll, FdSeq) :
          /\ sessions' = w.sessions /\ tasks' = w.tasks /\ timers' = w.timers
          /\ requests' = w.requests /\ firing' = w.firing
          /\ load' = w.load - Len(connections.queue)
          /\ socks' = [fd \in Fds |-> IF Contains(connections.queue, fd) THEN NoSocket ELSE w.socks[fd]]
    /\ UNCHANGED <<batch, generation, drain, stop, closing>>

-----------------------------------------------------------------------------
loopOnly == <<pc, batch>>

(* The acceptor: tryDispatch reserves, posts, and gives back. *)
Connect(fd) ==
    LET p == ConnectionPost(connections, fd, TRUE)
    IN  /\ ~drain /\ ~stop /\ ~socks[fd].open /\ load < TimeoutCapacity
        /\ generation + Len(connections.queue) <= setting.connections /\ p.ok
        /\ connections' = p.mailbox /\ load' = load + 1
        /\ socks' = [socks EXCEPT ![fd] = [NoSocket EXCEPT !.open = TRUE, !.room = MaxRoom]]
        /\ UNCHANGED <<sessions, tasks, timers, requests, firing, completions, timeouts, loopOnly, others>>

(* Peers.  An arrival leaves an edge when its event is registered. *)
Arrive(fd, k, event) ==
    /\ socks[fd].open /\ ~socks[fd].reset /\ socks' = [socks EXCEPT ![fd] =
           IF sessions[fd].gen # 0 /\ event \cap (sessions[fd].reg \cup {"error"}) # {}
           THEN [k EXCEPT !.edge = TRUE] ELSE k]
    /\ UNCHANGED <<sessions, tasks, timers, load, requests, firing, mail, loopOnly, others>>
PeerSends(fd) ==
    LET from == socks[fd].sent
        to == Min({from + setting.segment, Len(setting.wire)})
    IN  /\ ~socks[fd].fin /\ from < to
        /\ Arrive(fd, [socks[fd] EXCEPT !.sent = to, !.rx = @ \o SubSeq(setting.wire, from + 1, to)],
                  {"read"})
PeerShuts(fd) == setting.shut /\ ~socks[fd].fin /\ Arrive(fd, [socks[fd] EXCEPT !.fin = TRUE], {"read", "hup"})
PeerReads(fd) ==
    socks[fd].room < MaxRoom /\ Arrive(fd, [socks[fd] EXCEPT !.room = MaxRoom], {"write"})
PeerResets(fd) == setting.reset /\ Arrive(fd, [socks[fd] EXCEPT !.reset = TRUE], {"error"})

(* A business task ends, with a result or without one; tryRoute delivers it *)
(* if the loop is still bound.                                              *)
Results == {[status |-> "Response", size |-> MaxCompletion], [status |-> "Failed", size |-> 0]}
BusinessTaskRun(t, r) ==
    LET c == [fd |-> t.fd, gen |-> t.gen, req |-> t.req, status |-> r.status, size |-> r.size]
    IN  /\ t \in tasks /\ tasks' = tasks \ {t}
        /\ completions' = IF routing THEN CompletionPost(completions, c, TRUE).mailbox ELSE completions
        /\ UNCHANGED <<sessions, socks, timers, load, requests, firing, timeouts, connections, loopOnly,
                       others>>

(* Time and the timer thread. *)
Elapse(fd) ==
    /\ sessions[fd].active /\ ~sessions[fd].due
    /\ sessions' = [sessions EXCEPT ![fd].due = TRUE]
    /\ UNCHANGED <<socks, tasks, timers, load, requests, firing, mail, loopOnly, others>>
TimerFires(t) ==
    /\ t \in timers /\ sessions[t.fd].due
    /\ timers' = timers \ {t} /\ firing' = firing \cup {t}
    /\ UNCHANGED <<sessions, socks, tasks, load, requests, mail, loopOnly, others>>
TimerPosts(t) ==
    /\ t \in firing /\ firing' = firing \ {t}
    /\ timeouts' = TimeoutPost(timeouts, t, TRUE).mailbox
    /\ UNCHANGED <<sessions, socks, tasks, timers, load, requests, completions, connections,
                   loopOnly, others>>

(* The group: beginDrain and stop set their flag under the lock and close   *)
(* the registrations after it.                                              *)
BeginDrain ==
    /\ setting.halt # "idle" \/ (load = 0 /\ generation > setting.connections)
    /\ ~drain /\ ~stop /\ drain' = TRUE /\ closing' = TRUE
    /\ UNCHANGED <<world, mail, loopOnly, routing, generation, stop>>
Stop ==
    /\ ~stop /\ (setting.halt = "stop" \/ (drain /\ load = 0)) /\ stop' = TRUE /\ closing' = TRUE
    /\ UNCHANGED <<world, mail, loopOnly, routing, generation, drain>>
CloseRegistrations ==
    /\ closing /\ closing' = FALSE /\ routing' = (routing /\ ~stop)
    /\ connections' = ConnectionClose(connections)
    /\ load' = load - Len(connections.queue)
    /\ socks' = [fd \in Fds |-> IF Contains(connections.queue, fd) THEN NoSocket ELSE socks[fd]]
    /\ UNCHANGED <<sessions, tasks, timers, requests, completions, timeouts, loopOnly, firing,
                   generation, drain, stop>>

LoopStep ==
    \/ PollOnce \/ EpollWait \/ PopCompletion \/ CompletionsDone \/ PopTimeout \/ TimeoutsDone \/ Rescan
    \/ PopConnection \/ ConnectionsDone \/ Shutdown
    \/ \E ev \in batch : SocketEvent(ev) \/ DrainMailboxes(ev)
TimerStep == \E t \in timers \cup firing : TimerFires(t) \/ TimerPosts(t)
(* The loop may wait for ever when nothing comes, and is over once stopped. *)
Rests == pc \in {"wait", "stopped"} /\ UNCHANGED vars

Kept == UNCHANGED setting
Next ==
    /\ Kept
    /\ \/ LoopStep \/ TimerStep \/ BeginDrain \/ Stop \/ CloseRegistrations \/ Rests
       \/ \E fd \in Fds : Connect(fd) \/ PeerSends(fd) \/ PeerShuts(fd) \/ PeerReads(fd)
                             \/ PeerResets(fd) \/ Elapse(fd)
       \/ \E t \in tasks, r \in Results : BusinessTaskRun(t, r)

Spec == Init /\ [][Next]_vars

(* Weak fairness of LoopStep, with its enabling condition written out: the  *)
(* loop can go on unless it has ended or epoll_wait has nothing to return.  *)
LoopCanStep ==
    /\ pc # "stopped"
    /\ pc = "wait" => Signalled
                      \/ \E fd \in Fds : socks[fd].edge /\ Mask(socks[fd], sessions[fd].reg) # {}
LoopFairness == []<>(~LoopCanStep) \/ []<><<LoopStep>>_vars

(* The loop thread and the timer thread run, time passes and the group      *)
(* closes what it has begun to close.  Workers and peers may stall.         *)
FairSpec ==
    /\ Spec /\ LoopFairness /\ WF_vars(Kept /\ TimerStep) /\ WF_vars(Kept /\ CloseRegistrations)
    /\ \A fd \in Fds : WF_vars(Kept /\ Elapse(fd))
-----------------------------------------------------------------------------
LiveFds == {fd \in Fds : sessions[fd].gen # 0}
Timers == {"Idle", "Read", "Write", "Business"}
States == {"Reading", "Processing", "Writing"}

(* Between two steps of the loop a session is in one of its three open      *)
(* states (closing is finished by the handler that began it), and the       *)
(* buffers and mailboxes are within their limits.                           *)
TypeOK ==
    /\ \A fd \in Fds :
          /\ sessions[fd].gen \in 0..setting.connections /\ sessions[fd].seq \in Nat
          /\ sessions[fd].s.state \in States /\ sessions[fd].kind \in Timers
          /\ sessions[fd].reg \subseteq {"read", "write", "hup"}
          /\ BufferedInput(sessions[fd].s) <= MaxInput /\ sessions[fd].s.output \in 0..MaxOutput
          /\ socks[fd].room \in 0..MaxRoom
          /\ (sessions[fd].gen # 0 => socks[fd].open)
    /\ setting \in Settings /\ load \in 0..TimeoutCapacity /\ generation \in 1..setting.connections + 1
    /\ Len(completions.queue) <= CompletionCapacity /\ BufferedBytes(completions) <= CompletionBytes
    /\ Len(timeouts.queue) <= TimeoutCapacity /\ Len(connections.queue) <= ConnectionCapacity
    /\ pc \in {"wait", "poll", "completions", "timeouts", "rescan", "connections", "stopped"}

(* What a session writes is the answer to the request it took last: the     *)
(* result the worker computed for it, or a frame of the loop itself         *)
(* (answer 0).  Results of an earlier connection on the same descriptor,    *)
(* and results that come after the business deadline has expired, are       *)
(* never written (applyCompletion).                                         *)
AnswersOwnRequest ==
    \A fd \in LiveFds :
        sessions[fd].s.state = "Writing" =>
            /\ sessions[fd].answer \in {0, sessions[fd].req}
            /\ sessions[fd].expired => sessions[fd].answer = 0 /\ sessions[fd].s.closeAfterWrite

(* The variables keep their types and nothing leaks, through failed         *)
(* adoptions, closes, drain and shutdown.  The counter the acceptor admits  *)
(* connections by is the number of connections the loop holds or is about   *)
(* to adopt: every slot is given back once.  A timer that is set belongs to *)
(* the deadline its session has now: none is left behind by a change of     *)
(* state or by the end of the session (cancelDeadline in armDeadline,       *)
(* applyCompletion and closeSession).                                       *)
NothingLeaks ==
    /\ TypeOK
    /\ load = Cardinality(LiveFds) + Len(connections.queue)
    /\ load = Cardinality({fd \in Fds : socks[fd].open})
    /\ \A t \in timers : sessions[t.fd].active /\ t = TimerOf(t.fd, sessions[t.fd])

(* When the loop waits, epoll watches what each session is interested in,   *)
(* and whatever a socket is ready for among that is in the ready list: no   *)
(* byte, end of stream or room to write is left without an edge             *)
(* (handleRead and handleWrite go on until they would block, or change the  *)
(* registration, which polls the socket again).  It does not hold of a loop *)
(* with an overload response: dispatchRequest leaves the read loop early    *)
(* when it has written one.                                                 *)
EdgeNotLost ==
    \A fd \in LiveFds :
        /\ sessions[fd].reg = Interest(sessions[fd].s)
        /\ Mask(socks[fd], sessions[fd].reg) # {} => socks[fd].edge

(* A drain is not overlooked once the registrations are closed: no session  *)
(* is left that reads, and those that still write end with their response.  *)
DrainApplied ==
    drain /\ ~closing /\ ~connections.signal =>
        \A fd \in LiveFds :
            \/ sessions[fd].s.state = "Processing"
            \/ sessions[fd].s.state = "Writing" /\ sessions[fd].s.closeAfterWrite

(* The loop does not sleep over work.  When it waits and a mailbox holds a  *)
(* message or a request to scan, the eventfd of that mailbox is raised; the *)
(* drain has been applied; and, without an overload response, no socket is  *)
(* ready without an edge.                                                   *)
NoLostWakeUp ==
    pc = "wait" =>
        /\ completions.queue # <<>> => completions.signal
        /\ timeouts.queue # <<>> \/ timeouts.rescan => timeouts.signal
        /\ connections.queue # <<>> => connections.signal
        /\ DrainApplied
        /\ ~setting.overload => EdgeNotLost

(* Every connection ends, whatever its peer and the workers do: a deadline  *)
(* covers each state, even when the result of a request was dropped by a    *)
(* full mailbox or never comes.  A stop ends the loop thread, wherever it   *)
(* was.                                                                     *)
Unsettled(fd) == sessions[fd].gen # 0 \/ (stop /\ pc # "stopped")
EverySessionEnds == \A fd \in Fds : Unsettled(fd) ~> ~Unsettled(fd)
==============================================================================
