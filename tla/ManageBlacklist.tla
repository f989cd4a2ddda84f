--------------------------- MODULE ManageBlacklist ---------------------------
(***************************************************************************)
(* The operator's command manage_blacklist (runManageBlacklistCommand):    *)
(* add, disable, and clear with its reset barrier and its wait for         *)
(* convergence.  One command runs at a time; it may end at any step, by an *)
(* error, by its deadline, or because it is killed.                        *)
(***************************************************************************)
EXTENDS BlacklistStore

CONSTANTS
    Commands,      \* the mutations an operator may ask for
    MaxCommands    \* bound on the commands of one behaviour

VARIABLES
    tool,          \* pc and locals of the running command
    commands       \* how many commands were started

toolVars == <<tool, commands>>
Tool == "tool"

(* The reads of readResetConvergence and countEnabledBlacklists, in order.  *)
Probes == <<"hash", "pending", "revision", "published", "mysql">>
NoCommand == [pc |-> "idle", cmd |-> ClearAll, token |-> 0, probe |-> 1,
              rev |-> 0, ok |-> TRUE]
To(l) == tool' = [tool EXCEPT !.pc = l]
Done == tool' = NoCommand

StartCommand(m) ==
    /\ tool.pc = "idle" /\ commands < MaxCommands
    /\ commands' = commands + 1
    /\ tool' = [NoCommand EXCEPT !.cmd = m, !.pc = IF m.op = "clear" THEN "request" ELSE "watch"]
    /\ UNCHANGED storeVars

RequestReset ==
    /\ tool.pc = "request"
    /\ RequestBarrier(Tool)
    /\ tool' = [tool EXCEPT !.token = redis'.requested, !.pc = "wait"]
    /\ UNCHANGED <<mysql, now, faults, commands>>

AwaitResetSkipped ==
    /\ tool.pc = "wait"
    /\ To("watch")
    /\ UNCHANGED <<storeVars, commands>>
AwaitReset ==
    /\ tool.pc = "wait"
    /\ redis.completed >= tool.token
    /\ To("watch")
    /\ UNCHANGED <<storeVars, commands>>

(* applyWithRetry: only a WATCH conflict is tried again. *)
ToolWatch ==
    /\ tool.pc = "watch"
    /\ IF ApplyPrecondition
       THEN To("exec") /\ Watch(Tool, ApplyWatched)
       ELSE Done /\ UNCHANGED watch
    /\ UNCHANGED <<redis, mysql, now, faults, commands>>

ToolExec(ok) ==
    /\ tool.pc = "exec"
    /\ IF Conflict(Tool)
       THEN Unwatch(Tool) /\ To("watch") /\ UNCHANGED <<redis, faults>>
       ELSE /\ ApplyCommit(Tool, <<tool.cmd>>) /\ Reply(ok)
            /\ IF ok /\ tool.cmd.op = "clear" THEN To("probe") ELSE Done
    /\ UNCHANGED <<mysql, now, commands>>

(* One read of the wait loop; a round of reads in which one fails restarts. *)
ProbeHolds ==
    CASE Probes[tool.probe] = "hash"      -> redis.hash = Nothing
      [] Probes[tool.probe] = "pending"   -> redis.pending = <<>>
      [] Probes[tool.probe] = "revision"  -> TRUE
      [] Probes[tool.probe] = "published" -> redis.published = tool.rev
      [] Probes[tool.probe] = "mysql"     -> NoneEnabled

ReadConvergence ==
    /\ tool.pc = "probe"
    /\ LET ok == tool.ok /\ ProbeHolds
           rev == IF Probes[tool.probe] = "revision" THEN redis.revision ELSE tool.rev
       IN  tool' = IF tool.probe < Len(Probes)
                   THEN [tool EXCEPT !.ok = ok, !.rev = rev, !.probe = @ + 1]
                   ELSE IF ok THEN [tool EXCEPT !.pc = "converged"]
                   ELSE [tool EXCEPT !.ok = TRUE, !.rev = 0, !.probe = 1]
    /\ UNCHANGED <<storeVars, commands>>

(* The command prints its result, or gives up where it stands. *)
EndCommand ==
    /\ tool.pc # "idle"
    /\ Done /\ Unwatch(Tool)
    /\ UNCHANGED <<redis, mysql, now, faults, commands>>

ToolStep ==
    \/ \E m \in Commands : StartCommand(m)
    \/ RequestReset \/ AwaitReset \/ ToolWatch \/ ReadConvergence \/ EndCommand
    \/ \E ok \in BOOLEAN : ToolExec(ok)
==============================================================================
