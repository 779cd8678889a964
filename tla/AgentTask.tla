------------------------------ MODULE AgentTask ------------------------------
(***************************************************************************)
(* The per-session agent task as the session tier sees it: its ECS status, *)
(* the work is_busy() reports, the route heartbeat and the self idle exit. *)
(***************************************************************************)
EXTENDS FleetState

notAgent == <<brokerVars, reaperVars>>

\* active_connection_count() on the agent.
Attached(t) == {c \in Sock : pc[c] = "proxy" /\ dest[c] = t}

-----------------------------------------------------------------------------
(* ECS                                                                      *)

TaskStarts(t) ==
    /\ st[t] = "pending"
    /\ st' = [st EXCEPT ![t] = "running"]
    /\ NoFault
    /\ UNCHANGED <<owner, age, work, leftover, route, history, notAgent>>

StopCompletes(t) ==
    /\ st[t] = "stopping"
    /\ Gone(t)
    /\ NoFault
    /\ UNCHANGED <<route, polls, notAgent>>

\* The container dies, or is never placed.
TaskCrashes(t) ==
    /\ Active(t)
    /\ Fault("crash")
    /\ Gone(t)
    /\ UNCHANGED <<route, polls, notAgent>>

-----------------------------------------------------------------------------
(* Turns. Once started, a turn outlives the socket that launched it.        *)

StartTurn(t) ==
    /\ Alive(t) /\ work[t] = "none"
    /\ Attached(t) # {}
    /\ work' = [work EXCEPT ![t] = "turn"]
    /\ NoFault
    /\ UNCHANGED <<st, owner, age, leftover, route, history, notAgent>>

StartSolve(t) ==
    /\ Alive(t) /\ work[t] = "turn"
    /\ work' = [work EXCEPT ![t] = "solve"]
    /\ NoFault
    /\ UNCHANGED <<st, owner, age, leftover, route, history, notAgent>>

FinishTurn(t) ==
    /\ Alive(t) /\ Busy(t)
    /\ work' = [work EXCEPT ![t] = "none"]
    /\ longWork' = longWork \ {t}
    /\ NoFault
    /\ UNCHANGED <<st, owner, age, leftover, route, polls, notAgent>>

\* A Batch job left behind by a dead agent ends.
JobEnds ==
    /\ leftover
    /\ leftover' = FALSE
    /\ NoFault
    /\ UNCHANGED <<st, owner, age, work, route, history, notAgent>>

-----------------------------------------------------------------------------
(* _run_idle_exit_monitor                                                   *)

\* Mutant: the idle exit is left disabled (a window of 0).
IdleExitDisabled(t) == st[t] = "gone" /\ st[t] = "running" /\ UNCHANGED vars

\* os._exit(0): no client attached and nothing in flight at every sample of a
\* whole window. What this module keeps of the window is that the task has been
\* up for that long; AgentLiveness models the sampling.
IdleExit(t) ==
    /\ st[t] = "running"
    /\ age[t] >= IdleExitAfter
    /\ Attached(t) = {} /\ ~Busy(t)
    /\ Gone(t)
    /\ NoFault
    /\ UNCHANGED <<route, polls, notAgent>>

\* _hb_write_once upserts the row of its session, whichever task that names,
\* for as long as the process lives.
Heartbeat(t) ==
    /\ HeartbeatArmed
    /\ Alive(t)
    /\ route' = [route EXCEPT ![owner[t]] =
                    [Upserted(owner[t]) EXCEPT !.hb = work[t], !.hbAge = 0]]
    /\ NoFault
    /\ UNCHANGED <<ecsVars, history, notAgent>>

\* Environment: an item is lost to the table's TTL or to an operator.
RowLost(s) ==
    /\ HasRow(route, s)
    /\ Fault("ttl")
    /\ route' = [route EXCEPT ![s] = None]
    /\ UNCHANGED <<ecsVars, history, notAgent>>

-----------------------------------------------------------------------------
\* What ECS and a running turn do by themselves.
AgentStep(t) ==
    \/ TaskStarts(t)
    \/ StopCompletes(t)
    \/ FinishTurn(t)
    \/ Heartbeat(t)

AgentNext ==
    \/ \E t \in Task :
          AgentStep(t) \/ StartTurn(t) \/ StartSolve(t) \/ IdleExit(t) \/ TaskCrashes(t)
    \/ \E s \in Session : RowLost(s)
    \/ JobEnds
=============================================================================
