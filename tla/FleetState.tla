----------------------------- MODULE FleetState -----------------------------
(***************************************************************************)
(* The state the session tier shares: the ECS tasks of the agent family,   *)
(* the DynamoDB table grace2_session_routes, the connections the broker    *)
(* serves, and the working memory of one invocation of the task reaper.    *)
(*                                                                         *)
(* SessionBroker, TaskReaper and AgentTask define the actions of the three *)
(* programs over this state; SessionFleet composes them.                   *)
(***************************************************************************)
EXTENDS Integers, FiniteSets

CONSTANTS
    Session,           \* (user_ulid, session_id) pairs, the key of a route row
    Tab,               \* concurrent sockets of one session (App, Chat, ...)
    Task,              \* task ARNs; their number stands for the vCPU quota
    None,
    ProvisionTimeout,  \* cfg.provision_timeout_s, in ticks, per wait loop
    ReaperBudget,      \* the Lambda timeout of one reaper invocation, in ticks
    OrphanGrace,       \* ORPHAN_GRACE_SECONDS, in ticks
    MaxAge,            \* MAX_AGE_SECONDS, in ticks
    IdleExitAfter,     \* GRACE2_AGENT_IDLE_EXIT_SECONDS, in ticks
    IdleThreshold,     \* IDLE_THRESHOLD_CHECKS
    HbStale,           \* HEARTBEAT_STALE_SECONDS, in ticks
    HealthMode,        \* REAPER_HEALTH_MODE
    InVpc,             \* can the reaper reach the tasks' private addresses?
    HeartbeatArmed,    \* GRACE2_ROUTE_HEARTBEAT_SECONDS > 0
    Faults,            \* the kinds of failure that may happen ...
    MaxFaults          \* ... and how many of them: a bound of the model

VARIABLES
    \* ECS: one entry per ARN.
    st,        \* lastStatus, with "stopping" for desiredStatus = STOPPED
    owner,     \* the session in the task's tags and environment
    age,       \* ticks since startedAt, capped at MaxAge
    work,      \* what is_busy() sees: nothing, a turn, or a turn in a solve
    leftover,  \* a Batch job whose agent is gone is still in flight
    \* DynamoDB.
    route,     \* Session -> row, or None when there is no row
    \* Broker: one entry per client socket.
    pc,        \* where the connection's coroutine (or worker thread) is
    dest,      \* the task it provisions or proxies to
    wait,      \* ticks spent in the current wait loop
    \* Reaper Lambda: the locals of handler() and of its two passes.
    rpc,       \* where the invocation is
    rows,      \* `routes`, the scan result
    todo,      \* rows pass 1 has still to visit
    rcur,      \* session of the row being acted on
    rvictim,   \* task about to be stopped
    listed,    \* `running_tasks` of pass 2 still to judge: <<arn, age>> pairs
    batch,     \* batch_busy
    rclock,    \* ticks since the invocation began
    faults,    \* failures so far
    \* History, read by no action.
    longWork,  \* tasks that have been busy since before the reaper's scan
    polls      \* consecutive idle verdicts of pass 1 about each task

ecsVars    == <<st, owner, age, work, leftover>>
brokerVars == <<pc, dest, wait>>
reaperVars == <<rpc, rows, todo, rcur, rvictim, listed, batch, rclock>>
history    == <<longWork, polls>>
vars == <<ecsVars, route, brokerVars, reaperVars, faults, history>>

-----------------------------------------------------------------------------
(* Sockets. A socket is a tab of a session: decide_route learns the session *)
(* from the connect itself.                                                 *)

Sock == Session \X Tab

SessionOf(c) == c[1]

\* Inside `with lock:` of decide_route, i.e. in resolve_or_provision.
Locked == {"read", "run", "waitip", "health", "write", "abandon"}

\* RunTask has returned an ARN and the row naming it is not written.
Provisioning(c) == pc[c] \in {"waitip", "health", "write", "abandon"}

PcValues == {"closed", "lock", "dial", "proxy"} \cup Locked

-----------------------------------------------------------------------------
(* Rows. hb abstracts hb_busy and hb_inflight_batch: what the agent was     *)
(* doing at its last heartbeat; hbAge is the age of hb_last_seen.           *)

Work == {"none", "turn", "solve"}

Row == [arn : Task \cup {None}, streak : 0..(IdleThreshold - 1),
        hb : Work \cup {"absent"}, hbAge : 0..HbStale]

HasRow(r, s) == r[s] # None

\* resolve_route: a row without task_arn is a miss (private_ip comes with it).
Hit(s) == HasRow(route, s) /\ route[s].arn # None

RouteItem(t) == [arn |-> t, streak |-> 0, hb |-> "absent", hbAge |-> HbStale]

\* update_item creates the item it does not find: a row with no task_arn.
Upserted(s) == IF HasRow(route, s) THEN route[s] ELSE RouteItem(None)

\* route_task_map: the sessions whose scanned row names t.
MappedTo(t) == {s \in Session : HasRow(rows, s) /\ rows[s].arn = t}

-----------------------------------------------------------------------------
(* Tasks.                                                                   *)

Statuses == {"gone", "pending", "running", "stopping"}

Alive(t)  == st[t] \in {"running", "stopping"}
Active(t) == st[t] \in {"pending", "running"}
Busy(t)   == work[t] # "none"

\* An ARN is issued once: one that anything still remembers is not reused.
Fresh(t) ==
    /\ st[t] = "gone"
    /\ \A c \in Sock : dest[c] # t
    /\ \A s \in Session : /\ HasRow(route, s) => route[s].arn # t
                          /\ HasRow(rows, s) => rows[s].arn # t
    /\ rvictim # t
    /\ \A x \in listed : x[1] # t

\* The container is gone: its work is lost, a Batch job it submitted is not.
Gone(t) ==
    /\ st' = [st EXCEPT ![t] = "gone"]
    /\ owner' = [owner EXCEPT ![t] = None]
    /\ age' = [age EXCEPT ![t] = 0]
    /\ work' = [work EXCEPT ![t] = "none"]
    /\ leftover' = (leftover \/ work[t] = "solve")
    /\ longWork' = longWork \ {t}

\* ecs:StopTask on t. On a task that is gone it changes nothing.
StopIssued(t) ==
    st' = [st EXCEPT ![t] = IF st[t] = "gone" THEN "gone" ELSE "stopping"]

-----------------------------------------------------------------------------
(* Failures.                                                                *)

FaultKinds ==
    {"scan", "describe", "probe", "batch", "list", "stoptask", "streak",
     "delete", "lambda",                                  \* the reaper's calls
     "runtask", "getroute", "putroute", "dial", "broker", \* the broker's
     "crash", "ttl",                                      \* tasks and rows
     "address"}               \* a private address is given to another task

Fault(kind) ==
    /\ kind \in Faults
    /\ faults < MaxFaults
    /\ faults' = faults + 1

NoFault == faults' = faults

ASSUME ModeAssumption ==
    /\ HealthMode \in {"probe", "heartbeat", "both"}
    /\ InVpc \in BOOLEAN
    /\ HeartbeatArmed \in BOOLEAN

ASSUME FaultAssumption == Faults \subseteq FaultKinds /\ MaxFaults \in Nat

ASSUME ThresholdAssumption == IdleThreshold \in Nat \ {0} /\ HbStale \in Nat

\* A provisioning takes at most two wait loops (ENI address, then health), a
\* reaper invocation at most its Lambda timeout: 2*90 s + 60 s < 600 s < 5400 s.
\* The idle exit window, 1800 s, lies in between.
ASSUME TimingAssumption ==
    /\ ProvisionTimeout \in Nat \ {0}
    /\ ReaperBudget \in Nat
    /\ OrphanGrace \in Nat
    /\ MaxAge \in Nat
    /\ 2 * ProvisionTimeout + ReaperBudget < OrphanGrace
    /\ OrphanGrace < MaxAge
    /\ IdleExitAfter \in Nat
    /\ 2 * ProvisionTimeout < IdleExitAfter /\ IdleExitAfter <= MaxAge

ASSUME NoneAssumption == None \notin Session \cup Task \cup Row
=============================================================================
