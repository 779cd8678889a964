---------------------------- MODULE SessionFleet ----------------------------
(***************************************************************************)
(* The session tier as a whole: the broker, the reaper Lambda and the      *)
(* agent tasks over the routes table, under one clock.                     *)
(***************************************************************************)
EXTENDS SessionBroker, TaskReaper, AgentTask

-----------------------------------------------------------------------------
(* Time                                                                     *)

Older(n, bound) == IF n < bound THEN n + 1 ELSE n

\* Time passes unless a bounded wait is over and its program has to move: the
\* two wait loops of provision_task (and the put that follows at once), the
\* Lambda timeout of the reaper.
Tick ==
    /\ \A c \in Sock : pc[c] \in {"waitip", "health", "write"} => ~TimedOut(c)
    /\ rpc # "idle" => rclock < ReaperBudget
    /\ age' = [t \in Task |-> IF Alive(t) THEN Older(age[t], MaxAge) ELSE 0]
    /\ wait' = [c \in Sock |->
                  IF pc[c] \in {"waitip", "health", "write"} THEN wait[c] + 1 ELSE wait[c]]
    /\ rclock' = IF rpc = "idle" THEN 0 ELSE rclock + 1
    /\ route' = [s \in Session |->
                  IF HasRow(route, s)
                  THEN [route[s] EXCEPT !.hbAge = Older(@, HbStale)] ELSE None]
    /\ NoFault
    /\ UNCHANGED <<st, owner, work, leftover, pc, dest, rpc, rows, todo, rcur,
                   rvictim, listed, batch, history>>

-----------------------------------------------------------------------------
Init ==
    /\ st = [t \in Task |-> "gone"]
    /\ owner = [t \in Task |-> None]
    /\ age = [t \in Task |-> 0]
    /\ work = [t \in Task |-> "none"]
    /\ leftover = FALSE
    /\ route = [s \in Session |-> None]
    /\ pc = [c \in Sock |-> "closed"]
    /\ dest = [c \in Sock |-> None]
    /\ wait = [c \in Sock |-> 0]
    /\ rpc = "idle"
    /\ rows = [s \in Session |-> None]
    /\ todo = {} /\ listed = {}
    /\ rcur = None /\ rvictim = None
    /\ batch = FALSE /\ rclock = 0
    /\ faults = 0
    /\ longWork = {}
    /\ polls = [t \in Task |-> 0]

Next ==
    \/ BrokerNext
    \/ ReaperNext
    \/ LambdaTimeout
    \/ AgentNext
    \/ Tick

Spec == Init /\ [][Next]_vars

\* The programs run, ECS carries out what it accepted, a turn ends (a solve
\* waits at most 1800 s) and time passes. Nobody has to open a socket, start
\* work, or fail.
FairSpec ==
    /\ Spec
    /\ SF_vars(Tick)
    /\ WF_vars(ReaperNext)
    /\ WF_vars(JobEnds)
    /\ \A c \in Sock : WF_vars(BrokerStep(c))
    /\ \A t \in Task : WF_vars(TaskStarts(t)) /\ WF_vars(StopCompletes(t))
                       /\ WF_vars(FinishTurn(t))

\* In addition the idle exit monitor fires on a task that stays abandoned.
SelfExitSpec == FairSpec /\ \A t \in Task : WF_vars(IdleExit(t))

FreshScan == ScanRoutes /\ \A s \in Session : HasRow(rows', s) => rows'[s].hbAge < HbStale

\* In addition the heartbeats come, three before a row is stale (60 s and 180 s): not
\* every scan comes upon a stale one.
HeartbeatSpec ==
    /\ FairSpec
    /\ \A t \in Task : WF_vars(Heartbeat(t))
    /\ SF_vars(FreshScan)

StartsInTime(t) == TaskStarts(t) /\ \E c \in Sock : pc[c] = "waitip" /\ dest[c] = t

\* In addition the lock is handed on, and a provisioning that is tried again and
\* again does not miss its deadline every time.
ServingSpec ==
    /\ FairSpec
    /\ \A c \in Sock : /\ SF_vars(AcquireLock(c))
                       /\ SF_vars(GotAddress(c))
                       /\ SF_vars(HealthGreen(c))
                       /\ SF_vars(Dial(c))
    /\ \A t \in Task : SF_vars(StartsInTime(t))

-----------------------------------------------------------------------------
(* Types                                                                    *)

TypeTasks ==
    /\ st \in [Task -> Statuses]
    /\ owner \in [Task -> Session \cup {None}]
    /\ age \in [Task -> 0..MaxAge]
    /\ work \in [Task -> Work]
    /\ leftover \in BOOLEAN

TypeRoutes == route \in [Session -> Row \cup {None}]

TypeBroker ==
    /\ pc \in [Sock -> PcValues]
    /\ dest \in [Sock -> Task \cup {None}]
    /\ wait \in [Sock -> 0..ProvisionTimeout]

TypeReaper ==
    /\ rpc \in {"idle", "pass1", "health", "busy", "idlepoll", "stop1", "drop",
                "pass2", "stop2", "drop2"}
    /\ rows \in [Session -> Row \cup {None}]
    /\ todo \subseteq Session
    /\ rcur \in Session \cup {None}
    /\ rvictim \in Task \cup {None}
    /\ listed \subseteq Task \X (0..MaxAge)
    /\ batch \in BOOLEAN
    /\ rclock \in 0..ReaperBudget

TypeOK ==
    /\ TypeTasks /\ TypeRoutes /\ TypeBroker /\ TypeReaper
    /\ faults \in 0..MaxFaults
    /\ longWork \subseteq Task
    /\ polls \in [Task -> 0..IdleThreshold]

-----------------------------------------------------------------------------
(* Safety                                                                   *)

AboutToStop(t) == rpc \in {"stop1", "stop2"} /\ rvictim = t

Routed(t) == \E s \in Session : HasRow(route, s) /\ route[s].arn = t

\* The reaper never goes for a task the broker is still provisioning: between
\* RunTask and the write of the route a task looks like an orphan, and only
\* the grace of pass 2 protects it (ORPHAN_GRACE_SECONDS).
ProvisionSafe ==
    \A c \in Sock : Provisioning(c) /\ pc[c] # "abandon" => ~AboutToStop(dest[c])

\* Pass 2 classifies against the scan made at the start of the invocation.
\* A task whose route was written since must not be taken for an orphan.
OrphanIsOrphan ==
    \A t \in Task :
        rpc = "stop2" /\ rvictim = t /\ MappedTo(t) = {} /\ st[t] = "running" => ~Routed(t)

\* No leak: a task that nobody has asked to stop is in the hands of the
\* provisioning thread of its session, or named by the route of its session.
NoLeak ==
    \A t \in Task :
        Active(t) =>
            \/ \E c \in Sock : Provisioning(c) /\ dest[c] = t /\ SessionOf(c) = owner[t]
            \/ HasRow(route, owner[t]) /\ route[owner[t]].arn = t

\* The tabs of a session share one agent: sockets of one session are never
\* proxied to two tasks that both stay up.
Convergence ==
    \A c, d \in Sock :
        /\ SessionOf(c) = SessionOf(d)
        /\ pc[c] = "proxy" /\ Active(dest[c])
        /\ pc[d] = "proxy" /\ Active(dest[d])
        => dest[c] = dest[d]

\* Pass 1 stops a task only on IDLE_THRESHOLD_CHECKS consecutive idle
\* verdicts about that very task: no busy one in between, none inherited from
\* an earlier task of the session.
StreakIsEarned ==
    \A t \in Task : rpc = "stop1" /\ rvictim = t => polls[t] >= IdleThreshold

\* A stop request of the reaper that takes effect.
ReaperStops(t) ==
    AboutToStop(t) /\ rpc' # rpc /\ Active(t) /\ st'[t] = "stopping"

\* Work that was in flight before the scan and still is does not lose its
\* task, as long as a route names the task. ("never kill a live-route + busy
\* task")
RoutedWorkSurvives ==
    [][\A t \in Task : ReaperStops(t) /\ Routed(t) => t \notin longWork]_vars

\* The reaper drops the route of a task only when the task is gone or going.
DroppedRouteIsDead ==
    [][\A s \in Session :
          rpc \in {"drop", "drop2"} /\ Hit(s) /\ route'[s] = None
              => ~Active(route[s].arn)]_vars

-----------------------------------------------------------------------------
(* What all this implements                                                 *)

Promise == INSTANCE SessionPromise WITH
    life  <- [t \in Task |-> IF st[t] = "gone" THEN "none" ELSE IF Active(t) THEN "up" ELSE "going"],
    of    <- owner,
    doing <- [t \in Task |-> Busy(t)],
    on    <- [c \in Sock |-> IF pc[c] = "proxy" THEN dest[c] ELSE None]

\* The broker, the reaper and the tasks together keep what the tier promises: no
\* socket is ever put on the task of another session, the tabs of a session are
\* put on one task, and only they start work there.
PromiseKept == Promise!Spec

\* Isolation: a socket is never connected to the task of another session. The code
\* has no defence against one thing: a row that outlived its task is dialled by its
\* address, which another session's task may have been given (DialAnother).
Isolation ==
    \A c \in Sock : pc[c] = "proxy" /\ st[dest[c]] # "gone" => owner[dest[c]] = SessionOf(c)

-----------------------------------------------------------------------------
(* Liveness                                                                 *)

Deserted == \A c \in Sock : pc[c] = "closed"

\* Scale to zero: once the clients have left for good, every task ends, the
\* leaked ones included.
ScaleToZero == <>[]Deserted => <>[](\A t \in Task : st[t] = "gone")

\* A task does not stay up with nothing to do, whoever is looking: an open but
\* idle tab does not pin it, and neither does a row that is never cleaned up.
IdleTaskReaped ==
    \A t \in Task : ~<>[](st[t] = "running" /\ ~Busy(t))

\* A row that names a dead task does not trap its session.
StaleRouteHeals ==
    \A s \in Session : (Hit(s) /\ ~Alive(route[s].arn)) ~> (~Hit(s) \/ Alive(route[s].arn))

\* While every client keeps reconnecting, each is served again and again: no row,
\* lock or leaked task keeps one out for good.
Served ==
    (\A c \in Sock : []<>(pc[c] # "closed")) => (\A c \in Sock : []<>(pc[c] = "proxy"))
=============================================================================
