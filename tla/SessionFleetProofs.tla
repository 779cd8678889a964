-------------------------- MODULE SessionFleetProofs --------------------------
(***************************************************************************)
(* Theorems about the session tier, for every number of sessions, tabs and *)
(* tasks and every timing that meets the assumptions of FleetState.        *)
(*                                                                         *)
(* What may fail is part of each statement, and no wider than it has to    *)
(* be. The invariants build on one another:                                *)
(*                                                                         *)
(*   types (TypeInv), the broker's tasks (ProvisionInv), isolation         *)
(*   (IsoInv): whatever fails;                                             *)
(*   orphans and work (OrphanInv, WorkInv): while scans are complete;      *)
(*   steady rows (SteadyInv): no failed GetItem, no row lost by itself;    *)
(*     the streak (StreakInv): no lost write of it either;                 *)
(*     the table and its copy (TableInv): nothing that drops the row of a  *)
(*       live task;                                                        *)
(*       convergence and the refinement (HeldInv): every row is written;   *)
(*       no leak (LeakInv): and the broker stays up.                       *)
(***************************************************************************)
EXTENDS SessionFleet, TLAPS

-----------------------------------------------------------------------------
(* The reaper's control state: which of its locals are set where.           *)

RowPhase == {"health", "busy", "idlepoll", "stop1", "drop"}

ReaperControl ==
    /\ \A s \in todo : HasRow(rows, s)
    /\ rpc \in RowPhase => rcur \in todo
    /\ rpc \in {"health", "busy", "idlepoll", "stop1"} => rows[rcur].arn \in Task
    /\ rpc = "idlepoll" => ~StreakReached(rcur)
    /\ rpc = "stop1" => rvictim = rows[rcur].arn
    /\ rpc \in {"stop2", "drop2"} => rvictim \in Task
    /\ rpc = "drop2" => rcur \in MappedTo(rvictim)
    /\ IF rpc \in {"pass2", "stop2", "drop2"} THEN todo = {} ELSE listed = {}

TypeInv == TypeOK /\ ReaperControl
-----------------------------------------------------------------------------
(* Types                                                                    *)

LEMMA ControlFrame ==
    ASSUME ReaperControl, UNCHANGED reaperVars
    PROVE  ReaperControl'
BY DEF ReaperControl, reaperVars, HasRow, StreakReached, MappedTo, RowPhase

LEMMA RouteItemIsRow == \A t \in Task \cup {None} : RouteItem(t) \in Row
BY ThresholdAssumption DEF RouteItem, Row, Work

LEMMA UpsertedIsRow ==
    ASSUME TypeRoutes, NEW s \in Session
    PROVE  Upserted(s) \in Row
BY RouteItemIsRow, NoneAssumption DEF TypeRoutes, Upserted, HasRow

LEMMA GoneType ==
    ASSUME TypeOK, NEW t \in Task, Gone(t)
    PROVE  TypeTasks' /\ (longWork \subseteq Task)'
BY TimingAssumption DEF TypeOK, TypeTasks, Gone, Statuses, Work

LEMMA StopType ==
    ASSUME TypeTasks, NEW t \in Task \cup {None}, StopIssued(t)
    PROVE  st' \in [Task -> Statuses]
BY DEF TypeTasks, StopIssued, Statuses

LEMMA BudgetType ==
    ASSUME faults \in 0..MaxFaults, NEW k, NoFault \/ Fault(k)
    PROVE  faults' \in 0..MaxFaults
BY FaultAssumption DEF NoFault, Fault

LEMMA InitType == Init => TypeInv
<1> SUFFICES ASSUME Init PROVE TypeInv
  OBVIOUS
<1> USE DEF Init
<1>0. 0 \in 0..MaxAge /\ 0 \in 0..ReaperBudget
  BY TimingAssumption
<1>1. TypeTasks
  BY <1>0 DEF TypeTasks, Statuses, Work
<1>2. TypeRoutes /\ TypeBroker
  BY TimingAssumption DEF TypeRoutes, TypeBroker, PcValues
<1>3. TypeReaper
  BY <1>0 DEF TypeReaper
<1>4. faults \in 0..MaxFaults /\ longWork \subseteq Task /\ polls \in [Task -> 0..IdleThreshold]
  BY FaultAssumption, ThresholdAssumption
<1>5. ReaperControl
  BY DEF ReaperControl, RowPhase
<1> QED
  BY <1>1, <1>2, <1>3, <1>4, <1>5 DEF TypeInv, TypeOK

LEMMA BrokerType ==
    ASSUME TypeInv, BrokerNext
    PROVE  TypeInv'
<1> USE TimingAssumption, FaultAssumption, ThresholdAssumption
    DEF TypeInv, TypeOK, TypeTasks, TypeRoutes, TypeBroker, TypeReaper, PcValues, Locked,
        Goto, Close, StartWait, NoFault, Fault, ecsVars, reaperVars, history, notBroker,
        SessionOf
<1>1. ASSUME NEW c \in Sock, Connect(c) \/ AcquireLock(c) PROVE TypeInv'
  BY <1>1, ControlFrame DEF Connect, AcquireLock
<1>2. ASSUME NEW c \in Sock, ResolveRoute(c) PROVE TypeInv'
  <2>1. Hit(SessionOf(c)) => route[SessionOf(c)].arn \in Task
    BY NoneAssumption DEF Hit, HasRow, Row, Sock
  <2> QED
    BY <1>2, <2>1, ControlFrame DEF ResolveRoute
<1>3. ASSUME NEW c \in Sock, RunTask(c) PROVE TypeInv'
  BY <1>3, ControlFrame DEF RunTask, Statuses, Sock
<1>4. ASSUME NEW c \in Sock,
             \/ RunTaskFails(c) \/ DialFails(c) \/ DialAnother(c)
             \/ ClientLeaves(c) \/ UpstreamCloses(c)
      PROVE TypeInv'
  BY <1>4, ControlFrame DEF RunTaskFails, DialFails, DialAnother, ClientLeaves, UpstreamCloses
<1>5. ASSUME NEW c \in Sock,
             \/ GotAddress(c) \/ NoAddress(c) \/ HealthGreen(c) \/ NeverGreen(c) \/ Dial(c)
      PROVE TypeInv'
  BY <1>5, ControlFrame DEF GotAddress, NoAddress, HealthGreen, NeverGreen, Dial
<1>6. ASSUME NEW c \in Sock, WriteRoute(c) PROVE TypeInv'
  <2>1. RouteItem(dest[c]) \in Row
    BY RouteItemIsRow
  <2> QED
    BY <1>6, <2>1, ControlFrame DEF WriteRoute
<1>7. ASSUME NEW c \in Sock, Abandon(c) PROVE TypeInv'
  <2>1. st' \in [Task -> Statuses]
    BY <1>7, StopType DEF Abandon
  <2> QED
    BY <1>7, <2>1, ControlFrame DEF Abandon
<1>8. ASSUME BrokerRestarts PROVE TypeInv'
  BY <1>8, ControlFrame DEF BrokerRestarts
<1> QED
  BY <1>1, <1>2, <1>3, <1>4, <1>5, <1>6, <1>7, <1>8 DEF BrokerNext, BrokerStep

LEMMA AgentType ==
    ASSUME TypeInv, AgentNext
    PROVE  TypeInv'
<1> USE TimingAssumption, FaultAssumption, ThresholdAssumption
    DEF TypeInv, TypeOK, TypeTasks, TypeRoutes, TypeBroker, TypeReaper, NoFault, Fault,
        ecsVars, reaperVars, brokerVars, history, notAgent
<1>1. ASSUME NEW t \in Task, TaskStarts(t) PROVE TypeInv'
  BY <1>1, ControlFrame DEF TaskStarts, Statuses
<1>2. ASSUME NEW t \in Task, StopCompletes(t) \/ TaskCrashes(t) \/ IdleExit(t)
      PROVE TypeInv'
  <2>1. TypeTasks' /\ (longWork \subseteq Task)'
    BY <1>2, GoneType DEF StopCompletes, TaskCrashes, IdleExit
  <2> QED
    BY <1>2, <2>1, ControlFrame DEF StopCompletes, TaskCrashes, IdleExit
<1>3. ASSUME NEW t \in Task, StartTurn(t) \/ StartSolve(t) \/ FinishTurn(t) PROVE TypeInv'
  BY <1>3, ControlFrame DEF StartTurn, StartSolve, FinishTurn, Work
<1>4. ASSUME NEW t \in Task, Heartbeat(t) PROVE TypeInv'
  <2>1. owner[t] \in Session => [Upserted(owner[t]) EXCEPT !.hb = work[t], !.hbAge = 0] \in Row
    <3> SUFFICES ASSUME owner[t] \in Session
                 PROVE  [Upserted(owner[t]) EXCEPT !.hb = work[t], !.hbAge = 0] \in Row
      OBVIOUS
    <3>1. Upserted(owner[t]) \in Row
      BY UpsertedIsRow
    <3>2. work[t] \in Work /\ 0 \in 0..HbStale
      OBVIOUS
    <3> QED
      BY <3>1, <3>2 DEF Row
  <2>2. TypeRoutes'
    BY <1>4, <2>1 DEF Heartbeat
  <2>3. UNCHANGED <<ecsVars, brokerVars, reaperVars, faults, history>>
    BY <1>4 DEF Heartbeat
  <2> QED
    BY <2>2, <2>3, ControlFrame
<1>5. ASSUME NEW s \in Session, RowLost(s) PROVE TypeInv'
  BY <1>5, ControlFrame DEF RowLost
<1>6. ASSUME JobEnds PROVE TypeInv'
  BY <1>6, ControlFrame DEF JobEnds
<1> QED
  BY <1>1, <1>2, <1>3, <1>4, <1>5, <1>6 DEF AgentNext, AgentStep

LEMMA TickType ==
    ASSUME TypeInv, Tick
    PROVE  TypeInv'
<1> USE DEF TypeInv, TypeOK, Tick, NoFault, history
<1>1. TypeTasks'
  BY TimingAssumption DEF TypeTasks, Older
<1>2. TypeRoutes'
  BY ThresholdAssumption, NoneAssumption DEF TypeRoutes, Row, Older, HasRow
<1>3. TypeBroker'
  BY TimingAssumption DEF TypeBroker, TimedOut
<1>4. TypeReaper'
  BY TimingAssumption DEF TypeReaper
<1>5. ReaperControl'
  BY DEF ReaperControl, HasRow, StreakReached, MappedTo
<1> QED
  BY <1>1, <1>2, <1>3, <1>4, <1>5

LEMMA ReaperType ==
    ASSUME TypeInv, ReaperNext \/ LambdaTimeout
    PROVE  TypeInv'
<1> USE FaultAssumption, ThresholdAssumption, NoneAssumption
    DEF TypeInv, TypeOK, TypeTasks, TypeRoutes, TypeBroker, TypeReaper, ReaperControl,
        RowPhase, HasRow, NoFault, Fault, RGoto, brokerVars, history, notReaper
<1>1. CASE ScanRoutes
  <2>1. rows' \in [Session -> Row \cup {None}]
    BY <1>1 DEF ScanRoutes
  <2>2. batch' \in BOOLEAN
    BY <1>1 DEF ScanRoutes, BatchVerdicts
  <2> QED
    BY <1>1, <2>1, <2>2 DEF ScanRoutes
<1>2. ASSUME NEW s \in Session, DescribeTask(s) PROVE TypeInv'
  <2>1. rows[s].arn \in Task \cup {None}
    BY <1>2 DEF DescribeTask, Row
  <2> QED
    BY <1>2, <2>1 DEF DescribeTask
<1>3. CASE JudgeRow
  <2>1. polls' \in [Task -> 0..IdleThreshold]
    BY <1>3 DEF JudgeRow
  <2>2. /\ rpc' \in {"busy", "stop1", "idlepoll"}
        /\ rvictim' \in Task \cup {None}
        /\ rpc' = "stop1" => rvictim' = rows[rcur].arn
        /\ rpc' = "idlepoll" => ~StreakReached(rcur)
    BY <1>3 DEF JudgeRow
  <2> QED
    BY <1>3, <2>1, <2>2 DEF JudgeRow, StreakReached
<1>4. CASE WriteStreak
  <2>1. NewStreak \in 0..(IdleThreshold - 1)
    BY <1>4 DEF WriteStreak, NewStreak, StreakReached, Row
  <2>2. [Upserted(rcur) EXCEPT !.streak = NewStreak] \in Row
    BY <1>4, <2>1, UpsertedIsRow, SMTT(60) DEF WriteStreak, Row
  <2> QED
    BY <1>4, <2>2 DEF WriteStreak, NextRow
<1>5. CASE StopIdleTask
  <2>1. st' \in [Task -> Statuses]
    BY <1>5, StopType DEF StopIdleTask
  <2> QED
    BY <1>5, <2>1 DEF StopIdleTask
<1>6. CASE DropRoute
  BY <1>6 DEF DropRoute, NextRow, Deleted
<1>7. CASE ListTasks
  BY <1>7 DEF ListTasks
<1>8. CASE JudgeTask
  BY <1>8 DEF JudgeTask
<1>9. CASE StopJudgedTask
  <2>1. st' \in [Task -> Statuses]
    BY <1>9, StopType DEF StopJudgedTask
  <2> QED
    BY <1>9, <2>1 DEF StopJudgedTask, MappedTo
<1>10. CASE DropJudgedRoute
  BY <1>10 DEF DropJudgedRoute, Deleted
<1>11. CASE Finish \/ LambdaTimeout
  <2>1. Reset /\ faults' \in 0..MaxFaults
    BY <1>11, BudgetType DEF Finish, LambdaTimeout
  <2>2. 0 \in 0..ReaperBudget
    BY TimingAssumption
  <2>3. TypeReaper'
    BY <2>1, <2>2 DEF Reset
  <2>4. ReaperControl'
    BY <2>1 DEF Reset
  <2> QED
    BY <2>1, <2>3, <2>4 DEF Reset
<1> QED
  BY <1>1, <1>2, <1>3, <1>4, <1>5, <1>6, <1>7, <1>8, <1>9, <1>10, <1>11 DEF ReaperNext

LEMMA StutterType ==
    ASSUME TypeInv, UNCHANGED vars
    PROVE  TypeInv'
BY ControlFrame DEF TypeInv, TypeOK, TypeTasks, TypeRoutes, TypeBroker, TypeReaper, vars,
    ecsVars, brokerVars, reaperVars, history

LEMMA TypeInvariance == Spec => []TypeInv
<1>1. TypeInv /\ [Next]_vars => TypeInv'
  BY BrokerType, AgentType, ReaperType, TickType, StutterType DEF Next
<1> QED
  BY <1>1, InitType, PTL DEF Spec

\* Every variable keeps its type, whatever fails: in particular the streak the
\* reaper writes back stays below the threshold (_reap_one), and no wait loop of
\* provision_task runs past its deadline.
THEOREM TypeCorrect == Spec => []TypeOK
BY TypeInvariance, PTL DEF TypeInv

-----------------------------------------------------------------------------
(* A task in the broker's hands: it is nobody else's, no row names it, and  *)
(* it is too young for pass 2, now and when pass 2 listed it.               *)

InHand(c) == pc[c] \in {"waitip", "health", "write"}

OwnTask ==
    /\ \A c \in Sock : Provisioning(c) => dest[c] \in Task
    /\ \A c, d \in Sock :
          Provisioning(c) /\ Provisioning(d) /\ dest[c] = dest[d] => c = d

UnroutedTask ==
    \A c \in Sock, s \in Session :
        Provisioning(c) =>
            /\ HasRow(route, s) => route[s].arn # dest[c]
            /\ HasRow(rows, s) => rows[s].arn # dest[c]

YoungTask ==
    /\ \A t \in Task : ~Alive(t) => age[t] = 0
    /\ \A c \in Sock : pc[c] = "waitip" => age[dest[c]] <= wait[c]
    /\ \A c \in Sock :
          pc[c] \in {"health", "write"} => age[dest[c]] <= ProvisionTimeout + wait[c]

ListedYoung ==
    \A c \in Sock, x \in listed : InHand(c) /\ x[1] = dest[c] => x[2] < OrphanGrace

ProvisionInv ==
    TypeInv /\ OwnTask /\ UnroutedTask /\ YoungTask /\ ListedYoung /\ ProvisionSafe

LEMMA ProvisionInit == Init => ProvisionInv
<1> SUFFICES ASSUME Init PROVE ProvisionInv
  OBVIOUS
<1> QED
  BY InitType DEF Init, ProvisionInv, OwnTask, UnroutedTask, YoungTask, ListedYoung,
    ProvisionSafe, Provisioning, InHand, HasRow, AboutToStop, Alive

\* A step of a socket that starts no provisioning and moves none along.
LEMMA ProvisionFrame ==
    ASSUME ProvisionInv, TypeInv', UNCHANGED <<st, age, route, reaperVars>>,
           \A c \in Sock : \/ pc'[c] = pc[c] /\ dest'[c] = dest[c] /\ wait'[c] = wait[c]
                          \/ pc'[c] \notin {"waitip", "health", "write", "abandon"}
    PROVE  ProvisionInv'
<1> USE DEF ProvisionInv, Provisioning, InHand, reaperVars
<1>1. OwnTask'
  BY DEF OwnTask
<1>2. UnroutedTask'
  BY DEF UnroutedTask, HasRow
<1>3. YoungTask'
  BY DEF YoungTask, Alive
<1>4. ListedYoung'
  BY DEF ListedYoung
<1>5. ProvisionSafe'
  BY DEF ProvisionSafe, AboutToStop
<1> QED
  BY <1>1, <1>2, <1>3, <1>4, <1>5

LEMMA ProvisionBroker ==
    ASSUME ProvisionInv, BrokerNext
    PROVE  ProvisionInv'
<1>0. TypeInv' /\ TypeBroker
  BY BrokerType DEF ProvisionInv, TypeInv, TypeOK
<1>1. ASSUME NEW c \in Sock,
             Connect(c) \/ AcquireLock(c) \/ ResolveRoute(c) \/ Dial(c)
      PROVE ProvisionInv'
  BY <1>0, <1>1, ProvisionFrame
  DEF Connect, AcquireLock, ResolveRoute, Dial, TypeBroker, Goto, ecsVars,
    notBroker
<1>2. ASSUME NEW c \in Sock,
             \/ RunTaskFails(c) \/ DialFails(c) \/ DialAnother(c)
             \/ ClientLeaves(c) \/ UpstreamCloses(c)
      PROVE ProvisionInv'
  BY <1>0, <1>2, ProvisionFrame
  DEF RunTaskFails, DialFails, DialAnother, ClientLeaves, UpstreamCloses, TypeBroker, Goto,
  Close,
    ecsVars, notBroker
<1>3. ASSUME BrokerRestarts PROVE ProvisionInv'
  BY <1>0, <1>3, ProvisionFrame
  DEF BrokerRestarts, ecsVars, notBroker
<1> USE <1>0, TimingAssumption
    DEF ProvisionInv, TypeInv, TypeOK, TypeTasks, TypeRoutes, TypeBroker, TypeReaper,
        OwnTask, UnroutedTask, YoungTask, ListedYoung, ProvisionSafe, Provisioning, InHand,
        HasRow, AboutToStop, Alive, Locked, Goto, Close, StartWait, NoFault, Fault, ecsVars,
        reaperVars, history, notBroker, SessionOf
<1>4. ASSUME NEW c \in Sock, RunTask(c) PROVE ProvisionInv'
  BY <1>4 DEF RunTask, Fresh
<1>5. ASSUME NEW c \in Sock, GotAddress(c) \/ HealthGreen(c) PROVE ProvisionInv'
  BY <1>5 DEF GotAddress, HealthGreen
<1>6. ASSUME NEW c \in Sock, NoAddress(c) \/ NeverGreen(c) PROVE ProvisionInv'
  BY <1>6 DEF NoAddress, NeverGreen
<1>7. ASSUME NEW c \in Sock, WriteRoute(c) PROVE ProvisionInv'
  BY <1>7 DEF WriteRoute, RouteItem
<1>8. ASSUME NEW c \in Sock, Abandon(c) PROVE ProvisionInv'
  BY <1>8 DEF Abandon, StopIssued
<1> QED
  BY <1>1, <1>2, <1>3, <1>4, <1>5, <1>6, <1>7, <1>8 DEF BrokerNext, BrokerStep

LEMMA ProvisionAgent ==
    ASSUME ProvisionInv, AgentNext
    PROVE  ProvisionInv'
<1>0. TypeInv'
  BY AgentType DEF ProvisionInv
<1> USE <1>0, TimingAssumption
    DEF ProvisionInv, TypeInv, TypeOK, TypeTasks, TypeRoutes, TypeBroker, TypeReaper,
        OwnTask, UnroutedTask, YoungTask, ListedYoung, ProvisionSafe, Provisioning, InHand,
        HasRow, AboutToStop, Alive, NoFault, Fault, ecsVars, reaperVars, brokerVars,
        history, notAgent
<1>1. ASSUME NEW t \in Task, TaskStarts(t) PROVE ProvisionInv'
  BY <1>1 DEF TaskStarts
<1>2. ASSUME NEW t \in Task, StopCompletes(t) \/ TaskCrashes(t) \/ IdleExit(t)
      PROVE ProvisionInv'
  BY <1>2, SMTT(60) DEF StopCompletes, TaskCrashes, IdleExit, Gone, Active
<1>3. ASSUME NEW t \in Task, StartTurn(t) \/ StartSolve(t) \/ FinishTurn(t)
      PROVE ProvisionInv'
  BY <1>3 DEF StartTurn, StartSolve, FinishTurn
<1>4. ASSUME NEW t \in Task, Heartbeat(t) PROVE ProvisionInv'
  <2>1. \A s \in Session : HasRow(route', s) =>
          route'[s].arn = None \/ (HasRow(route, s) /\ route'[s].arn = route[s].arn)
    <3> SUFFICES ASSUME NEW s \in Session, HasRow(route', s), s = owner[t]
                 PROVE  \/ route'[s].arn = None
                        \/ HasRow(route, s) /\ route'[s].arn = route[s].arn
      BY <1>4 DEF Heartbeat
    <3>1. route'[s] = [Upserted(s) EXCEPT !.hb = work[t], !.hbAge = 0]
      BY <1>4 DEF Heartbeat
    <3>2. Upserted(s) \in Row /\ Upserted(s).arn = IF HasRow(route, s) THEN route[s].arn ELSE None
      BY UpsertedIsRow DEF Upserted, RouteItem
    <3> QED
      BY <3>1, <3>2 DEF Row
  <2> QED
    BY <1>4, <2>1, NoneAssumption DEF Heartbeat
<1>5. ASSUME NEW s \in Session, RowLost(s) PROVE ProvisionInv'
  BY <1>5 DEF RowLost
<1>6. ASSUME JobEnds PROVE ProvisionInv'
  BY <1>6 DEF JobEnds
<1> QED
  BY <1>1, <1>2, <1>3, <1>4, <1>5, <1>6 DEF AgentNext, AgentStep

LEMMA ProvisionTick ==
    ASSUME ProvisionInv, Tick
    PROVE  ProvisionInv'
<1>0. TypeInv'
  BY TickType DEF ProvisionInv
<1> USE <1>0, TimingAssumption
    DEF ProvisionInv, TypeInv, TypeOK, TypeTasks, TypeRoutes, TypeBroker, TypeReaper,
        Provisioning, InHand, HasRow, Alive, Tick
<1>1. OwnTask' /\ ProvisionSafe'
  BY DEF OwnTask, ProvisionSafe, AboutToStop
<1>2. UnroutedTask'
  BY DEF UnroutedTask
<1>3. YoungTask'
  BY DEF YoungTask, OwnTask, Older, TimedOut
<1>4. ListedYoung'
  BY DEF ListedYoung
<1> QED
  BY <1>1, <1>2, <1>3, <1>4

LEMMA ProvisionReaper ==
    ASSUME ProvisionInv, ReaperNext \/ LambdaTimeout
    PROVE  ProvisionInv'
<1>0. TypeInv'
  BY ReaperType DEF ProvisionInv
<1> USE <1>0, TimingAssumption, NoneAssumption
    DEF ProvisionInv, TypeInv, TypeOK, TypeTasks, TypeRoutes, TypeBroker, TypeReaper,
        OwnTask, UnroutedTask, YoungTask, ListedYoung, ProvisionSafe, Provisioning, InHand,
        HasRow, AboutToStop, Alive, NoFault, Fault, RGoto, brokerVars, history, notReaper
<1>1. CASE ScanRoutes
  BY <1>1 DEF ScanRoutes
<1>2. ASSUME NEW s \in Session, DescribeTask(s) PROVE ProvisionInv'
  BY <1>2 DEF DescribeTask
<1>3. CASE JudgeRow
  BY <1>3 DEF JudgeRow, ReaperControl, RowPhase
<1>4. CASE WriteStreak
  <2>1. \A s \in Session : HasRow(route', s) =>
          route'[s].arn = None \/ (HasRow(route, s) /\ route'[s].arn = route[s].arn)
    <3> SUFFICES ASSUME NEW s \in Session, HasRow(route', s), s = rcur, route' # route
                 PROVE  \/ route'[s].arn = None
                        \/ HasRow(route, s) /\ route'[s].arn = route[s].arn
      BY <1>4 DEF WriteStreak
    <3>1. route'[s] = [Upserted(s) EXCEPT !.streak = NewStreak]
      BY <1>4 DEF WriteStreak
    <3>2. Upserted(s) \in Row /\ Upserted(s).arn = IF HasRow(route, s) THEN route[s].arn ELSE None
      BY UpsertedIsRow DEF Upserted, RouteItem
    <3> QED
      BY <3>1, <3>2 DEF Row
  <2> QED
    BY <1>4, <2>1 DEF WriteStreak, NextRow
<1>5. CASE StopIdleTask
  BY <1>5 DEF StopIdleTask, StopIssued
<1>6. CASE DropRoute
  BY <1>6 DEF DropRoute, NextRow, Deleted
<1>7. CASE ListTasks
  BY <1>7 DEF ListTasks
<1>8. CASE JudgeTask
  BY <1>8 DEF JudgeTask, ShouldStop
<1>9. CASE StopJudgedTask
  BY <1>9 DEF StopJudgedTask, StopIssued
<1>10. CASE DropJudgedRoute
  BY <1>10 DEF DropJudgedRoute, Deleted
<1>11. CASE Finish \/ LambdaTimeout
  BY <1>11 DEF Finish, LambdaTimeout, Reset
<1> QED
  BY <1>1, <1>2, <1>3, <1>4, <1>5, <1>6, <1>7, <1>8, <1>9, <1>10, <1>11 DEF ReaperNext

LEMMA ProvisionStutter ==
    ASSUME ProvisionInv, UNCHANGED vars
    PROVE  ProvisionInv'
BY StutterType DEF ProvisionInv, OwnTask, UnroutedTask, YoungTask, ListedYoung, ProvisionSafe,
    Provisioning, InHand, HasRow, AboutToStop, Alive, vars, ecsVars, brokerVars, reaperVars

LEMMA ProvisionInvariance == Spec => []ProvisionInv
<1>1. ProvisionInv /\ [Next]_vars => ProvisionInv'
  BY ProvisionBroker, ProvisionAgent, ProvisionReaper, ProvisionTick, ProvisionStutter DEF Next
<1> QED
  BY <1>1, ProvisionInit, PTL DEF Spec

\* The grace of pass 2 is long enough: whatever fails and however the reaper
\* interleaves with provision_task, it never goes for a task that the broker is
\* still starting. The argument is the two deadlines against ORPHAN_GRACE_SECONDS.
THEOREM ProvisionIsSafe == Spec => []ProvisionSafe
BY ProvisionInvariance, PTL DEF ProvisionInv

-----------------------------------------------------------------------------
(* Names in the table. They come by _write_route alone.                     *)

\* No row comes or goes, and each names the task it named.
RowsKept ==
    \A s \in Session :
        /\ HasRow(route', s) <=> HasRow(route, s)
        /\ HasRow(route, s) => route'[s].arn = route[s].arn

LEMMA RowsKeptByTick ==
    ASSUME TypeRoutes, Tick
    PROVE  RowsKept
<1> SUFFICES ASSUME NEW s \in Session
             PROVE  /\ HasRow(route', s) <=> HasRow(route, s)
                    /\ HasRow(route, s) => route'[s].arn = route[s].arn
  BY DEF RowsKept
<1>1. HasRow(route, s) => route[s] \in Row /\ route'[s] \in Row
  <2> SUFFICES ASSUME HasRow(route, s) PROVE route[s] \in Row /\ route'[s] \in Row
    OBVIOUS
  <2>1. route[s] \in Row
    BY DEF HasRow, TypeRoutes
  <2>2. route'[s] = [route[s] EXCEPT !.hbAge = Older(route[s].hbAge, HbStale)]
    BY DEF Tick
  <2>3. Older(route[s].hbAge, HbStale) \in 0..HbStale
    BY <2>1, ThresholdAssumption DEF Older, Row
  <2> QED
    BY <2>1, <2>2, <2>3 DEF Row
<1> QED
  BY <1>1, NoneAssumption DEF Tick, HasRow, Row

\* No row comes to name a task it did not name.
NoNewName ==
    \A s \in Session : Hit(s)' => Hit(s) /\ route'[s].arn = route[s].arn

\* In addition no name is lost. A row without a name may come or go.
SameNames ==
    \A s \in Session : /\ Hit(s)' <=> Hit(s)
                       /\ Hit(s) => route'[s].arn = route[s].arn

LEMMA SameIsNoNew == SameNames => NoNewName
BY DEF SameNames, NoNewName

\* update_item of the streak or the heartbeat: the name stays, or is missing.
LEMMA UpsertKeepsName ==
    ASSUME TypeRoutes, NEW s \in Session, NEW r,
           r \in Row, r.arn = Upserted(s).arn, route' = [route EXCEPT ![s] = r]
    PROVE  SameNames
BY NoneAssumption DEF TypeRoutes, Upserted, RouteItem, SameNames, Hit, HasRow, Row

LEMMA AgentNames ==
    ASSUME TypeInv, AgentNext
    PROVE  NoNewName /\ ("ttl" \notin Faults => SameNames)
<1>0. TypeTasks /\ TypeRoutes
  BY DEF TypeInv, TypeOK
<1> USE DEF ecsVars
<1>1. ASSUME NEW t \in Task, Heartbeat(t) PROVE SameNames
  <2>1. CASE owner[t] \in Session
    <3> DEFINE r == [Upserted(owner[t]) EXCEPT !.hb = work[t], !.hbAge = 0]
    <3>1. Upserted(owner[t]) \in Row /\ work[t] \in Work /\ 0 \in 0..HbStale
      BY <1>0, <2>1, UpsertedIsRow, ThresholdAssumption DEF TypeTasks
    <3>2. r \in Row /\ r.arn = Upserted(owner[t]).arn
      BY <3>1 DEF Row
    <3> QED
      BY <1>0, <1>1, <2>1, <3>2, UpsertKeepsName DEF Heartbeat
  <2>2. CASE owner[t] \notin Session
    BY <1>0, <1>1, <2>2 DEF Heartbeat, TypeRoutes, SameNames, Hit, HasRow
  <2> QED
    BY <2>1, <2>2
<1>2. ASSUME NEW s \in Session, RowLost(s) PROVE NoNewName /\ "ttl" \in Faults
  BY <1>0, <1>2 DEF RowLost, Fault, TypeRoutes, NoNewName, Hit, HasRow
<1>3. CASE UNCHANGED route
  BY <1>3, SameIsNoNew DEF SameNames, Hit, HasRow
<1> QED
  BY <1>1, <1>2, <1>3, SameIsNoNew DEF AgentNext, AgentStep, TaskStarts, StopCompletes,
    TaskCrashes, StartTurn, StartSolve, FinishTurn, IdleExit, JobEnds

LEMMA ReaperNames ==
    ASSUME TypeInv, ReaperNext \/ LambdaTimeout
    PROVE  NoNewName /\ (SameNames \/ DropRoute \/ DropJudgedRoute)
<1>0. TypeInv /\ TypeRoutes
  BY DEF TypeInv, TypeOK
<1>1. CASE WriteStreak
  <2>1. CASE UNCHANGED route
    BY <2>1, SameIsNoNew DEF SameNames, Hit, HasRow
  <2>2. CASE route' = [route EXCEPT ![rcur] = [Upserted(rcur) EXCEPT !.streak = NewStreak]]
    <3>1. rcur \in Session
      BY <1>0, <1>1 DEF WriteStreak, TypeInv, TypeOK, TypeReaper, ReaperControl, RowPhase
    <3>2. Upserted(rcur) \in Row
      BY <1>0, <3>1, UpsertedIsRow
    <3>3. rows[rcur] \in Row /\ (rpc = "idlepoll" => ~StreakReached(rcur))
      BY <1>0, <1>1, <3>1 DEF WriteStreak, TypeInv, TypeOK, TypeReaper, ReaperControl,
        RowPhase, HasRow
    <3>4. NewStreak \in 0..(IdleThreshold - 1)
      BY <1>1, <3>3, ThresholdAssumption DEF WriteStreak, NewStreak, StreakReached, Row
    <3> DEFINE r == [Upserted(rcur) EXCEPT !.streak = NewStreak]
    <3>5. r \in Row /\ r.arn = Upserted(rcur).arn
      BY <3>2, <3>4 DEF Row
    <3> QED
      BY <1>0, <2>2, <3>1, <3>5, UpsertKeepsName, SameIsNoNew
  <2> QED
    BY <1>1, <2>1, <2>2 DEF WriteStreak
<1>2. CASE DropRoute \/ DropJudgedRoute
  BY <1>0, <1>2 DEF DropRoute, DropJudgedRoute, Deleted, TypeRoutes, NoNewName, Hit, HasRow
<1>3. CASE ~WriteStreak /\ ~DropRoute /\ ~DropJudgedRoute
  BY <1>3, SameIsNoNew DEF SameNames, Hit, HasRow, ReaperNext, ScanRoutes, DescribeTask,
    JudgeRow, StopIdleTask, ListTasks, JudgeTask, StopJudgedTask, Finish, LambdaTimeout, Reset
<1> QED
  BY <1>1, <1>2, <1>3

LEMMA TickNames ==
    ASSUME TypeInv, Tick \/ UNCHANGED vars
    PROVE  SameNames /\ NoNewName
BY RowsKeptByTick, SameIsNoNew DEF TypeInv, TypeOK, RowsKept, SameNames, Hit, HasRow, vars

-----------------------------------------------------------------------------
(* Steady rows: what the reaper is about to visit still is what it scanned. *)

\* A read that fails makes the broker provision over a row that is there, and a row
\* that is lost by itself may be written anew while the reaper holds a copy of it.
\* Nothing else disturbs the rows, the heartbeat neither.
SteadyFaults == Faults \cap {"getroute", "ttl"} = {}

OneLocked ==
    \A c, d \in Sock :
        SessionOf(c) = SessionOf(d) /\ pc[c] \in Locked /\ pc[d] \in Locked => c = d

\* A session whose task is being started has no row that names one.
NoNameYet ==
    \A c \in Sock : pc[c] = "run" \/ Provisioning(c) => ~Hit(SessionOf(c))

\* The scanned row of s is still the row of s.
StillThere(s) == HasRow(route, s) /\ route[s].arn = rows[s].arn

SteadyTodo == \A s \in todo : rows[s].arn # None => StillThere(s)

SteadyInv == ProvisionInv /\ OneLocked /\ NoNameYet /\ SteadyTodo

LEMMA SteadyInit == Init => SteadyInv
<1> SUFFICES ASSUME Init PROVE SteadyInv
  OBVIOUS
<1> QED
  BY ProvisionInit DEF Init, SteadyInv, OneLocked, NoNameYet, SteadyTodo, Provisioning, Locked

\* A socket moves from one place of its coroutine to another.
LEMMA SteadySocket ==
    ASSUME SteadyInv, ProvisionInv', NEW c \in Sock, NEW where,
           UNCHANGED <<route, rows, todo>>,
           pc' = [pc EXCEPT ![c] = where],
           where \in Locked => pc[c] \in Locked \/ LockFree(SessionOf(c)),
           where \in (Locked \ {"read"}) => ~Hit(SessionOf(c))
    PROVE  SteadyInv'
<1>0. OneLocked /\ NoNameYet /\ SteadyTodo /\ DOMAIN pc = Sock
  BY DEF SteadyInv, ProvisionInv, TypeInv, TypeOK, TypeBroker
<1>1. pc'[c] = where /\ \A d \in Sock : d # c => pc'[d] = pc[d]
  BY <1>0
<1>2. OneLocked'
  <2> SUFFICES ASSUME NEW d \in Sock, NEW e \in Sock, SessionOf(d) = SessionOf(e),
                      pc'[d] \in Locked, pc'[e] \in Locked
               PROVE  d = e
    BY DEF OneLocked
  <2>1. CASE d # c /\ e # c
    BY <1>0, <1>1, <2>1 DEF OneLocked
  <2>2. CASE d = c \/ e = c
    BY <1>0, <1>1, <2>2 DEF OneLocked, LockFree
  <2> QED
    BY <2>1, <2>2
<1>3. NoNameYet'
  BY <1>0, <1>1 DEF NoNameYet, Provisioning, Locked, Hit, HasRow
<1>4. SteadyTodo'
  BY <1>0 DEF SteadyTodo, StillThere, HasRow
<1> QED
  BY <1>2, <1>3, <1>4 DEF SteadyInv

LEMMA SteadyBroker ==
    ASSUME SteadyFaults, SteadyInv, BrokerNext
    PROVE  SteadyInv'
<1>0. ProvisionInv' /\ TypeBroker /\ OneLocked /\ NoNameYet /\ SteadyTodo
      /\ route \in [Session -> Row \cup {None}] /\ todo \subseteq Session
  BY ProvisionBroker
  DEF SteadyInv, ProvisionInv, TypeInv, TypeOK, TypeRoutes, TypeReaper
<1> USE DEF Goto, Close, StartWait, notBroker, reaperVars, Locked
<1>1. ASSUME NEW c \in Sock,
             \/ Connect(c) \/ RunTaskFails(c) \/ Abandon(c)
             \/ Dial(c) \/ DialFails(c) \/ DialAnother(c) \/ ClientLeaves(c) \/ UpstreamCloses(c)
      PROVE  SteadyInv'
  <2>1. \E where \in {"lock", "proxy", "closed"} : pc' = [pc EXCEPT ![c] = where]
    BY <1>1 DEF Connect, RunTaskFails, Abandon, Dial, DialFails, DialAnother, ClientLeaves,
      UpstreamCloses
  <2>2. UNCHANGED <<route, rows, todo>>
    BY <1>1 DEF Connect, RunTaskFails, Abandon, Dial, DialFails, DialAnother, ClientLeaves,
      UpstreamCloses
  <2> QED
    BY <1>0, <2>1, <2>2, SteadySocket
<1>2. ASSUME NEW c \in Sock, AcquireLock(c) PROVE SteadyInv'
  BY <1>0, <1>2, SteadySocket DEF AcquireLock
<1>3. ASSUME NEW c \in Sock, ResolveRoute(c) PROVE SteadyInv'
  <2>1. ~Fault("getroute")
    BY DEF Fault, SteadyFaults
  <2>2. /\ pc[c] = "read" /\ UNCHANGED <<route, rows, todo>>
        /\ \/ pc' = [pc EXCEPT ![c] = "dial"]
           \/ ~Hit(SessionOf(c)) /\ pc' = [pc EXCEPT ![c] = "run"]
    BY <1>3, <2>1, Zenon DEF ResolveRoute
  <2> QED
    BY <1>0, <2>2, SteadySocket
<1>4. ASSUME NEW c \in Sock,
             \/ RunTask(c) \/ GotAddress(c) \/ NoAddress(c) \/ HealthGreen(c) \/ NeverGreen(c)
      PROVE  SteadyInv'
  <2>1. \E where \in {"waitip", "health", "write", "abandon"} : pc' = [pc EXCEPT ![c] = where]
    BY <1>4 DEF RunTask, GotAddress, NoAddress, HealthGreen, NeverGreen
  <2>2. pc[c] \in {"run", "waitip", "health"} /\ UNCHANGED <<route, rows, todo>>
    BY <1>4 DEF RunTask, GotAddress, NoAddress, HealthGreen, NeverGreen
  <2>3. ~Hit(SessionOf(c))
    BY <1>0, <2>2 DEF NoNameYet, Provisioning
  <2> QED
    BY <1>0, <2>1, <2>2, <2>3, SteadySocket
<1>5. ASSUME NEW c \in Sock, WriteRoute(c) PROVE SteadyInv'
  <2>1. /\ pc[c] = "write" /\ pc' = [pc EXCEPT ![c] = "dial"]
        /\ UNCHANGED <<rows, todo>>
        /\ route' = route \/ route' = [route EXCEPT ![SessionOf(c)] = RouteItem(dest[c])]
    BY <1>5 DEF WriteRoute
  <2>2. \A s \in Session : s # SessionOf(c) => route'[s] = route[s]
    BY <1>0, <2>1
  <2>3. ~Hit(SessionOf(c))
    BY <1>0, <2>1 DEF NoNameYet, Provisioning
  <2>4. pc'[c] = "dial" /\ \A d \in Sock : d # c => pc'[d] = pc[d]
    BY <1>0, <2>1 DEF TypeBroker
  <2>5. OneLocked'
    BY <1>0, <2>4 DEF OneLocked
  <2>6. NoNameYet'
    <3> SUFFICES ASSUME NEW d \in Sock, pc'[d] = "run" \/ Provisioning(d)'
                 PROVE  ~Hit(SessionOf(d))'
      BY DEF NoNameYet
    <3>1. d # c /\ pc[d] \in Locked /\ ~Hit(SessionOf(d))
      BY <1>0, <2>4 DEF NoNameYet, Provisioning
    <3>2. SessionOf(d) # SessionOf(c) /\ SessionOf(d) \in Session
      BY <1>0, <2>1, <3>1 DEF OneLocked, Sock, SessionOf
    <3> QED
      BY <2>2, <3>1, <3>2 DEF Hit, HasRow
  <2>7. SteadyTodo'
    <3> SUFFICES ASSUME NEW s \in todo, rows[s].arn # None PROVE StillThere(s)'
      BY <2>1 DEF SteadyTodo
    <3>1. StillThere(s) /\ s # SessionOf(c)
      BY <1>0, <2>3 DEF SteadyTodo, StillThere, Hit
    <3> QED
      BY <1>0, <2>1, <2>2, <3>1 DEF StillThere, HasRow
  <2> QED
    BY <1>0, <2>5, <2>6, <2>7 DEF SteadyInv
<1>6. CASE BrokerRestarts
  BY <1>0, <1>6 DEF BrokerRestarts, SteadyInv, OneLocked, NoNameYet, SteadyTodo, StillThere,
    HasRow, Provisioning
<1> QED
  BY <1>1, <1>2, <1>3, <1>4, <1>5, <1>6 DEF BrokerNext, BrokerStep

\* Names stay, and the reaper has no more rows to visit than before.
LEMMA SteadyFrame ==
    ASSUME SteadyInv, ProvisionInv', SameNames, UNCHANGED pc,
           todo' = {} \/ (UNCHANGED rows /\ todo' \subseteq todo)
    PROVE  SteadyInv'
<1>1. OneLocked' /\ NoNameYet'
  BY DEF SteadyInv, OneLocked, NoNameYet, SameNames, Provisioning, SessionOf, Sock
<1>2. SteadyTodo'
  BY DEF SteadyInv, SteadyTodo, SameNames, StillThere, Hit, HasRow, ProvisionInv, TypeInv,
    TypeOK, TypeReaper
<1> QED
  BY <1>1, <1>2 DEF SteadyInv

LEMMA SteadyAgent ==
    ASSUME SteadyFaults, SteadyInv, AgentNext
    PROVE  SteadyInv'
<1>1. ProvisionInv' /\ SameNames
  BY ProvisionAgent, AgentNames DEF SteadyInv, ProvisionInv, SteadyFaults
<1>2. UNCHANGED <<brokerVars, reaperVars>>
  BY DEF AgentNext, AgentStep, TaskStarts, StopCompletes, TaskCrashes, StartTurn, StartSolve,
    FinishTurn, IdleExit, Heartbeat, RowLost, JobEnds, notAgent
<1> QED
  BY <1>1, <1>2, SteadyFrame DEF brokerVars, reaperVars

LEMMA SteadyTick ==
    ASSUME SteadyInv, Tick \/ UNCHANGED vars
    PROVE  SteadyInv'
<1>1. ProvisionInv' /\ SameNames
  BY ProvisionTick, ProvisionStutter, TickNames DEF SteadyInv, ProvisionInv
<1> QED
  BY <1>1, SteadyFrame DEF Tick, vars, brokerVars, reaperVars

LEMMA SteadyReaper ==
    ASSUME SteadyInv, ReaperNext \/ LambdaTimeout
    PROVE  SteadyInv'
<1>0. /\ ProvisionInv' /\ UNCHANGED pc
      /\ NoNewName /\ (SameNames \/ DropRoute \/ DropJudgedRoute)
  BY ProvisionReaper, ReaperNames
  DEF SteadyInv, ProvisionInv, ReaperNext, ScanRoutes, DescribeTask, JudgeRow, WriteStreak,
    StopIdleTask, DropRoute, NextRow, ListTasks, JudgeTask, StopJudgedTask, DropJudgedRoute,
    Finish, LambdaTimeout, Reset, brokerVars, notReaper
<1>1. OneLocked' /\ NoNameYet'
  BY <1>0 DEF SteadyInv, OneLocked, NoNameYet, NoNewName, Provisioning, SessionOf, Sock
<1>2. CASE ScanRoutes
  <2>1. UNCHANGED route /\ todo' = {s \in Session : HasRow(rows', s)}
        /\ \A s \in Session : HasRow(rows', s) => rows'[s] = route[s]
    BY <1>2 DEF ScanRoutes, HasRow
  <2> QED
    BY <1>0, <1>1, <2>1 DEF SteadyInv, SteadyTodo, StillThere, HasRow
<1>3. CASE DropRoute \/ DropJudgedRoute
  <2>1. \A s \in Session : s # rcur => route'[s] = route[s]
    BY <1>3 DEF DropRoute, DropJudgedRoute, Deleted, SteadyInv, ProvisionInv, TypeInv, TypeOK,
      TypeRoutes
  <2>2. UNCHANGED rows /\ todo' \subseteq todo /\ rcur \notin todo'
    BY <1>3 DEF DropRoute, DropJudgedRoute, NextRow, SteadyInv, ProvisionInv, TypeInv,
      ReaperControl
  <2>3. todo \subseteq Session
    BY DEF SteadyInv, ProvisionInv, TypeInv, TypeOK, TypeReaper
  <2>4. SteadyTodo'
    BY <2>1, <2>2, <2>3 DEF SteadyInv, SteadyTodo, StillThere, HasRow
  <2> QED
    BY <1>0, <1>1, <2>4 DEF SteadyInv
<1>4. CASE ~ScanRoutes /\ ~DropRoute /\ ~DropJudgedRoute
  <2>1. todo' = {} \/ (UNCHANGED rows /\ todo' \subseteq todo)
    BY <1>4 DEF ReaperNext, DescribeTask, JudgeRow, WriteStreak, StopIdleTask, NextRow,
      ListTasks, JudgeTask, StopJudgedTask, Finish, LambdaTimeout, Reset
  <2> QED
    BY <1>0, <1>4, <2>1, SteadyFrame
<1> QED
  BY <1>2, <1>3, <1>4

LEMMA SteadyInvariance ==
    ASSUME SteadyFaults
    PROVE  Spec => []SteadyInv
<1>1. SteadyInv /\ [Next]_vars => SteadyInv'
  BY SteadyBroker, SteadyAgent, SteadyReaper, SteadyTick DEF Next
<1> QED
  BY <1>1, SteadyInit, PTL DEF Spec

LEMMA RowsKeptByStreak ==
    ASSUME SteadyInv, WriteStreak
    PROVE  RowsKept
<1>1. rcur \in todo /\ rcur \in Session /\ rows[rcur] \in Row /\ HasRow(route, rcur)
  BY NoneAssumption DEF WriteStreak, SteadyInv, ProvisionInv, TypeInv, TypeOK, TypeReaper,
    ReaperControl, RowPhase, SteadyTodo, StillThere, HasRow
<1>2. route \in [Session -> Row \cup {None}]
  BY DEF SteadyInv, ProvisionInv, TypeInv, TypeOK, TypeRoutes
<1>3. route' = route \/ route' = [route EXCEPT ![rcur] = [route[rcur] EXCEPT !.streak = NewStreak]]
  BY <1>1 DEF WriteStreak, Upserted
<1>4. route[rcur] \in Row
  BY <1>1, <1>2 DEF HasRow
<1>5. NewStreak \in 0..(IdleThreshold - 1)
  <2>1. rpc = "idlepoll" => ~StreakReached(rcur)
    BY DEF SteadyInv, ProvisionInv, TypeInv, ReaperControl
  <2> QED
    BY <1>1, <2>1, ThresholdAssumption DEF WriteStreak, NewStreak, StreakReached, Row
<1>6. /\ [route[rcur] EXCEPT !.streak = NewStreak] \in Row
      /\ [route[rcur] EXCEPT !.streak = NewStreak].arn = route[rcur].arn
  BY <1>4, <1>5 DEF Row
<1> QED
  BY <1>1, <1>2, <1>3, <1>6, NoneAssumption DEF HasRow, RowsKept

-----------------------------------------------------------------------------
(* The table and the reaper's copy of it, when every row names a task.      *)

\* Only a failed DescribeTasks or StopTask makes the reaper drop the row of a task
\* that stays up, and only the heartbeat makes rows without a name. A broker that
\* restarts, or cannot write its route, does neither.
TableFaults ==
    SteadyFaults /\ Faults \cap {"describe", "stoptask"} = {} /\ ~HeartbeatArmed

FullRows ==
    /\ \A s \in Session :
          HasRow(route, s) => route[s].arn \in Task /\ st[route[s].arn] # "pending"
    /\ \A c \in Sock : pc[c] \in {"health", "write"} => st[dest[c]] # "pending"

Snapshot ==
    /\ \A s \in Session :
          HasRow(rows, s) => /\ rows[s].arn \in Task
                             /\ StillThere(s) \/ ~Active(rows[s].arn)
                             /\ st[rows[s].arn] # "pending"
    /\ \A x, y \in listed : x[1] = y[1] => x = y
    /\ \A x \in listed : \A s \in MappedTo(x[1]) : StillThere(s)

Doomed ==
    /\ rpc = "drop" => ~Active(rows[rcur].arn)
    /\ rpc \in {"stop2", "drop2"} => \A x \in listed : x[1] # rvictim
    /\ rpc = "stop2" => \A s \in MappedTo(rvictim) : StillThere(s)
    /\ rpc = "drop2" => ~Active(rvictim) /\ StillThere(rcur)

TableInv == SteadyInv /\ FullRows /\ Snapshot /\ Doomed

LEMMA TableInit == Init => TableInv
<1> SUFFICES ASSUME Init PROVE TableInv
  OBVIOUS
<1> QED
  BY SteadyInit DEF Init, TableInv, FullRows, Snapshot, Doomed, HasRow

\* A row that is there to be visited is there in the table, with its name.
LEMMA TodoStillThere ==
    ASSUME TableInv
    PROVE  \A s \in todo : s \in Session /\ StillThere(s) /\ rows[s].arn \in Task
BY NoneAssumption DEF TableInv, Snapshot, SteadyInv, SteadyTodo, ProvisionInv, TypeInv,
    TypeOK, TypeReaper, ReaperControl

\* The reaper's copy of the table stays right while tasks only end, no name changes
\* and the reaper does not move.
LEMMA SnapshotKept ==
    ASSUME Snapshot, RowsKept, UNCHANGED <<rows, listed>>,
           \A t \in Task : Active(t)' => Active(t),
           \A t \in Task : st'[t] = "pending" => st[t] = "pending"
    PROVE  Snapshot'
<1>1. ASSUME NEW s \in Session, HasRow(rows, s)
      PROVE  /\ rows[s].arn \in Task /\ st'[rows[s].arn] # "pending"
             /\ StillThere(s)' \/ ~Active(rows[s].arn)'
  <2>1. /\ rows[s].arn \in Task /\ st[rows[s].arn] # "pending"
        /\ StillThere(s) \/ ~Active(rows[s].arn)
    BY <1>1 DEF Snapshot
  <2>2. st'[rows[s].arn] # "pending"
    BY <2>1
  <2>3. ~Active(rows[s].arn) => ~Active(rows[s].arn)'
    BY <2>1 DEF Active
  <2>4. StillThere(s) => StillThere(s)'
    BY DEF StillThere, RowsKept
  <2> QED
    BY <2>1, <2>2, <2>3, <2>4
<1>2. \A x \in listed : \A s \in MappedTo(x[1]) : StillThere(s)'
  BY DEF Snapshot, MappedTo, StillThere, RowsKept
<1>3. \A t : MappedTo(t)' = MappedTo(t)
  BY DEF MappedTo, HasRow
<1> QED
  BY <1>1, <1>2, <1>3 DEF Snapshot, HasRow

LEMMA ReaperView ==
    ASSUME TypeReaper, ReaperControl, Snapshot, Doomed, RowsKept,
           UNCHANGED <<rpc, rows, rcur, rvictim, listed>>,
           \A t \in Task : Active(t)' => Active(t),
           \A t \in Task : st'[t] = "pending" => st[t] = "pending"
    PROVE  Snapshot' /\ Doomed'
<1>1. \A s \in Session : StillThere(s) => StillThere(s)'
  BY DEF StillThere, RowsKept
<1>2. \A t : MappedTo(t)' = MappedTo(t) /\ MappedTo(t) \subseteq Session
  BY DEF MappedTo, HasRow
<1>3. rpc = "drop" => rows[rcur].arn \in Task
  BY DEF ReaperControl, RowPhase, TypeReaper, Snapshot
<1>4. rpc = "drop2" => rvictim \in Task /\ rcur \in Session
  BY DEF ReaperControl, MappedTo
<1> QED
  BY <1>1, <1>2, <1>3, <1>4, SnapshotKept DEF Doomed, Active

\* What happens to tasks alone: none becomes active or pending that was not.
LEMMA TableTasks ==
    ASSUME TableInv, SteadyInv', RowsKept,
           UNCHANGED <<pc, dest, rpc, rows, rcur, rvictim, listed>>,
           \A t \in Task : Active(t)' => Active(t),
           \A t \in Task : st'[t] = "pending" => st[t] = "pending"
    PROVE  TableInv'
<1>1. FullRows /\ Snapshot /\ Doomed /\ OwnTask /\ ReaperControl /\ TypeReaper
  BY DEF TableInv, SteadyInv, ProvisionInv, TypeInv, TypeOK
<1>2. FullRows'
  <2>1. ASSUME NEW c \in Sock, pc[c] \in {"health", "write"} PROVE st'[dest[c]] # "pending"
    BY <1>1, <2>1 DEF FullRows, OwnTask, Provisioning
  <2>2. ASSUME NEW s \in Session, HasRow(route', s)
        PROVE  route'[s].arn \in Task /\ st'[route'[s].arn] # "pending"
    BY <1>1, <2>2 DEF FullRows, RowsKept
  <2> QED
    BY <2>1, <2>2 DEF FullRows
<1>3. Snapshot' /\ Doomed'
  BY <1>1, ReaperView
<1> QED
  BY <1>2, <1>3 DEF TableInv

\* A socket moves, and neither the tasks nor the table do.
LEMMA TableSocket ==
    ASSUME TableInv, SteadyInv', UNCHANGED <<st, route, reaperVars>>,
           \A c \in Sock :
              pc'[c] \in {"health", "write"} =>
                 \/ Alive(dest'[c])
                 \/ pc[c] \in {"health", "write"} /\ dest'[c] = dest[c]
    PROVE  TableInv'
<1>1. FullRows'
  BY DEF TableInv, FullRows, HasRow, Alive
<1>2. Snapshot' /\ Doomed'
  BY DEF TableInv, Snapshot, Doomed, reaperVars, StillThere, HasRow, MappedTo, Active
<1> QED
  BY <1>1, <1>2 DEF TableInv

LEMMA TableBroker ==
    ASSUME TableFaults, TableInv, BrokerNext
    PROVE  TableInv'
<1>0. SteadyInv' /\ SteadyInv /\ FullRows /\ Snapshot /\ Doomed /\ TypeBroker /\ OwnTask
      /\ TypeReaper /\ ReaperControl /\ st \in [Task -> Statuses] /\ NoNameYet
      /\ route \in [Session -> Row \cup {None}]
  BY SteadyBroker
  DEF TableFaults, TableInv, SteadyInv, ProvisionInv, TypeInv, TypeOK, TypeTasks, TypeRoutes
<1> USE DEF Goto, Close, StartWait, ecsVars, notBroker
<1>1. ASSUME NEW c \in Sock,
             \/ Connect(c) \/ AcquireLock(c) \/ ResolveRoute(c) \/ RunTaskFails(c)
             \/ Dial(c) \/ DialFails(c) \/ DialAnother(c) \/ ClientLeaves(c) \/ UpstreamCloses(c)
      PROVE  TableInv'
  <2>1. UNCHANGED <<st, route, reaperVars>>
    BY <1>1 DEF Connect, AcquireLock, ResolveRoute, RunTaskFails, Dial, DialFails, DialAnother,
      ClientLeaves, UpstreamCloses
  <2>2. /\ \E where \in {"lock", "read", "dial", "run", "proxy", "closed"} :
              pc' = [pc EXCEPT ![c] = where]
        /\ dest' = dest \/ \E t : dest' = [dest EXCEPT ![c] = t]
    BY <1>1 DEF Connect, AcquireLock, ResolveRoute, RunTaskFails, Dial, DialFails, DialAnother,
      ClientLeaves, UpstreamCloses
  <2>3. \A d \in Sock : pc'[d] \in {"health", "write"} =>
                           pc[d] \in {"health", "write"} /\ dest'[d] = dest[d]
    BY <1>0, <2>2 DEF TypeBroker
  <2> QED
    BY <1>0, <2>1, <2>3, TableSocket
<1>2. ASSUME NEW c \in Sock,
             GotAddress(c) \/ NoAddress(c) \/ HealthGreen(c) \/ NeverGreen(c)
      PROVE  TableInv'
  <2>1. UNCHANGED <<st, route, dest, reaperVars>>
    BY <1>2 DEF GotAddress, NoAddress, HealthGreen, NeverGreen
  <2>2. \E where \in {"health", "write", "abandon"} :
           pc' = [pc EXCEPT ![c] = where] /\ (where # "abandon" => Alive(dest[c]))
    BY <1>2 DEF GotAddress, NoAddress, HealthGreen, NeverGreen
  <2>3. \A d \in Sock : pc'[d] \in {"health", "write"} =>
                           Alive(dest[d]) \/ pc[d] \in {"health", "write"}
    BY <1>0, <2>2 DEF TypeBroker
  <2>4. \A d \in Sock : pc'[d] \in {"health", "write"} =>
           Alive(dest'[d]) \/ (pc[d] \in {"health", "write"} /\ dest'[d] = dest[d])
    BY <2>1, <2>3
  <2> QED
    BY <1>0, <2>1, <2>4, TableSocket
<1>3. CASE BrokerRestarts
  BY <1>0, <1>3, TableSocket DEF BrokerRestarts
<1>4. ASSUME NEW c \in Sock, RunTask(c) PROVE TableInv'
  <2>1. PICK t \in Task :
           /\ Fresh(t)
           /\ st' = [st EXCEPT ![t] = "pending"]
           /\ dest' = [dest EXCEPT ![c] = t]
    BY <1>4 DEF RunTask
  <2>2. /\ pc' = [pc EXCEPT ![c] = "waitip"]
        /\ UNCHANGED <<route, reaperVars>>
    BY <1>4 DEF RunTask
  <2>3. /\ ~Active(t)
        /\ \A s \in Session : /\ HasRow(route, s) => route[s].arn # t
                              /\ HasRow(rows, s) => rows[s].arn # t
        /\ \A d \in Sock : dest[d] # t
        /\ rvictim # t
        /\ \A x \in listed : x[1] # t
    BY <2>1 DEF Fresh, Active
  <2>4. \A u \in Task : u # t => st'[u] = st[u]
    BY <1>0, <2>1
  <2> USE <1>0, <2>2, <2>3, <2>4 DEF HasRow, reaperVars
  <2>5. FullRows'
    <3>1. ASSUME NEW d \in Sock, pc'[d] \in {"health", "write"}
          PROVE  st'[dest'[d]] # "pending"
      <4>1. d # c /\ pc[d] \in {"health", "write"} /\ dest'[d] = dest[d]
        BY <2>1, <3>1 DEF TypeBroker
      <4> QED
        BY <4>1 DEF FullRows, OwnTask, Provisioning
    <3> QED
      BY <3>1 DEF FullRows
  <2>6. Snapshot'
    BY DEF Snapshot, StillThere, MappedTo, Active
  <2>7. Doomed'
    BY DEF Doomed, StillThere, MappedTo, Active, ReaperControl, RowPhase, TypeReaper, Snapshot
  <2> QED
    BY <2>5, <2>6, <2>7 DEF TableInv
<1>5. ASSUME NEW c \in Sock, WriteRoute(c) PROVE TableInv'
  <2>1. /\ SessionOf(c) \in Session /\ dest[c] \in Task /\ pc[c] = "write"
        /\ pc' = [pc EXCEPT ![c] = "dial"]
        /\ UNCHANGED <<dest, ecsVars, reaperVars>>
    BY <1>0, <1>5 DEF WriteRoute, Sock, SessionOf, OwnTask, Provisioning
  <2>2. CASE route' = route
    BY <1>0, <2>1, <2>2, TableSocket DEF TypeBroker
  <2>3. CASE route' = [route EXCEPT ![SessionOf(c)] = RouteItem(dest[c])]
    <3>1. /\ RouteItem(dest[c]) # None /\ RouteItem(dest[c]).arn = dest[c]
          /\ st[dest[c]] # "pending"
      BY <1>0, <2>1, RouteItemIsRow, NoneAssumption DEF RouteItem, FullRows
    <3>2. ~HasRow(route, SessionOf(c))
      BY <1>0, <2>1, NoneAssumption DEF NoNameYet, Provisioning, Hit, FullRows
    <3>3. FullRows'
      BY <1>0, <2>1, <2>3, <3>1 DEF FullRows, HasRow, TypeBroker
    <3>4. \A s \in Session : StillThere(s) => StillThere(s)'
      BY <1>0, <2>1, <2>3, <3>2 DEF StillThere, HasRow, reaperVars
    <3>5. \A t : MappedTo(t)' = MappedTo(t) /\ MappedTo(t) \subseteq Session
      BY <2>1 DEF MappedTo, HasRow, reaperVars
    <3>6. Snapshot'
      BY <1>0, <2>1, <3>4, <3>5 DEF Snapshot, HasRow, reaperVars, Active
    <3>7. Doomed'
      BY <1>0, <2>1, <3>4, <3>5 DEF Doomed, reaperVars, Active, ReaperControl
    <3> QED
      BY <1>0, <3>3, <3>6, <3>7 DEF TableInv
  <2> QED
    BY <1>5, <2>2, <2>3 DEF WriteRoute
<1>6. ASSUME NEW c \in Sock, Abandon(c) PROVE TableInv'
  <2>1. /\ pc' = [pc EXCEPT ![c] = "closed"]
        /\ dest' = [dest EXCEPT ![c] = None]
        /\ StopIssued(dest[c])
        /\ UNCHANGED <<route, reaperVars>>
    BY <1>6 DEF Abandon, Fault, TableFaults
  <2>2. /\ \A t \in Task : Active(t)' => Active(t)
        /\ \A t \in Task : st'[t] = "pending" => st[t] = "pending"
    BY <1>0, <2>1 DEF StopIssued, Active
  <2>3. Snapshot' /\ Doomed'
    BY <1>0, <2>1, <2>2, ReaperView DEF RowsKept, reaperVars, HasRow
  <2>4. FullRows'
    <3>1. ASSUME NEW d \in Sock, pc'[d] \in {"health", "write"}
          PROVE  st'[dest'[d]] # "pending"
      <4>1. d # c /\ pc[d] \in {"health", "write"} /\ dest'[d] = dest[d]
        BY <1>0, <2>1, <3>1 DEF TypeBroker
      <4> QED
        BY <1>0, <2>2, <4>1 DEF FullRows, OwnTask, Provisioning
    <3> QED
      BY <1>0, <2>1, <2>2, <3>1 DEF FullRows, HasRow
  <2> QED
    BY <1>0, <2>3, <2>4 DEF TableInv
<1> QED
  BY <1>1, <1>2, <1>3, <1>4, <1>5, <1>6 DEF BrokerNext, BrokerStep

LEMMA TableAgent ==
    ASSUME TableFaults, TableInv, AgentNext
    PROVE  TableInv'
<1>0. SteadyInv'
  BY SteadyAgent DEF TableFaults, TableInv
<1> USE DEF TableInv, SteadyInv, ProvisionInv, TypeInv, TypeOK, TypeTasks, Active, Statuses,
            ecsVars, notAgent
<1> DEFINE Kept(t) == /\ Active(t)' => Active(t)
                      /\ st'[t] = "pending" => st[t] = "pending"
<1>1. ASSUME NEW t \in Task, TaskStarts(t)
      PROVE UNCHANGED <<route, brokerVars, reaperVars>> /\ \A u \in Task : Kept(u)
  BY <1>1 DEF TaskStarts
<1>2. ASSUME NEW t \in Task, StopCompletes(t) \/ TaskCrashes(t) \/ IdleExit(t)
      PROVE UNCHANGED <<route, brokerVars, reaperVars>> /\ \A u \in Task : Kept(u)
  BY <1>2 DEF StopCompletes, TaskCrashes, IdleExit, Gone
<1>3. ASSUME NEW t \in Task, StartTurn(t) \/ StartSolve(t) \/ FinishTurn(t)
      PROVE UNCHANGED <<route, brokerVars, reaperVars>> /\ \A u \in Task : Kept(u)
  BY <1>3 DEF StartTurn, StartSolve, FinishTurn
<1>4. JobEnds => UNCHANGED <<route, brokerVars, reaperVars>> /\ \A u \in Task : Kept(u)
  BY DEF JobEnds
<1>5. (\A t \in Task : ~Heartbeat(t)) /\ (\A s \in Session : ~RowLost(s))
  BY DEF Heartbeat, RowLost, Fault, TableFaults, SteadyFaults
<1>6. UNCHANGED <<route, brokerVars, reaperVars>> /\ \A u \in Task : Kept(u)
  BY <1>1, <1>2, <1>3, <1>4, <1>5 DEF AgentNext, AgentStep
<1>7. RowsKept
  BY <1>6 DEF RowsKept, HasRow
<1> QED
  BY <1>0, <1>6, <1>7, TableTasks DEF brokerVars, reaperVars

LEMMA TableTick ==
    ASSUME TableInv, Tick \/ UNCHANGED vars
    PROVE  TableInv'
<1>1. SteadyInv' /\ (Tick => RowsKept)
  BY SteadyTick, RowsKeptByTick DEF TableInv, SteadyInv, ProvisionInv, TypeInv, TypeOK
<1>2. UNCHANGED <<st, pc, dest, rpc, rows, rcur, rvictim, listed>>
  BY DEF Tick, vars, ecsVars, brokerVars, reaperVars
<1>3. UNCHANGED vars => RowsKept
  BY DEF vars, RowsKept, HasRow
<1> QED
  BY <1>1, <1>2, <1>3, TableTasks DEF Active

LEMMA TableWriteStreak ==
    ASSUME TableInv, WriteStreak
    PROVE  TableInv'
<1>1. SteadyInv' /\ RowsKept
  BY SteadyReaper, RowsKeptByStreak DEF TableInv, ReaperNext
<1>2. rpc' = "pass1" /\ UNCHANGED <<st, pc, dest, rows, listed>>
  BY DEF WriteStreak, NextRow, RGoto, notReaper, brokerVars
<1>3. FullRows'
  BY <1>1, <1>2 DEF TableInv, FullRows, RowsKept
<1>4. Snapshot'
  <2>1. \A s \in Session : StillThere(s) => StillThere(s)'
    BY <1>1, <1>2 DEF StillThere, RowsKept
  <2>2. \A t : MappedTo(t)' = MappedTo(t) /\ MappedTo(t) \subseteq Session
    BY <1>2 DEF MappedTo, HasRow
  <2> QED
    BY <1>2, <2>1, <2>2 DEF TableInv, Snapshot, HasRow, Active
<1>5. Doomed'
  BY <1>2 DEF Doomed
<1> QED
  BY <1>1, <1>3, <1>4, <1>5 DEF TableInv

\* Both drops delete the row of a task that is gone or going.
LEMMA DropsDeadRow ==
    ASSUME TableInv, DropRoute \/ DropJudgedRoute
    PROVE  rcur \in Session /\ StillThere(rcur) /\ ~Active(route[rcur].arn)
BY TodoStillThere DEF DropRoute, DropJudgedRoute, TableInv, SteadyInv, ProvisionInv, TypeInv,
    ReaperControl, RowPhase, Doomed, StillThere, MappedTo

LEMMA TableDrop ==
    ASSUME TableInv, DropRoute \/ DropJudgedRoute
    PROVE  TableInv'
<1>0. SteadyInv'
  BY SteadyReaper DEF TableInv, ReaperNext
<1>1. rcur \in Session /\ StillThere(rcur) /\ ~Active(route[rcur].arn)
  BY DropsDeadRow
<1>2. /\ rpc' \in {"pass1", "pass2"}
      /\ \A x \in listed : rcur \notin MappedTo(x[1])
      /\ UNCHANGED <<st, pc, dest, rows, listed>>
  BY DEF DropRoute, DropJudgedRoute, NextRow, RGoto, notReaper, brokerVars, TableInv,
    SteadyInv, ProvisionInv, TypeInv, ReaperControl, Doomed, MappedTo
<1>3. /\ route \in [Session -> Row \cup {None}]
      /\ route' = route \/ route' = [route EXCEPT ![rcur] = None]
  BY DEF DropRoute, DropJudgedRoute, Deleted, TableInv, SteadyInv, ProvisionInv, TypeInv,
    TypeOK, TypeRoutes
<1>4. \A s \in Session : HasRow(route', s) => HasRow(route, s) /\ route'[s] = route[s]
  BY <1>1, <1>3 DEF HasRow
<1>5. \A s \in Session : s # rcur => route'[s] = route[s]
  BY <1>1, <1>3
<1>6. FullRows'
  BY <1>2, <1>4 DEF TableInv, FullRows
<1>7. Snapshot'
  <2>1. \A s \in Session : StillThere(s) /\ s # rcur => StillThere(s)'
    BY <1>2, <1>5 DEF StillThere, HasRow
  <2>2. \A t : MappedTo(t)' = MappedTo(t) /\ MappedTo(t) \subseteq Session
    BY <1>2 DEF MappedTo, HasRow
  <2>3. ~Active(rows[rcur].arn)
    BY <1>1 DEF StillThere
  <2> QED
    BY <1>2, <2>1, <2>2, <2>3 DEF TableInv, Snapshot, HasRow, Active
<1>8. Doomed'
  BY <1>2 DEF Doomed
<1> QED
  BY <1>0, <1>6, <1>7, <1>8 DEF TableInv

\* StopTask succeeds: what is dropped next names a task that is going.
LEMMA TableStop ==
    ASSUME TableFaults, TableInv, StopIdleTask \/ StopJudgedTask
    PROVE  TableInv'
<1>0. /\ SteadyInv' /\ FullRows /\ Snapshot /\ Doomed /\ ReaperControl /\ OwnTask
      /\ st \in [Task -> Statuses]
  BY SteadyReaper
  DEF ReaperNext, TableInv, SteadyInv, ProvisionInv, TypeInv, TypeOK, TypeTasks
<1>1. /\ StopIssued(rvictim) /\ rvictim \in Task
      /\ UNCHANGED <<route, pc, dest, rows, listed>>
      /\ \/ rpc' = "drop" /\ rcur' = rcur /\ rvictim = rows[rcur].arn
         \/ rpc' = "pass2"
         \/ rpc = "stop2" /\ rpc' = "drop2" /\ rvictim' = rvictim
            /\ rcur' \in MappedTo(rvictim)
  BY <1>0 DEF StopIdleTask, StopJudgedTask, TableFaults, Fault, RGoto, ReaperControl,
    notReaper, brokerVars
<1>2. /\ \A t \in Task : Active(t)' => Active(t) /\ t # rvictim
      /\ \A t \in Task : st'[t] = "pending" => st[t] = "pending"
  BY <1>0, <1>1 DEF StopIssued, Active
<1>3. RowsKept
  BY <1>1 DEF RowsKept, HasRow
<1>4. Snapshot'
  BY <1>0, <1>1, <1>2, <1>3, SnapshotKept
<1>5. Doomed'
  BY <1>0, <1>1, <1>2 DEF Doomed, StillThere, HasRow, Active
<1>6. FullRows'
  BY <1>0, <1>1, <1>2 DEF FullRows, OwnTask, Provisioning, HasRow
<1> QED
  BY <1>0, <1>4, <1>5, <1>6 DEF TableInv

LEMMA TableReaper ==
    ASSUME TableFaults, TableInv, ReaperNext \/ LambdaTimeout
    PROVE  TableInv'
<1>0. SteadyInv' /\ \A s \in todo : s \in Session /\ StillThere(s) /\ rows[s].arn \in Task
  BY SteadyReaper, TodoStillThere DEF TableInv
<1>1. CASE WriteStreak \/ DropRoute \/ DropJudgedRoute \/ StopIdleTask \/ StopJudgedTask
  BY <1>1, TableWriteStreak, TableDrop, TableStop
<1> USE <1>0, NoneAssumption
    DEF TableFaults, SteadyFaults, TableInv, FullRows, StillThere, Snapshot, Doomed,
        SteadyInv, ProvisionInv, TypeInv, TypeOK, TypeTasks, TypeRoutes, TypeBroker,
        TypeReaper, ReaperControl, RowPhase, MappedTo, HasRow, Active, Alive, NoFault,
        Fault, RGoto, brokerVars, history, notReaper
<1>2. CASE ScanRoutes
  BY <1>2 DEF ScanRoutes
<1>3. ASSUME NEW s \in Session, DescribeTask(s) PROVE TableInv'
  BY <1>3 DEF DescribeTask
<1>4. CASE JudgeRow
  BY <1>4 DEF JudgeRow
<1>5. CASE ListTasks
  BY <1>5 DEF ListTasks
<1>6. CASE JudgeTask
  BY <1>6 DEF JudgeTask
<1>7. CASE Finish \/ LambdaTimeout
  BY <1>7 DEF Finish, LambdaTimeout, Reset
<1> QED
  BY <1>1, <1>2, <1>3, <1>4, <1>5, <1>6, <1>7 DEF ReaperNext

LEMMA TableInvariance ==
    ASSUME TableFaults
    PROVE  Spec => []TableInv
<1>1. SteadyFaults
  BY DEF TableFaults
<1>2. TableInv /\ [Next]_vars => TableInv'
  BY TableBroker, TableAgent, TableReaper, TableTick DEF Next
<1> QED
  BY <1>2, TableInit, PTL DEF Spec

LEMMA OnlyDropsDelete ==
    ASSUME TableFaults, TableInv, Next, NEW s \in Session,
           HasRow(route, s), route'[s] = None
    PROVE  (DropRoute \/ DropJudgedRoute) /\ s = rcur
<1> USE DEF HasRow, TableFaults, SteadyFaults, Fault, NoFault
<1>1. SteadyInv /\ TypeInv /\ TypeBroker /\ route \in [Session -> Row \cup {None}]
  BY DEF TableInv, SteadyInv, ProvisionInv, TypeInv, TypeOK, TypeRoutes
<1>2. CASE BrokerNext
  <2>1. ASSUME NEW c \in Sock, WriteRoute(c) PROVE route'[s] # None
    BY <1>1, <2>1, RouteItemIsRow, NoneAssumption DEF WriteRoute, TypeBroker
  <2>2. ASSUME NEW c \in Sock,
              BrokerStep(c) \/ Connect(c) \/ ClientLeaves(c) \/ DialAnother(c), ~WriteRoute(c)
        PROVE  route' = route
    BY <2>2 DEF BrokerStep, Connect, ClientLeaves, AcquireLock, ResolveRoute, RunTask,
      RunTaskFails, GotAddress, NoAddress, HealthGreen, NeverGreen, Abandon, Dial, DialFails,
      DialAnother,
      UpstreamCloses
  <2>3. BrokerRestarts => route' = route
    BY DEF BrokerRestarts
  <2> QED
    BY <1>2, <2>1, <2>2, <2>3 DEF BrokerNext
<1>3. CASE AgentNext
  BY <1>3 DEF AgentNext, AgentStep, TaskStarts, StopCompletes, TaskCrashes, StartTurn,
    StartSolve, FinishTurn, IdleExit, Heartbeat, RowLost, JobEnds
<1>4. CASE Tick
  BY <1>1, <1>4, RowsKeptByTick DEF RowsKept, TypeInv, TypeOK
<1>5. CASE ReaperNext \/ LambdaTimeout
  <2>1. CASE WriteStreak
    BY <1>1, <2>1, RowsKeptByStreak DEF RowsKept
  <2>2. CASE DropRoute \/ DropJudgedRoute
    BY <1>1, <2>2 DEF DropRoute, DropJudgedRoute, Deleted
  <2>3. CASE ~WriteStreak /\ ~DropRoute /\ ~DropJudgedRoute
    BY <1>5, <2>3 DEF ReaperNext, ScanRoutes, DescribeTask, JudgeRow, StopIdleTask, ListTasks,
      JudgeTask, StopJudgedTask, Finish, LambdaTimeout, Reset
  <2> QED
    BY <2>1, <2>2, <2>3
<1> QED
  BY <1>2, <1>3, <1>4, <1>5 DEF Next

\* A row the reaper deletes names a task that is gone or going, so no client that is
\* connected, or reconnects, loses a live agent to _delete_route: as long as no
\* DescribeTasks, StopTask or GetItem fails, no row is lost by itself and the
\* heartbeat is off. A restart of the broker or a PutItem that fails does no harm.
THEOREM DroppedIsDead ==
    ASSUME TableFaults
    PROVE  Spec => DroppedRouteIsDead
<1>1. ASSUME TableInv, [Next]_vars,
             NEW s \in Session, rpc \in {"drop", "drop2"}, Hit(s), route'[s] = None
      PROVE  ~Active(route[s].arn)
  <2>1. Next
    BY <1>1 DEF vars, Hit, HasRow
  <2>2. s = rcur /\ (DropRoute \/ DropJudgedRoute)
    BY <1>1, <2>1, OnlyDropsDelete DEF Hit
  <2> QED
    BY <1>1, <2>2, DropsDeadRow
<1>2. TableInv /\ [Next]_vars =>
        [\A s \in Session :
            rpc \in {"drop", "drop2"} /\ Hit(s) /\ route'[s] = None
                => ~Active(route[s].arn)]_vars
  BY <1>1
<1> QED
  BY <1>2, TableInvariance, PTL DEF Spec, DroppedRouteIsDead

-----------------------------------------------------------------------------
(* No leak, as long as the failures are of the harmless kinds.              *)

\* On top of that: the put of a route succeeds, and the broker stays up while it
\* provisions. All other failures are harmless in this respect: a failed or partial
\* scan, a failed listing, probe, delete or write of a streak, a Lambda timeout, a
\* failed RunTask or dial, a task that crashes.
HarmlessFaults == TableFaults /\ Faults \cap {"putroute", "broker"} = {}

Owned == \A t \in Task : Alive(t) \/ Active(t) => owner[t] \in Session

LeakInv == TableInv /\ Owned /\ NoLeak

LEMMA OwnedStep ==
    ASSUME TypeInv, Owned, [Next]_vars
    PROVE  Owned'
<1> USE DEF TypeInv, TypeOK, TypeTasks, Owned, Alive, Active, Statuses, ecsVars, notBroker, notAgent,
        notReaper
<1>1. ASSUME NEW c \in Sock, RunTask(c) PROVE Owned'
  BY <1>1 DEF RunTask, Sock, SessionOf
<1>2. ASSUME NEW c \in Sock, Abandon(c) PROVE Owned'
  BY <1>2 DEF Abandon, StopIssued
<1>3. CASE UNCHANGED <<st, owner>>
  BY <1>3
<1>4. CASE BrokerNext
  <2>1. ASSUME NEW c \in Sock, BrokerStep(c) \/ Connect(c) \/ ClientLeaves(c) \/ DialAnother(c),
               ~RunTask(c), ~Abandon(c)
        PROVE  UNCHANGED <<st, owner>>
    BY <2>1 DEF BrokerStep, Connect, ClientLeaves, AcquireLock, ResolveRoute, RunTaskFails,
      GotAddress, NoAddress, HealthGreen, NeverGreen, WriteRoute, Dial, DialFails,
      DialAnother, UpstreamCloses
  <2>2. BrokerRestarts => UNCHANGED <<st, owner>>
    BY DEF BrokerRestarts
  <2> QED
    BY <1>1, <1>2, <1>3, <1>4, <2>1, <2>2 DEF BrokerNext
<1>5. CASE AgentNext
  <2>1. ASSUME NEW t \in Task, TaskStarts(t) PROVE Owned'
    BY <2>1 DEF TaskStarts
  <2>2. ASSUME NEW t \in Task, StopCompletes(t) \/ TaskCrashes(t) \/ IdleExit(t) PROVE Owned'
    BY <2>2 DEF StopCompletes, TaskCrashes, IdleExit, Gone
  <2>3. ASSUME NEW t \in Task,
               StartTurn(t) \/ StartSolve(t) \/ FinishTurn(t) \/ Heartbeat(t)
        PROVE  Owned'
    BY <2>3 DEF StartTurn, StartSolve, FinishTurn, Heartbeat
  <2>4. ASSUME NEW s \in Session, RowLost(s) PROVE Owned'
    BY <2>4 DEF RowLost
  <2>5. JobEnds => Owned'
    BY DEF JobEnds
  <2> QED
    BY <1>5, <2>1, <2>2, <2>3, <2>4, <2>5 DEF AgentNext, AgentStep
<1>6. CASE ReaperNext \/ LambdaTimeout
  <2>1. CASE StopIdleTask \/ StopJudgedTask
    BY <2>1 DEF StopIdleTask, StopJudgedTask, StopIssued
  <2>2. CASE ~StopIdleTask /\ ~StopJudgedTask
    BY <1>6, <2>2, <1>3 DEF ReaperNext, ScanRoutes, DescribeTask, JudgeRow, WriteStreak,
      DropRoute, NextRow, ListTasks, JudgeTask, DropJudgedRoute, Finish, LambdaTimeout, Reset
  <2> QED
    BY <2>1, <2>2
<1>7. CASE Tick \/ UNCHANGED vars
  BY <1>3, <1>7 DEF Tick, vars
<1> QED
  BY <1>4, <1>5, <1>6, <1>7 DEF Next

\* Tasks only end, no thread lets go of one, and names stay.
LEMMA LeakFrame ==
    ASSUME Owned, NoLeak, SameNames,
           \A t \in Task : Active(t)' => Active(t) /\ owner'[t] = owner[t],
           \A c \in Sock : Provisioning(c) => Provisioning(c)' /\ dest'[c] = dest[c]
    PROVE  NoLeak'
<1> SUFFICES ASSUME NEW t \in Task, Active(t)'
             PROVE  \/ \E c \in Sock : (Provisioning(c) /\ dest[c] = t /\ SessionOf(c) = owner[t])'
                    \/ (HasRow(route, owner[t]) /\ route[owner[t]].arn = t)'
  BY Zenon DEF NoLeak
<1>1. Active(t) /\ owner'[t] = owner[t] /\ owner[t] \in Session
  BY DEF Owned
<1>2. CASE \E c \in Sock : Provisioning(c) /\ dest[c] = t /\ SessionOf(c) = owner[t]
  BY <1>1, <1>2 DEF SessionOf
<1>3. CASE HasRow(route, owner[t]) /\ route[owner[t]].arn = t
  BY <1>1, <1>3, NoneAssumption DEF SameNames, Hit, HasRow
<1> QED
  BY <1>1, <1>2, <1>3 DEF NoLeak

LEMMA LeakBroker ==
    ASSUME HarmlessFaults, LeakInv, BrokerNext
    PROVE  NoLeak'
<1>0. /\ Owned /\ NoLeak /\ TypeBroker /\ TypeTasks /\ TypeRoutes /\ OwnTask /\ NoNameYet
      /\ FullRows
  BY DEF LeakInv, TableInv, SteadyInv, ProvisionInv, TypeInv, TypeOK
<1> USE DEF Goto, Close, StartWait, ecsVars, notBroker
<1>1. ASSUME NEW c \in Sock,
             \/ Connect(c) \/ AcquireLock(c) \/ ResolveRoute(c) \/ RunTaskFails(c)
             \/ GotAddress(c) \/ NoAddress(c) \/ HealthGreen(c) \/ NeverGreen(c)
             \/ Dial(c) \/ DialFails(c) \/ DialAnother(c) \/ ClientLeaves(c) \/ UpstreamCloses(c)
      PROVE  NoLeak'
  <2>1. UNCHANGED <<st, owner, route>>
    BY <1>1 DEF Connect, AcquireLock, ResolveRoute, RunTaskFails, GotAddress, NoAddress,
      HealthGreen, NeverGreen, Dial, DialFails, DialAnother, ClientLeaves, UpstreamCloses
  <2>2. \A d \in Sock : Provisioning(d) => Provisioning(d)' /\ dest'[d] = dest[d]
    BY <1>0, <1>1 DEF TypeBroker, Provisioning, Connect, AcquireLock, ResolveRoute,
      RunTaskFails, GotAddress, NoAddress, HealthGreen, NeverGreen, Dial, DialFails,
      DialAnother,
      ClientLeaves, UpstreamCloses
  <2> QED
    BY <1>0, <2>1, <2>2, LeakFrame DEF Active, SameNames, Hit, HasRow
<1>2. ASSUME NEW c \in Sock, RunTask(c) PROVE NoLeak'
  <2>1. PICK t \in Task :
           /\ Fresh(t)
           /\ st' = [st EXCEPT ![t] = "pending"]
           /\ owner' = [owner EXCEPT ![t] = SessionOf(c)]
           /\ dest' = [dest EXCEPT ![c] = t]
    BY <1>2 DEF RunTask
  <2>2. pc[c] = "run" /\ pc' = [pc EXCEPT ![c] = "waitip"] /\ UNCHANGED route
    BY <1>2 DEF RunTask
  <2>3. (Provisioning(c) /\ dest[c] = t /\ SessionOf(c) = owner[t])'
    BY <1>0, <2>1, <2>2 DEF TypeBroker, TypeTasks, Provisioning, SessionOf
  <2>4. \A u \in Task : u # t => st'[u] = st[u] /\ owner'[u] = owner[u]
    BY <1>0, <2>1 DEF TypeTasks
  <2>5. \A d \in Sock : Provisioning(d) => Provisioning(d)' /\ dest'[d] = dest[d]
    BY <1>0, <2>1, <2>2 DEF TypeBroker, Provisioning
  <2> QED
    BY <1>0, <2>2, <2>3, <2>4, <2>5 DEF NoLeak, Active, HasRow, SessionOf
<1>3. ASSUME NEW c \in Sock, WriteRoute(c) PROVE NoLeak'
  <2>1. /\ SessionOf(c) \in Session /\ dest[c] \in Task /\ pc[c] = "write"
        /\ pc' = [pc EXCEPT ![c] = "dial"]
        /\ route' = [route EXCEPT ![SessionOf(c)] = RouteItem(dest[c])]
        /\ UNCHANGED <<dest, st, owner>>
    BY <1>0, <1>3 DEF WriteRoute, Sock, SessionOf, OwnTask, Provisioning, Fault, HarmlessFaults
  <2>2. RouteItem(dest[c]) # None /\ RouteItem(dest[c]).arn = dest[c]
    BY <2>1, RouteItemIsRow, NoneAssumption DEF RouteItem
  <2>3. ~HasRow(route, SessionOf(c))
    BY <1>0, <2>1, NoneAssumption DEF NoNameYet, Provisioning, Hit, FullRows
  <2>4. \A d \in Sock : Provisioning(d) => d = c \/ Provisioning(d)'
    BY <1>0, <2>1 DEF TypeBroker, Provisioning
  <2> QED
    BY <1>0, <2>1, <2>2, <2>3, <2>4 DEF NoLeak, Active, HasRow, TypeRoutes, Owned
<1>4. ASSUME NEW c \in Sock, Abandon(c) PROVE NoLeak'
  <2>1. /\ pc' = [pc EXCEPT ![c] = "closed"]
        /\ dest' = [dest EXCEPT ![c] = None]
        /\ StopIssued(dest[c]) /\ dest[c] \in Task
        /\ UNCHANGED <<route, owner>>
    BY <1>0, <1>4 DEF Abandon, Fault, HarmlessFaults, TableFaults, OwnTask, Provisioning
  <2>2. \A t \in Task : Active(t)' => Active(t) /\ t # dest[c]
    BY <1>0, <2>1 DEF StopIssued, Active, TypeTasks
  <2>3. \A d \in Sock : Provisioning(d) => d = c \/ (Provisioning(d)' /\ dest'[d] = dest[d])
    BY <1>0, <2>1 DEF TypeBroker, Provisioning
  <2> QED
    BY <1>0, <2>1, <2>2, <2>3 DEF NoLeak, HasRow
<1>5. ~BrokerRestarts
  BY DEF BrokerRestarts, Fault, HarmlessFaults
<1> QED
  BY <1>1, <1>2, <1>3, <1>4, <1>5 DEF BrokerNext, BrokerStep

LEMMA LeakAgent ==
    ASSUME HarmlessFaults, LeakInv, AgentNext
    PROVE  NoLeak'
<1>0. TypeInv /\ TypeTasks /\ SameNames
  BY AgentNames DEF LeakInv, TableInv, SteadyInv, ProvisionInv, TypeInv, TypeOK,
    HarmlessFaults, TableFaults, SteadyFaults
<1>1. UNCHANGED brokerVars
  BY DEF AgentNext, AgentStep, TaskStarts, StopCompletes, TaskCrashes, StartTurn, StartSolve,
    FinishTurn, IdleExit, Heartbeat, RowLost, JobEnds, notAgent
<1>2. \A t \in Task : Active(t)' => Active(t) /\ owner'[t] = owner[t]
  BY <1>0 DEF AgentNext, AgentStep, TaskStarts, StopCompletes, TaskCrashes, StartTurn,
    StartSolve, FinishTurn, IdleExit, Heartbeat, RowLost, JobEnds, Gone, Active, TypeTasks,
    ecsVars
<1> QED
  BY <1>0, <1>1, <1>2, LeakFrame DEF LeakInv, brokerVars, Provisioning

LEMMA LeakReaper ==
    ASSUME LeakInv, ReaperNext \/ LambdaTimeout
    PROVE  NoLeak'
<1>0. TypeTasks /\ TypeRoutes /\ TypeReaper /\ (SameNames \/ DropRoute \/ DropJudgedRoute)
  BY ReaperNames DEF LeakInv, TableInv, SteadyInv, ProvisionInv, TypeInv, TypeOK
<1>1. UNCHANGED <<pc, dest, owner>>
  BY DEF ReaperNext, ScanRoutes, DescribeTask, JudgeRow, WriteStreak, StopIdleTask, DropRoute,
    NextRow, ListTasks, JudgeTask, StopJudgedTask, DropJudgedRoute, Finish, LambdaTimeout,
    Reset, notReaper, brokerVars
<1>2. \A t \in Task : Active(t)' => Active(t)
  <2>1. UNCHANGED st \/ StopIssued(rvictim)
    BY DEF ReaperNext, ScanRoutes, DescribeTask, JudgeRow, WriteStreak, StopIdleTask,
      DropRoute, ListTasks, JudgeTask, StopJudgedTask, DropJudgedRoute, Finish,
      LambdaTimeout, Reset
  <2> QED
    BY <1>0, <2>1 DEF StopIssued, Active, TypeTasks, TypeReaper
<1>3. CASE SameNames
  BY <1>1, <1>2, <1>3, LeakFrame DEF LeakInv, Provisioning
<1>4. CASE DropRoute \/ DropJudgedRoute
  <2>1. rcur \in Session /\ ~Active(route[rcur].arn) /\ UNCHANGED st
    BY <1>4, DropsDeadRow DEF LeakInv, DropRoute, DropJudgedRoute
  <2>2. \A s \in Session : s # rcur => route'[s] = route[s]
    BY <1>0, <1>4 DEF DropRoute, DropJudgedRoute, Deleted, TypeRoutes
  <2> QED
    BY <1>1, <2>1, <2>2 DEF LeakInv, NoLeak, Active, Owned, Provisioning, SessionOf, HasRow
<1> QED
  BY <1>0, <1>3, <1>4

LEMMA LeakTick ==
    ASSUME LeakInv, Tick \/ UNCHANGED vars
    PROVE  NoLeak'
<1>1. SameNames
  BY TickNames DEF LeakInv, TableInv, SteadyInv, ProvisionInv
<1>2. UNCHANGED <<st, owner, pc, dest>>
  BY DEF Tick, vars, ecsVars, brokerVars
<1> QED
  BY <1>1, <1>2, LeakFrame DEF LeakInv, Active, Provisioning

LEMMA LeakInvariance ==
    ASSUME HarmlessFaults
    PROVE  Spec => []LeakInv
<1>1. TableFaults
  BY DEF HarmlessFaults
<1>2. Init => LeakInv
  BY TableInit DEF Init, LeakInv, Owned, NoLeak, Alive, Active
<1>3. LeakInv /\ [Next]_vars => NoLeak'
  BY LeakBroker, LeakAgent, LeakReaper, LeakTick DEF Next
<1>4. LeakInv /\ [Next]_vars => TableInv' /\ Owned'
  BY <1>1, TableBroker, TableAgent, TableReaper, TableTick, OwnedStep
  DEF LeakInv, TableInv, SteadyInv, ProvisionInv, Next
<1> QED
  BY <1>2, <1>3, <1>4, PTL DEF Spec, LeakInv

\* With failures of the harmless kinds only, and the heartbeat off, no running task is
\* lost: it is in the hands of provision_task or named by the row of its session,
\* however the broker, the two passes of the reaper and the clock interleave.
THEOREM NothingLeaks ==
    ASSUME HarmlessFaults
    PROVE  Spec => []NoLeak
BY LeakInvariance, PTL DEF LeakInv

-----------------------------------------------------------------------------
(* Orphans, whatever fails but the scan itself.                             *)

Unmapped(t) == MappedTo(t) = {}

\* A route written since the scan names a task as young as a provisioning and the
\* time since allow.
YoungRouted ==
    rpc # "idle" =>
        \A t \in Task : Routed(t) /\ Unmapped(t) => age[t] <= 2 * ProvisionTimeout + rclock

ListedRouted ==
    \A x \in listed : Routed(x[1]) /\ Unmapped(x[1]) => x[2] < OrphanGrace

VictimUnrouted == rpc = "stop2" /\ Unmapped(rvictim) => ~Routed(rvictim)

OrphanInv == ProvisionInv /\ YoungRouted /\ ListedRouted /\ VictimUnrouted

\* With no new name in the table, a task that is routed was.
LEMMA RoutedBefore ==
    ASSUME NoNewName, NEW t \in Task, Routed(t)'
    PROVE  Routed(t)
BY NoneAssumption DEF NoNewName, Routed, Hit, HasRow

LEMMA OrphanFrame ==
    ASSUME OrphanInv, ProvisionInv', NoNewName,
           \A t \in Task : age'[t] <= age[t],
           UNCHANGED <<rpc, rows, rvictim, listed, rclock>>
    PROVE  OrphanInv'
<1>0. /\ age \in [Task -> 0..MaxAge] /\ age' \in [Task -> 0..MaxAge]
      /\ rclock \in Nat /\ listed \subseteq Task \X (0..MaxAge)
      /\ rpc = "stop2" => rvictim \in Task
  BY TimingAssumption
  DEF OrphanInv, ProvisionInv, TypeInv, TypeOK, TypeTasks, TypeReaper, ReaperControl
<1>1. \A t \in Task : Unmapped(t)' <=> Unmapped(t)
  BY DEF Unmapped, MappedTo, HasRow
<1>2. YoungRouted'
  BY <1>0, <1>1, RoutedBefore, TimingAssumption DEF OrphanInv, YoungRouted
<1>3. ListedRouted'
  BY <1>0, <1>1, RoutedBefore DEF OrphanInv, ListedRouted
<1>4. VictimUnrouted'
  BY <1>0, <1>1, RoutedBefore DEF OrphanInv, VictimUnrouted
<1> QED
  BY <1>2, <1>3, <1>4 DEF OrphanInv

LEMMA OrphanInit == Init => OrphanInv
BY ProvisionInit DEF Init, OrphanInv, YoungRouted, ListedRouted, VictimUnrouted

LEMMA OrphanBroker ==
    ASSUME OrphanInv, BrokerNext
    PROVE  OrphanInv'
<1>0. ProvisionInv' /\ ProvisionInv /\ TypeBroker /\ TypeTasks /\ TypeRoutes /\ TypeReaper
  BY ProvisionBroker DEF OrphanInv, ProvisionInv, TypeInv, TypeOK
<1>1. UNCHANGED <<age, reaperVars>>
  BY DEF BrokerNext, BrokerStep, Connect, AcquireLock, ResolveRoute, RunTask, RunTaskFails,
    GotAddress, NoAddress, HealthGreen, NeverGreen, WriteRoute, Abandon, Dial, DialFails,
    DialAnother,
    ClientLeaves, UpstreamCloses, BrokerRestarts, ecsVars, notBroker
<1>2. CASE UNCHANGED route
  <2>1. NoNewName
    BY <1>2 DEF NoNewName, Hit, HasRow
  <2> QED
    BY <1>0, <1>1, <2>1, OrphanFrame, TimingAssumption DEF reaperVars, TypeTasks
<1>3. ASSUME NEW c \in Sock, WriteRoute(c), route' # route PROVE OrphanInv'
  <2>1. /\ route' = [route EXCEPT ![SessionOf(c)] = RouteItem(dest[c])]
        /\ InHand(c) /\ pc[c] = "write" /\ dest[c] \in Task
    BY <1>0, <1>3 DEF WriteRoute, InHand, ProvisionInv, OwnTask, Provisioning
  <2>2. ASSUME NEW t \in Task, t # dest[c], Routed(t)' PROVE Routed(t)
    BY <1>0, <2>1, <2>2 DEF Routed, HasRow, RouteItem, TypeRoutes
  <2>3. age[dest[c]] <= 2 * ProvisionTimeout
    BY <1>0, <2>1, TimingAssumption DEF ProvisionInv, YoungTask, TypeBroker, TypeTasks
  <2>4. \A t \in Task : Unmapped(t)' <=> Unmapped(t)
    BY <1>1 DEF Unmapped, MappedTo, HasRow, reaperVars
  <2>5. YoungRouted'
    BY <1>0, <1>1, <2>1, <2>2, <2>3, <2>4, TimingAssumption
    DEF OrphanInv, YoungRouted, reaperVars, TypeTasks, TypeReaper
  <2>6. ListedRouted'
    BY <1>0, <1>1, <2>1, <2>2, <2>4
    DEF OrphanInv, ListedRouted, ProvisionInv, ListedYoung, reaperVars, TypeReaper
  <2>7. VictimUnrouted'
    <3>1. rpc = "stop2" => rvictim \in Task /\ rvictim # dest[c]
      BY <1>0, <2>1
      DEF ProvisionInv, ProvisionSafe, AboutToStop, Provisioning, TypeInv, ReaperControl
    <3> QED
      BY <1>1, <2>2, <2>4, <3>1 DEF OrphanInv, VictimUnrouted, reaperVars
  <2> QED
    BY <1>0, <2>5, <2>6, <2>7 DEF OrphanInv
<1> QED
  BY <1>2, <1>3 DEF BrokerNext, BrokerStep, Connect, AcquireLock, ResolveRoute, RunTask,
    RunTaskFails, GotAddress, NoAddress, HealthGreen, NeverGreen, Abandon, Dial, DialFails,
    DialAnother,
    ClientLeaves, UpstreamCloses, BrokerRestarts

LEMMA OrphanAgent ==
    ASSUME OrphanInv, AgentNext
    PROVE  OrphanInv'
<1>0. ProvisionInv' /\ TypeTasks /\ NoNewName
  BY ProvisionAgent, AgentNames DEF OrphanInv, ProvisionInv, TypeInv, TypeOK
<1>1. UNCHANGED reaperVars
  BY DEF AgentNext, AgentStep, TaskStarts, StopCompletes, TaskCrashes, StartTurn, StartSolve,
    FinishTurn, IdleExit, Heartbeat, RowLost, JobEnds, notAgent
<1>2. \A t \in Task : age'[t] <= age[t]
  <2>1. UNCHANGED age \/ \E t \in Task : Gone(t)
    BY DEF AgentNext, AgentStep, TaskStarts, StopCompletes, TaskCrashes, StartTurn, StartSolve,
      FinishTurn, IdleExit, Heartbeat, RowLost, JobEnds, ecsVars
  <2> QED
    BY <1>0, <2>1, TimingAssumption DEF TypeTasks, Gone
<1> QED
  BY <1>0, <1>1, <1>2, OrphanFrame DEF reaperVars

LEMMA OrphanTick ==
    ASSUME OrphanInv, Tick
    PROVE  OrphanInv'
<1>0. /\ ProvisionInv' /\ NoNewName /\ TypeTasks /\ TypeReaper
      /\ rpc = "stop2" => rvictim \in Task
  BY ProvisionTick, TickNames DEF OrphanInv, ProvisionInv, TypeInv, TypeOK, ReaperControl
<1>1. \A t \in Task : Unmapped(t)' <=> Unmapped(t)
  BY DEF Unmapped, MappedTo, HasRow, Tick
<1>2. YoungRouted'
  BY <1>0, <1>1, RoutedBefore, TimingAssumption
  DEF OrphanInv, YoungRouted, Tick, Older, TypeTasks, TypeReaper
<1>3. ListedRouted'
  BY <1>0, <1>1, RoutedBefore DEF OrphanInv, ListedRouted, Tick, TypeReaper
<1>4. VictimUnrouted'
  BY <1>0, <1>1, RoutedBefore DEF OrphanInv, VictimUnrouted, Tick
<1> QED
  BY <1>0, <1>2, <1>3, <1>4 DEF OrphanInv

LEMMA OrphanReaper ==
    ASSUME OrphanInv, "scan" \notin Faults, ReaperNext \/ LambdaTimeout
    PROVE  OrphanInv'
<1>0. /\ ProvisionInv' /\ TypeInv' /\ NoNewName /\ TypeTasks /\ TypeReaper /\ TypeRoutes
      /\ ReaperControl
  BY ProvisionReaper, ReaperNames DEF OrphanInv, ProvisionInv, TypeInv, TypeOK
<1>1. UNCHANGED age
  BY DEF ReaperNext, ScanRoutes, DescribeTask, JudgeRow, WriteStreak, StopIdleTask, DropRoute,
    NextRow, ListTasks, JudgeTask, StopJudgedTask, DropJudgedRoute, Finish, LambdaTimeout, Reset,
    notReaper
<1>2. CASE ScanRoutes
  <2>1. rows' = route /\ route' = route /\ listed' = {} /\ rpc' = "pass1"
    BY <1>0, <1>2 DEF ScanRoutes, Fault, RGoto, ReaperControl
  <2>2. \A t \in Task : ~(Routed(t)' /\ Unmapped(t)')
    BY <2>1 DEF Routed, Unmapped, MappedTo, HasRow
  <2> QED
    BY <1>0, <2>1, <2>2 DEF OrphanInv, YoungRouted, ListedRouted, VictimUnrouted
<1>3. CASE Finish \/ LambdaTimeout
  BY <1>0, <1>3 DEF Finish, LambdaTimeout, Reset, RGoto, OrphanInv, YoungRouted, ListedRouted,
    VictimUnrouted
<1>4. CASE ~ScanRoutes /\ ~Finish /\ ~LambdaTimeout
  <2>1. UNCHANGED <<rows, rclock>> /\ rpc # "idle"
    BY <1>4 DEF ReaperNext, DescribeTask, JudgeRow, WriteStreak, StopIdleTask, DropRoute,
      NextRow, ListTasks, JudgeTask, StopJudgedTask, DropJudgedRoute
  <2>2. \A t \in Task : Unmapped(t)' <=> Unmapped(t)
    BY <2>1 DEF Unmapped, MappedTo, HasRow
  <2>3. YoungRouted'
    BY <1>0, <1>1, <2>1, <2>2, RoutedBefore DEF OrphanInv, YoungRouted
  <2>4. ListedRouted'
    <3>1. CASE ListTasks
      <4>1. \A x \in listed' : x[1] \in Task /\ x[2] = age[x[1]]
        BY <3>1 DEF ListTasks
      <4> QED
        BY <1>0, <2>1, <2>2, <4>1, RoutedBefore, TimingAssumption
        DEF OrphanInv, YoungRouted, ListedRouted, TypeTasks, TypeReaper
    <3>2. CASE ~ListTasks
      <4>1. listed' \subseteq listed
        BY <1>4, <3>2 DEF ReaperNext, DescribeTask, JudgeRow, WriteStreak, StopIdleTask,
          DropRoute, NextRow, JudgeTask, StopJudgedTask, DropJudgedRoute
      <4> QED
        BY <1>0, <2>2, <4>1, RoutedBefore DEF OrphanInv, ListedRouted, TypeReaper
    <3> QED
      BY <3>1, <3>2
  <2>5. VictimUnrouted'
    <3>1. CASE JudgeTask
      <4> SUFFICES ASSUME rpc' = "stop2", Unmapped(rvictim)' PROVE ~Routed(rvictim)'
        BY DEF VictimUnrouted
      <4>1. PICK x \in listed : /\ rvictim' = x[1]
                                /\ \E busy : ShouldStop(x[2], MappedTo(x[1]) # {}, busy)
        BY <3>1 DEF JudgeTask
      <4>2. x[1] \in Task /\ x[2] \in 0..MaxAge
        BY <1>0 DEF TypeReaper
      <4>3. Unmapped(x[1]) /\ x[2] >= OrphanGrace
        BY <2>2, <4>1, <4>2, TimingAssumption DEF ShouldStop, Unmapped
      <4>4. ~Routed(x[1])
        BY <4>2, <4>3, TimingAssumption DEF OrphanInv, ListedRouted
      <4> QED
        BY <1>0, <4>1, <4>2, <4>4, RoutedBefore
    <3>2. CASE ~JudgeTask
      BY <1>4, <3>2 DEF VictimUnrouted, RGoto, ReaperNext, DescribeTask, JudgeRow, WriteStreak,
        StopIdleTask, DropRoute, NextRow, ListTasks, StopJudgedTask, DropJudgedRoute
    <3> QED
      BY <3>1, <3>2
  <2> QED
    BY <1>0, <2>3, <2>4, <2>5 DEF OrphanInv
<1> QED
  BY <1>2, <1>3, <1>4

LEMMA OrphanStutter ==
    ASSUME OrphanInv, UNCHANGED vars
    PROVE  OrphanInv'
<1>1. ProvisionInv' /\ NoNewName /\ age \in [Task -> 0..MaxAge]
  BY ProvisionStutter, TickNames DEF OrphanInv, ProvisionInv, TypeInv, TypeOK, TypeTasks
<1> QED
  BY <1>1, OrphanFrame, TimingAssumption DEF vars, ecsVars, reaperVars

\* As long as the scan of the table is complete, and whatever else fails, pass 2 takes
\* no routed task for an orphan although it judges against rows read minutes ago: a
\* route that is not in the scan was written since, and its task is then younger than
\* ORPHAN_GRACE_SECONDS. Run scan_error shows that the hypothesis is needed.
THEOREM OrphansAreOrphans ==
    ASSUME "scan" \notin Faults
    PROVE  Spec => []OrphanIsOrphan
<1>1. OrphanInv /\ [Next]_vars => OrphanInv'
  BY OrphanBroker, OrphanAgent, OrphanReaper, OrphanTick, OrphanStutter DEF Next
<1>2. OrphanInv => OrphanIsOrphan
  BY DEF OrphanInv, VictimUnrouted, Unmapped, OrphanIsOrphan
<1> QED
  BY <1>1, <1>2, OrphanInit, PTL DEF Spec

-----------------------------------------------------------------------------
(* Work, under the same hypothesis.                                         *)

\* Who is in longWork has been busy all the time since the scan.
LongIsBusy == \A t \in longWork : Busy(t)

VictimIdle ==
    /\ rpc = "stop1" => rvictim \notin longWork
    /\ rpc = "stop2" /\ ~Unmapped(rvictim) => rvictim \notin longWork

WorkInv == OrphanInv /\ LongIsBusy /\ VictimIdle

LEMMA OrphanStep ==
    ASSUME OrphanInv, "scan" \notin Faults, [Next]_vars
    PROVE  OrphanInv'
BY OrphanBroker, OrphanAgent, OrphanReaper, OrphanTick, OrphanStutter DEF Next

\* An idle verdict is never a guess: what cannot be read counts as busy.
LEMMA IdleIsRead ==
    ASSUME NEW t, FALSE \in Probe(t)
    PROVE  ~Busy(t)
BY DEF Probe, Busy

LEMMA IdleVerdict ==
    ASSUME NEW s, FALSE \in BusyVerdicts(s)
    PROVE  ~Busy(rows[s].arn)
BY IdleIsRead DEF BusyVerdicts, HeartbeatBusy, HbBusyFlag, Probe

LEMMA WorkBroker ==
    ASSUME WorkInv, BrokerNext \/ Tick \/ UNCHANGED vars
    PROVE  LongIsBusy' /\ VictimIdle'
<1>1. UNCHANGED <<work, longWork, rpc, rows, rvictim>>
  BY DEF BrokerNext, BrokerStep, Connect, AcquireLock, ResolveRoute, RunTask, RunTaskFails,
    GotAddress, NoAddress, HealthGreen, NeverGreen, WriteRoute, Abandon, Dial, DialFails,
    DialAnother,
    ClientLeaves, UpstreamCloses, BrokerRestarts, Tick, vars, ecsVars, reaperVars, history,
    notBroker
<1> QED
  BY <1>1 DEF WorkInv, LongIsBusy, VictimIdle, Busy, Unmapped, MappedTo, HasRow

LEMMA WorkAgent ==
    ASSUME WorkInv, AgentNext
    PROVE  LongIsBusy' /\ VictimIdle'
<1>0. TypeTasks /\ longWork \subseteq Task
  BY DEF WorkInv, OrphanInv, ProvisionInv, TypeInv, TypeOK
<1>1. UNCHANGED <<rpc, rows, rvictim>> /\ longWork' \subseteq longWork
  BY DEF AgentNext, AgentStep, TaskStarts, StopCompletes, TaskCrashes, StartTurn, StartSolve,
    FinishTurn, IdleExit, Heartbeat, RowLost, JobEnds, Gone, notAgent, reaperVars, history
<1>2. VictimIdle'
  BY <1>1 DEF WorkInv, VictimIdle, Unmapped, MappedTo, HasRow
<1>3. LongIsBusy'
  <2>1. ASSUME NEW t \in Task, StartTurn(t) \/ StartSolve(t) \/ FinishTurn(t) PROVE LongIsBusy'
    BY <1>0, <2>1 DEF WorkInv, LongIsBusy, Busy, StartTurn, StartSolve, FinishTurn, TypeTasks,
      history
  <2>2. ASSUME NEW t \in Task, Gone(t) PROVE LongIsBusy'
    BY <1>0, <2>2 DEF WorkInv, LongIsBusy, Busy, Gone, TypeTasks
  <2>3. CASE UNCHANGED <<work, longWork>>
    BY <2>3 DEF WorkInv, LongIsBusy, Busy
  <2> QED
    BY <2>1, <2>2, <2>3 DEF AgentNext, AgentStep, TaskStarts, StopCompletes, TaskCrashes,
      IdleExit, Heartbeat, RowLost, JobEnds, ecsVars, history
<1> QED
  BY <1>2, <1>3

LEMMA WorkReaper ==
    ASSUME WorkInv, ReaperNext \/ LambdaTimeout
    PROVE  LongIsBusy' /\ VictimIdle'
<1>0. UNCHANGED work
  BY DEF ReaperNext, ScanRoutes, DescribeTask, JudgeRow, WriteStreak, StopIdleTask, DropRoute,
    NextRow, ListTasks, JudgeTask, StopJudgedTask, DropJudgedRoute, Finish, LambdaTimeout, Reset,
    notReaper
<1>1. CASE ScanRoutes
  BY <1>0, <1>1 DEF ScanRoutes, LongIsBusy, VictimIdle, Busy, RGoto
<1>2. CASE JudgeRow
  <2>1. rpc' = "stop1" => rvictim' = rows[rcur].arn /\ FALSE \in BusyVerdicts(rcur)
    BY <1>2 DEF JudgeRow, RGoto, BusyVerdicts, Probe, HeartbeatBusy, HbBusyFlag, Busy
  <2>2. rpc' # "stop2" /\ longWork' = longWork
    BY <1>2 DEF JudgeRow, RGoto
  <2> QED
    BY <1>0, <2>1, <2>2, IdleVerdict DEF WorkInv, LongIsBusy, VictimIdle, Busy
<1>3. CASE JudgeTask
  <2>1. longWork' = longWork /\ rows' = rows
    BY <1>3 DEF JudgeTask, history
  <2>2. rpc' \in {"pass2", "stop2"}
    BY <1>3 DEF JudgeTask, RGoto
  <2> SUFFICES ASSUME rpc' = "stop2", ~Unmapped(rvictim)' PROVE rvictim' \notin longWork
    BY <1>0, <2>1, <2>2 DEF WorkInv, LongIsBusy, VictimIdle, Busy
  <2>3. PICK x \in listed :
            /\ rvictim' = x[1]
            /\ \E busy \in IF NeedProbe(x[2], ~Unmapped(x[1])) THEN Probe(x[1]) ELSE {FALSE} :
                  ShouldStop(x[2], ~Unmapped(x[1]), busy)
    BY <1>3 DEF JudgeTask, Unmapped
  <2>4. ~Unmapped(x[1])
    BY <2>1, <2>3 DEF Unmapped, MappedTo, HasRow
  <2>5. FALSE \in Probe(x[1])
    BY <2>3, <2>4 DEF ShouldStop, NeedProbe, Probe, Busy
  <2> QED
    BY <2>3, <2>5, IdleIsRead DEF WorkInv, LongIsBusy
<1>4. CASE Finish \/ LambdaTimeout
  BY <1>4 DEF Finish, LambdaTimeout, Reset, RGoto, LongIsBusy, VictimIdle
<1>5. CASE ~ScanRoutes /\ ~JudgeRow /\ ~JudgeTask /\ ~Finish /\ ~LambdaTimeout
  BY <1>0, <1>5 DEF ReaperNext, DescribeTask, WriteStreak, StopIdleTask, DropRoute, NextRow,
    ListTasks, StopJudgedTask, DropJudgedRoute, RGoto, WorkInv, LongIsBusy, VictimIdle, Busy,
    history
<1> QED
  BY <1>1, <1>2, <1>3, <1>4, <1>5

\* As long as the scan of the table is complete, and whatever else fails, the reaper
\* never ends work that was in flight when it scanned and still is, on a task a route
\* names: pass 1 and the max-age rule act on an idle answer only, and no answer reads
\* as busy; the orphan rule never meets a routed task.
THEOREM WorkSurvives ==
    ASSUME "scan" \notin Faults
    PROVE  Spec => RoutedWorkSurvives
<1>1. Init => WorkInv
  BY OrphanInit DEF Init, WorkInv, LongIsBusy, VictimIdle
<1>2. WorkInv /\ [Next]_vars => WorkInv'
  BY OrphanStep, WorkBroker, WorkAgent, WorkReaper DEF WorkInv, Next
<1>3. WorkInv => \A t \in Task : ReaperStops(t) /\ Routed(t) => t \notin longWork
  BY DEF WorkInv, OrphanInv, VictimUnrouted, VictimIdle, ReaperStops, AboutToStop
<1>4. WorkInv /\ [Next]_vars => [\A t \in Task : ReaperStops(t) /\ Routed(t) => t \notin longWork]_vars
  BY <1>3
<1> QED
  BY <1>1, <1>2, <1>4, PTL DEF Spec, RoutedWorkSurvives

-----------------------------------------------------------------------------
(* The streak, when what the reaper writes arrives.                         *)

\* No write of a streak fails, and no invocation is killed between a busy verdict and
\* the write of it. The rows are steady; the heartbeat may write them as well.
StreakFaults == SteadyFaults /\ Faults \cap {"streak", "lambda"} = {}

Names(r, s, t) == HasRow(r, s) /\ r[s].arn = t

OneName(r) ==
    \A s, u \in Session, t \in Task : Names(r, s, t) /\ Names(r, u, t) => s = u

\* The row of s is about to be written with a streak of 0.
JustBusy(s) == rpc = "busy" /\ rcur = s

EarnedRoute ==
    \A s \in Session :
        Hit(s) /\ ~JustBusy(s) => route[s].streak <= polls[route[s].arn]

EarnedScan ==
    \A s \in todo :
        /\ rows[s].arn # None
        /\ rpc \in {"pass1", "health"} \/ rcur # s
        => rows[s].streak <= polls[rows[s].arn]

Counted ==
    /\ rpc = "idlepoll" => rows[rcur].streak + 1 <= polls[rows[rcur].arn]
    /\ rpc = "stop1" => polls[rvictim] >= IdleThreshold

StreakInv == OneName(route) /\ OneName(rows) /\ EarnedRoute /\ EarnedScan /\ Counted

\* No row gains a name, and no streak of a named row changes.
LEMMA StreakFrame ==
    ASSUME TypeRoutes, StreakInv, UNCHANGED <<rpc, rows, todo, rcur, rvictim, polls>>,
           \A s \in Session : Hit(s)' =>
              Hit(s) /\ route'[s].arn = route[s].arn /\ route'[s].streak = route[s].streak
    PROVE  StreakInv'
<1>1. OneName(route')
  BY NoneAssumption DEF StreakInv, OneName, Names, Hit, HasRow
<1>2. EarnedRoute'
  BY DEF StreakInv, EarnedRoute, JustBusy
<1> QED
  BY <1>1, <1>2 DEF StreakInv, OneName, Names, EarnedScan, Counted, HasRow

LEMMA StreakBroker ==
    ASSUME StreakFaults, SteadyInv, StreakInv, BrokerNext
    PROVE  StreakInv'
<1>0. /\ route \in [Session -> Row \cup {None}] /\ rows \in [Session -> Row \cup {None}]
      /\ polls \in [Task -> 0..IdleThreshold] /\ todo \subseteq Session
      /\ \A s \in todo : HasRow(rows, s)
  BY DEF SteadyInv, ProvisionInv, TypeInv, TypeOK, TypeRoutes, TypeReaper, ReaperControl
<1> USE DEF reaperVars, history, notBroker
<1>1. ASSUME NEW c \in Sock, RunTask(c) PROVE StreakInv'
  <2>1. PICK t \in Task : Fresh(t) /\ polls' = [polls EXCEPT ![t] = 0]
    BY <1>1 DEF RunTask
  <2>2. /\ \A s \in Session : HasRow(route, s) => route[s].arn # t
        /\ \A s \in Session : HasRow(rows, s) => rows[s].arn # t
        /\ rvictim # t
    BY <2>1 DEF Fresh
  <2>3. rpc = "idlepoll" => rcur \in Session /\ HasRow(rows, rcur)
    BY <1>0 DEF SteadyInv, ProvisionInv, TypeInv, ReaperControl, RowPhase
  <2>4. \A u \in Task : u # t => polls'[u] = polls[u]
    BY <1>0, <2>1
  <2>5. /\ \A s \in Session : Hit(s) => route[s].arn \in Task
        /\ \A s \in todo : rows[s].arn # None => rows[s].arn \in Task
        /\ rpc = "stop1" => rvictim \in Task
        /\ rpc = "idlepoll" => rows[rcur].arn \in Task
    BY <1>0 DEF SteadyInv, ProvisionInv, TypeInv, ReaperControl, RowPhase, Row, Hit, HasRow
  <2>6. UNCHANGED <<route, reaperVars>>
    BY <1>1 DEF RunTask
  <2> QED
    BY <1>0, <2>2, <2>3, <2>4, <2>5, <2>6
    DEF StreakInv, OneName, Names, EarnedRoute, EarnedScan, Counted, JustBusy, Hit, HasRow
<1>2. ASSUME NEW c \in Sock, WriteRoute(c) PROVE StreakInv'
  <2>1. \/ UNCHANGED route
        \/ /\ route' = [route EXCEPT ![SessionOf(c)] = RouteItem(dest[c])]
           /\ Provisioning(c) /\ dest[c] \in Task
    BY <1>2 DEF WriteRoute, SteadyInv, ProvisionInv, OwnTask, Provisioning
  <2>2. UNCHANGED <<rpc, rows, todo, rcur, rvictim, polls>>
    BY <1>2 DEF WriteRoute
  <2>3. CASE UNCHANGED route
    BY <1>0, <2>2, <2>3, StreakFrame DEF TypeRoutes, Hit, HasRow
  <2>4. CASE route' # route
    <3>1. \A s \in Session : HasRow(route, s) => route[s].arn # dest[c]
      BY <2>1, <2>4 DEF SteadyInv, ProvisionInv, UnroutedTask
    <3>2. RouteItem(dest[c]).arn = dest[c] /\ RouteItem(dest[c]).streak = 0
      BY DEF RouteItem
    <3>3. \A s \in Session : route'[s] = IF s = SessionOf(c) THEN RouteItem(dest[c]) ELSE route[s]
      BY <1>0, <2>1, <2>4
    <3>4. OneName(route')
      BY <3>1, <3>2, <3>3 DEF StreakInv, OneName, Names, HasRow
    <3>5. polls[dest[c]] >= 0
      BY <1>0, <2>1, <2>4, ThresholdAssumption
    <3>6. EarnedRoute'
      BY <2>2, <3>2, <3>3, <3>5 DEF StreakInv, EarnedRoute, JustBusy, Hit, HasRow
    <3> QED
      BY <2>2, <3>4, <3>6 DEF StreakInv, OneName, Names, EarnedScan, Counted, HasRow
  <2> QED
    BY <2>3, <2>4
<1>3. CASE UNCHANGED <<route, reaperVars, history>>
  BY <1>0, <1>3, StreakFrame DEF TypeRoutes, Hit, HasRow
<1> QED
  BY <1>1, <1>2, <1>3 DEF BrokerNext, BrokerStep, Connect, AcquireLock, ResolveRoute,
    RunTaskFails, GotAddress, NoAddress, HealthGreen, NeverGreen, Abandon, Dial, DialFails,
    DialAnother,
    ClientLeaves, UpstreamCloses, BrokerRestarts

LEMMA StreakAgent ==
    ASSUME StreakFaults, SteadyInv, StreakInv, AgentNext
    PROVE  StreakInv'
<1>0. TypeRoutes /\ TypeTasks
  BY DEF SteadyInv, ProvisionInv, TypeInv, TypeOK
<1>1. UNCHANGED <<reaperVars, polls>>
  BY DEF AgentNext, AgentStep, TaskStarts, StopCompletes, TaskCrashes, StartTurn, StartSolve,
    FinishTurn, IdleExit, Heartbeat, RowLost, JobEnds, notAgent, history
<1>2. CASE UNCHANGED route
  BY <1>0, <1>1, <1>2, StreakFrame DEF reaperVars, Hit, HasRow
<1>3. ASSUME NEW t \in Task, Heartbeat(t), owner[t] \in Session PROVE StreakInv'
  <2> DEFINE r == [Upserted(owner[t]) EXCEPT !.hb = work[t], !.hbAge = 0]
  <2>1. Upserted(owner[t]) \in Row
    BY <1>0, <1>3, UpsertedIsRow
  <2>2. r.arn = Upserted(owner[t]).arn /\ r.streak = Upserted(owner[t]).streak
    BY <2>1 DEF Row
  <2>3. HasRow(route, owner[t]) \/ Upserted(owner[t]).arn = None
    BY DEF Upserted, RouteItem
  <2>4. HasRow(route, owner[t]) => Upserted(owner[t]) = route[owner[t]]
    BY DEF Upserted
  <2>5. route' = [route EXCEPT ![owner[t]] = r]
    BY <1>3 DEF Heartbeat
  <2>6. \A s \in Session : s # owner[t] => route'[s] = route[s]
    BY <1>0, <2>5 DEF TypeRoutes
  <2>7. route'[owner[t]] = r
    BY <1>0, <1>3, <2>5 DEF TypeRoutes
  <2>8. \A s \in Session : Hit(s)' =>
           Hit(s) /\ route'[s].arn = route[s].arn /\ route'[s].streak = route[s].streak
    BY <2>2, <2>3, <2>4, <2>6, <2>7 DEF Hit, HasRow
  <2> QED
    BY <1>0, <1>1, <2>8, StreakFrame DEF reaperVars
<1>4. ASSUME NEW t \in Task, Heartbeat(t), owner[t] \notin Session PROVE StreakInv'
  BY <1>0, <1>1, <1>4, StreakFrame DEF Heartbeat, TypeRoutes, reaperVars, Hit, HasRow
<1>5. \A s \in Session : ~RowLost(s)
  BY DEF RowLost, StreakFaults, SteadyFaults, Fault
<1> QED
  BY <1>2, <1>3, <1>4, <1>5 DEF AgentNext, AgentStep, TaskStarts, StopCompletes, TaskCrashes,
    StartTurn, StartSolve, FinishTurn, IdleExit, JobEnds, ecsVars

LEMMA StreakTick ==
    ASSUME SteadyInv, StreakInv, Tick \/ UNCHANGED vars
    PROVE  StreakInv'
<1>1. UNCHANGED <<rpc, rows, todo, rcur, rvictim, polls>>
  BY DEF Tick, vars, reaperVars, history
<1>2. ASSUME NEW s \in Session, Hit(s)'
      PROVE  Hit(s) /\ route'[s].arn = route[s].arn /\ route'[s].streak = route[s].streak
  <2>1. CASE UNCHANGED vars
    BY <1>2, <2>1 DEF vars, Hit, HasRow
  <2>2. CASE Tick
    <3>1. HasRow(route, s) /\ route'[s] = [route[s] EXCEPT !.hbAge = Older(route[s].hbAge, HbStale)]
      BY <1>2, <2>2 DEF Tick, Hit, HasRow
    <3>2. route[s] \in Row
      BY <3>1 DEF SteadyInv, ProvisionInv, TypeInv, TypeOK, TypeRoutes, HasRow
    <3> QED
      BY <1>2, <3>1, <3>2 DEF Row, Hit
  <2> QED
    BY <2>1, <2>2
<1> QED
  BY <1>1, <1>2, StreakFrame DEF SteadyInv, ProvisionInv, TypeInv, TypeOK

LEMMA StreakJudge ==
    ASSUME SteadyInv, StreakInv, JudgeRow
    PROVE  StreakInv'
<1> DEFINE t == rows[rcur].arn
<1>0. /\ route \in [Session -> Row \cup {None}] /\ rows \in [Session -> Row \cup {None}]
      /\ polls \in [Task -> 0..IdleThreshold] /\ todo \subseteq Session
      /\ \A s \in todo : HasRow(rows, s)
      /\ rpc = "health" /\ rcur \in todo /\ t \in Task /\ StillThere(rcur)
  BY NoneAssumption DEF SteadyInv, ProvisionInv, TypeInv, TypeOK, TypeRoutes, TypeReaper,
    ReaperControl, RowPhase, SteadyTodo, JudgeRow
<1>1. /\ UNCHANGED <<route, rows, todo, rcur>>
      /\ \/ rpc' = "busy" /\ polls' = [polls EXCEPT ![t] = 0]
         \/ /\ polls' = [polls EXCEPT ![t] = IF @ < IdleThreshold THEN @ + 1 ELSE @]
            /\ \/ rpc' = "stop1" /\ rvictim' = t /\ StreakReached(rcur)
               \/ rpc' = "idlepoll"
  BY DEF JudgeRow, RGoto
<1>2. \A u \in Task : u # t => polls'[u] = polls[u]
  BY <1>0, <1>1
<1>3. /\ \A s \in Session : Hit(s) => route[s].arn \in Task /\ route[s] \in Row
      /\ \A s \in todo : rows[s] \in Row /\ (rows[s].arn # None => rows[s].arn \in Task)
  BY <1>0 DEF Hit, HasRow, Row
<1>4. /\ \A s \in Session : Hit(s) /\ route[s].arn = t => s = rcur
      /\ \A s \in todo : rows[s].arn = t => s = rcur
  BY <1>0 DEF StreakInv, OneName, Names, StillThere, Hit
<1>5. rows[rcur].streak <= polls[t] /\ rows[rcur].streak \in 0..(IdleThreshold - 1)
  BY <1>0, <1>3, NoneAssumption DEF StreakInv, EarnedScan, Row
<1>6. rpc' # "busy" => polls[t] <= polls'[t] /\ rows[rcur].streak + 1 <= polls'[t]
  BY <1>0, <1>1, <1>5, ThresholdAssumption
<1>7. EarnedRoute'
  <2> SUFFICES ASSUME NEW s \in Session, Hit(s), ~JustBusy(s)'
               PROVE  route[s].streak <= polls'[route[s].arn]
    BY <1>1 DEF EarnedRoute, Hit, HasRow
  <2>1. route[s].streak <= polls[route[s].arn] /\ route[s].streak \in Nat
    BY <1>0, <1>3, ThresholdAssumption DEF StreakInv, EarnedRoute, JustBusy, Row
  <2>2. CASE route[s].arn # t
    BY <1>2, <1>3, <2>1, <2>2
  <2>3. CASE route[s].arn = t
    <3>1. rpc' # "busy"
      BY <1>1, <1>4, <2>3 DEF JustBusy
    <3>2. polls[t] \in Nat /\ polls'[t] \in Nat
      BY <1>0, <1>1, <3>1, ThresholdAssumption
    <3> QED
      BY <1>6, <2>1, <2>3, <3>1, <3>2
  <2> QED
    BY <2>2, <2>3
<1>8. EarnedScan'
  BY <1>0, <1>1, <1>2, <1>3, <1>4 DEF StreakInv, EarnedScan
<1>9. Counted'
  <2>1. rpc' = "stop1" => rvictim' = t /\ polls'[t] >= IdleThreshold
    <3> SUFFICES ASSUME rpc' = "stop1" PROVE rvictim' = t /\ polls'[t] >= IdleThreshold
      OBVIOUS
    <3>1. rvictim' = t /\ rows[rcur].streak + 1 >= IdleThreshold
      BY <1>1 DEF StreakReached
    <3>2. polls'[t] \in Nat
      BY <1>0, <1>1, ThresholdAssumption
    <3> QED
      BY <1>5, <1>6, <3>1, <3>2, ThresholdAssumption
  <2> QED
    BY <1>1, <1>6, <2>1 DEF Counted
<1> QED
  BY <1>1, <1>7, <1>8, <1>9 DEF StreakInv, OneName, Names, HasRow

LEMMA StreakWrite ==
    ASSUME StreakFaults, SteadyInv, StreakInv, WriteStreak
    PROVE  StreakInv'
<1>0. /\ route \in [Session -> Row \cup {None}] /\ rows \in [Session -> Row \cup {None}]
      /\ polls \in [Task -> 0..IdleThreshold] /\ todo \subseteq Session
      /\ rcur \in todo /\ StillThere(rcur) /\ route[rcur].arn \in Task
      /\ \A s \in todo : HasRow(rows, s)
      /\ rpc = "idlepoll" => ~StreakReached(rcur)
  BY NoneAssumption DEF SteadyInv, ProvisionInv, TypeInv, TypeOK, TypeRoutes, TypeReaper,
    ReaperControl, RowPhase, SteadyTodo, StillThere, WriteStreak
<1>1. route' = [route EXCEPT ![rcur] = [route[rcur] EXCEPT !.streak = NewStreak]]
  BY <1>0 DEF WriteStreak, Upserted, StillThere, Fault, StreakFaults
<1>2. UNCHANGED <<rows, polls>> /\ rpc' = "pass1" /\ todo' = todo \ {rcur}
  BY DEF WriteStreak, NextRow, RGoto, history
<1>3. route[rcur] \in Row /\ rows[rcur] \in Row
  BY <1>0 DEF HasRow, StillThere
<1>4. NewStreak \in 0..(IdleThreshold - 1) /\ NewStreak <= polls[route[rcur].arn]
  <2>1. CASE rpc = "busy"
    BY <1>0, <2>1, ThresholdAssumption DEF NewStreak
  <2>2. CASE rpc = "idlepoll"
    <3>1. NewStreak = rows[rcur].streak + 1 /\ rows[rcur].streak \in Nat
      BY <1>3, <2>2, ThresholdAssumption DEF NewStreak, Row
    <3> QED
      BY <1>0, <2>2, <3>1, ThresholdAssumption DEF StreakReached, StreakInv, Counted, StillThere
  <2> QED
    BY <2>1, <2>2 DEF WriteStreak
<1>5. /\ route'[rcur] \in Row /\ route'[rcur].arn = route[rcur].arn
      /\ route'[rcur].streak = NewStreak
  BY <1>0, <1>1, <1>3, <1>4 DEF Row
<1>6. \A s \in Session : s # rcur => route'[s] = route[s]
  BY <1>0, <1>1
<1>7. \A s \in Session : \A t : Names(route', s, t) => Names(route, s, t)
  BY <1>0, <1>5, <1>6 DEF HasRow, Names, StillThere
<1>8. OneName(route')
  BY <1>7 DEF StreakInv, OneName
<1>9. EarnedRoute'
  BY <1>0, <1>2, <1>4, <1>5, <1>6 DEF StreakInv, EarnedRoute, JustBusy, Hit, HasRow
<1>10. EarnedScan' /\ Counted'
  BY <1>0, <1>2 DEF StreakInv, EarnedScan, Counted, WriteStreak
<1> QED
  BY <1>2, <1>8, <1>9, <1>10 DEF StreakInv, OneName, Names, HasRow

LEMMA StreakReaper ==
    ASSUME StreakFaults, SteadyInv, StreakInv, ReaperNext \/ LambdaTimeout
    PROVE  StreakInv'
<1>0. /\ route \in [Session -> Row \cup {None}] /\ todo \subseteq Session
      /\ rpc \in RowPhase => rcur \in todo
  BY DEF SteadyInv, ProvisionInv, TypeInv, TypeOK, TypeRoutes, TypeReaper, ReaperControl
<1>1. CASE ScanRoutes
  <2>1. /\ UNCHANGED <<route, polls>> /\ rpc = "idle" /\ rpc' = "pass1"
        /\ \A s \in Session : HasRow(rows', s) => rows'[s] = route[s]
        /\ \A s \in todo' : s \in Session /\ HasRow(rows', s)
    BY <1>1 DEF ScanRoutes, RGoto, HasRow
  <2> QED
    BY <2>1 DEF StreakInv, OneName, Names, EarnedRoute, EarnedScan, Counted, JustBusy, Hit,
      HasRow
<1>2. CASE JudgeRow
  BY <1>2, StreakJudge
<1>3. CASE WriteStreak
  BY <1>3, StreakWrite
<1>4. CASE DropRoute \/ DropJudgedRoute
  <2>1. \A s \in Session : HasRow(route', s) => HasRow(route, s) /\ route'[s] = route[s]
    BY <1>0, <1>4 DEF DropRoute, DropJudgedRoute, Deleted, HasRow
  <2>2. UNCHANGED <<rows, polls>> /\ rpc' \in {"pass1", "pass2"} /\ todo' \subseteq todo
    BY <1>4 DEF DropRoute, DropJudgedRoute, NextRow, RGoto, history
  <2>3. OneName(route')
    BY <2>1 DEF StreakInv, OneName, Names
  <2>4. EarnedRoute'
    BY <1>4, <2>1, <2>2 DEF StreakInv, EarnedRoute, JustBusy, DropRoute, DropJudgedRoute, Hit
  <2>5. EarnedScan'
    BY <1>4, <2>2
    DEF StreakInv, EarnedScan, DropRoute, DropJudgedRoute, NextRow, SteadyInv, ProvisionInv,
      TypeInv, ReaperControl
  <2> QED
    BY <2>2, <2>3, <2>4, <2>5 DEF StreakInv, OneName, Names, Counted, HasRow
<1>5. ASSUME NEW s \in Session, DescribeTask(s) PROVE StreakInv'
  BY <1>0, <1>5 DEF DescribeTask, RGoto, history, StreakInv, OneName, Names, EarnedRoute,
    EarnedScan, Counted, JustBusy, Hit, HasRow
<1>6. CASE StopIdleTask \/ ListTasks \/ JudgeTask \/ StopJudgedTask
  <2>1. UNCHANGED <<route, rows, todo, polls>> /\ rpc' \notin {"idlepoll", "stop1"}
    BY <1>6 DEF StopIdleTask, ListTasks, JudgeTask, StopJudgedTask, RGoto, history
  <2>2. rpc # "busy" /\ (todo # {} => rpc = "stop1" /\ rpc' = "drop" /\ rcur' = rcur)
    BY <1>6 DEF StopIdleTask, ListTasks, JudgeTask, StopJudgedTask, RGoto, SteadyInv,
      ProvisionInv, TypeInv, ReaperControl
  <2>3. EarnedRoute' /\ EarnedScan' /\ Counted'
    BY <2>1, <2>2 DEF StreakInv, EarnedRoute, EarnedScan, Counted, JustBusy, Hit, HasRow
  <2> QED
    BY <2>1, <2>3 DEF StreakInv, OneName, Names, HasRow
<1>7. CASE Finish \/ LambdaTimeout
  <2>1. Reset /\ rpc # "busy"
    BY <1>7 DEF Finish, LambdaTimeout, StreakFaults, Fault
  <2> QED
    BY <2>1 DEF Reset, RGoto, StreakInv, OneName, Names, EarnedRoute, EarnedScan, Counted,
      JustBusy, Hit, HasRow
<1> QED
  BY <1>1, <1>2, <1>3, <1>4, <1>5, <1>6, <1>7 DEF ReaperNext

\* Pass 1 stops a task only on IDLE_THRESHOLD_CHECKS consecutive idle verdicts about
\* that very task, although the count lives in a row that the broker overwrites and is
\* written back from a copy: as long as no GetItem fails, no row is lost by itself, no
\* write of a streak fails and no invocation is killed. The heartbeat, a restart of the
\* broker and every other failure do not add a poll.
THEOREM StreaksAreEarned ==
    ASSUME StreakFaults
    PROVE  Spec => []StreakIsEarned
<1>1. Init => StreakInv
  BY DEF Init, StreakInv, OneName, Names, EarnedRoute, EarnedScan, Counted, Hit, HasRow
<1>2. SteadyInv /\ StreakInv /\ [Next]_vars => StreakInv'
  BY StreakBroker, StreakAgent, StreakTick, StreakReaper DEF Next
<1>3. StreakInv => StreakIsEarned
  BY DEF StreakInv, Counted, StreakIsEarned
<1>4. SteadyFaults
  BY DEF StreakFaults
<1> QED
  BY <1>1, <1>2, <1>3, <1>4, SteadyInvariance, PTL DEF Spec

-----------------------------------------------------------------------------
(* Isolation.                                                               *)

\* Where a coroutine holds the ARN of a task in a local variable.
Holding == {"waitip", "health", "write", "abandon", "dial", "proxy"}

OwnHeld ==
    \A c \in Sock :
        pc[c] \in Holding =>
            /\ dest[c] \in Task
            /\ (pc[c] = "proxy" => "address" \notin Faults)
               => (st[dest[c]] # "gone" => owner[dest[c]] = SessionOf(c))

OwnRouted ==
    \A s \in Session :
        Hit(s) /\ st[route[s].arn] # "gone" => owner[route[s].arn] = s

IsoInv == TypeInv /\ OwnHeld /\ OwnRouted

\* No task appears or changes its owner.
SameTasks == \A t \in Task : st'[t] # "gone" => st[t] # "gone" /\ owner'[t] = owner[t]

\* No coroutine learns of a task.
NoNewHold ==
    \A c \in Sock :
        pc'[c] \in Holding =>
            /\ pc[c] \in Holding /\ dest'[c] = dest[c]
            /\ pc[c] = "proxy" => pc'[c] = "proxy"

LEMMA IsoFrame ==
    ASSUME IsoInv, TypeInv', SameTasks, NoNewName, NoNewHold
    PROVE  IsoInv'
<1>1. OwnHeld'
  <2> SUFFICES ASSUME NEW c \in Sock, pc'[c] \in Holding
               PROVE  /\ dest'[c] \in Task
                      /\ (pc'[c] = "proxy" => "address" \notin Faults)
                         => (st'[dest'[c]] # "gone" => owner'[dest'[c]] = SessionOf(c))
    BY DEF OwnHeld, SessionOf
  <2>1. /\ pc[c] \in Holding /\ dest'[c] = dest[c] /\ dest[c] \in Task
        /\ pc[c] = "proxy" => pc'[c] = "proxy"
    BY DEF IsoInv, OwnHeld, NoNewHold
  <2> QED
    BY <2>1 DEF IsoInv, OwnHeld, SameTasks
<1>2. OwnRouted'
  BY NoneAssumption DEF IsoInv, TypeInv, TypeOK, TypeRoutes, Row, OwnRouted, SameTasks, NoNewName,
    Hit, HasRow
<1> QED
  BY <1>1, <1>2 DEF IsoInv

LEMMA StopKeepsTasks ==
    ASSUME TypeTasks, NEW t \in Task \cup {None}, StopIssued(t), UNCHANGED owner
    PROVE  SameTasks
BY DEF TypeTasks, StopIssued, SameTasks

LEMMA GoneKeepsTasks ==
    ASSUME TypeTasks, NEW t \in Task, Gone(t)
    PROVE  SameTasks
BY DEF TypeTasks, Gone, SameTasks

LEMMA IsoInit == Init => IsoInv
BY InitType DEF Init, IsoInv, OwnHeld, OwnRouted, Holding, Hit, HasRow

LEMMA IsoBroker ==
    ASSUME IsoInv, BrokerNext
    PROVE  IsoInv'
<1>0. TypeInv' /\ TypeTasks /\ TypeBroker /\ TypeRoutes
  BY BrokerType DEF IsoInv, TypeInv, TypeOK
<1> USE DEF TypeTasks, TypeBroker, Goto, Close, StartWait, ecsVars, notBroker, SessionOf
<1>1. ASSUME NEW c \in Sock,
             \/ Connect(c) \/ AcquireLock(c) \/ RunTaskFails(c) \/ GotAddress(c) \/ NoAddress(c)
             \/ HealthGreen(c) \/ NeverGreen(c) \/ Dial(c) \/ DialFails(c)
             \/ ClientLeaves(c) \/ UpstreamCloses(c)
      PROVE IsoInv'
  <2>1. NoNewHold
    BY <1>0, <1>1 DEF NoNewHold, Holding, Connect, AcquireLock, RunTaskFails, GotAddress,
      NoAddress, HealthGreen, NeverGreen, Dial, DialFails, ClientLeaves, UpstreamCloses
  <2>2. UNCHANGED <<st, owner, route>>
    BY <1>1 DEF Connect, AcquireLock, RunTaskFails, GotAddress,
      NoAddress, HealthGreen, NeverGreen, Dial, DialFails, ClientLeaves, UpstreamCloses
  <2> QED
    BY <1>0, <2>1, <2>2, IsoFrame DEF SameTasks, NoNewName, Hit, HasRow
<1>2. ASSUME NEW c \in Sock, ResolveRoute(c) PROVE IsoInv'
  <2>1. UNCHANGED <<st, owner, route>>
    BY <1>2 DEF ResolveRoute
  <2>2. OwnRouted'
    BY <2>1 DEF IsoInv, OwnRouted, Hit, HasRow
  <2>3. Hit(SessionOf(c)) => route[SessionOf(c)].arn \in Task
    BY <1>0, NoneAssumption DEF TypeRoutes, Hit, HasRow, Row, Sock
  <2>4. SessionOf(c) \in Session
    BY DEF Sock
  <2>5. OwnHeld'
    BY <1>0, <1>2, <2>1, <2>3, <2>4 DEF ResolveRoute, IsoInv, OwnHeld, OwnRouted, Holding
  <2> QED
    BY <1>0, <2>2, <2>5 DEF IsoInv
<1>3. ASSUME NEW c \in Sock, RunTask(c) PROVE IsoInv'
  <2>1. PICK t \in Task : /\ Fresh(t)
                          /\ st' = [st EXCEPT ![t] = "pending"]
                          /\ owner' = [owner EXCEPT ![t] = SessionOf(c)]
                          /\ dest' = [dest EXCEPT ![c] = t]
    BY <1>3 DEF RunTask
  <2>2. OwnHeld'
    BY <1>0, <1>3, <2>1 DEF RunTask, Fresh, IsoInv, OwnHeld, Holding
  <2>3. OwnRouted'
    BY <1>0, <1>3, <2>1, NoneAssumption
    DEF RunTask, Fresh, IsoInv, OwnRouted, TypeRoutes, Row, Hit, HasRow
  <2> QED
    BY <1>0, <2>2, <2>3 DEF IsoInv
<1>4. ASSUME NEW c \in Sock, WriteRoute(c) PROVE IsoInv'
  <2>1. UNCHANGED <<st, owner, dest>>
    BY <1>4 DEF WriteRoute
  <2>2. OwnHeld'
    BY <1>0, <1>4, <2>1 DEF WriteRoute, IsoInv, OwnHeld, Holding
  <2>3. OwnRouted'
    <3>1. st[dest[c]] # "gone" => owner[dest[c]] = SessionOf(c)
      BY <1>4 DEF WriteRoute, IsoInv, OwnHeld, Holding
    <3>2. RouteItem(dest[c]).arn = dest[c]
      BY DEF RouteItem
    <3>3. ASSUME NEW s \in Session
          PROVE  route'[s] = route[s] \/ (s = SessionOf(c) /\ route'[s] = RouteItem(dest[c]))
      BY <1>0, <1>4 DEF WriteRoute, TypeRoutes
    <3> QED
      BY <2>1, <3>1, <3>2, <3>3 DEF IsoInv, OwnRouted, Hit, HasRow
  <2> QED
    BY <1>0, <2>2, <2>3 DEF IsoInv
<1>5. ASSUME NEW c \in Sock, Abandon(c) PROVE IsoInv'
  <2>1. SameTasks
    BY <1>0, <1>5, StopKeepsTasks DEF Abandon, SameTasks
  <2>2. NoNewHold /\ NoNewName
    BY <1>0, <1>5 DEF Abandon, NoNewHold, NoNewName, Holding, Hit, HasRow
  <2> QED
    BY <1>0, <2>1, <2>2, IsoFrame
<1>6. ASSUME BrokerRestarts PROVE IsoInv'
  BY <1>0, <1>6, IsoFrame DEF BrokerRestarts, SameTasks, NoNewName, NoNewHold, Holding, Hit, HasRow
\* The only step that brings a socket to a task no row of its session names.
<1>7. ASSUME NEW c \in Sock, DialAnother(c) PROVE IsoInv'
  <2>1. "address" \in Faults /\ UNCHANGED <<st, owner, route>>
    BY <1>7 DEF DialAnother, Fault
  <2>2. OwnHeld'
    BY <1>0, <1>7, <2>1 DEF DialAnother, IsoInv, OwnHeld, Holding
  <2>3. OwnRouted'
    BY <2>1 DEF IsoInv, OwnRouted, Hit, HasRow
  <2> QED
    BY <1>0, <2>2, <2>3 DEF IsoInv
<1> QED
  BY <1>1, <1>2, <1>3, <1>4, <1>5, <1>6, <1>7 DEF BrokerNext, BrokerStep

LEMMA IsoAgent ==
    ASSUME IsoInv, AgentNext
    PROVE  IsoInv'
<1>0. TypeInv' /\ TypeTasks /\ TypeRoutes
  BY AgentType DEF IsoInv, TypeInv, TypeOK
<1> USE DEF ecsVars, brokerVars, notAgent
<1>1. NoNewHold
  BY DEF NoNewHold, AgentNext, AgentStep, TaskStarts, StopCompletes, TaskCrashes, StartTurn,
    StartSolve, FinishTurn, IdleExit, Heartbeat, RowLost, JobEnds
<1>2. SameTasks
  BY <1>0, GoneKeepsTasks DEF TypeTasks, SameTasks, AgentNext, AgentStep, TaskStarts,
    StopCompletes, TaskCrashes, StartTurn, StartSolve, FinishTurn, IdleExit, Heartbeat, RowLost,
    JobEnds
<1>3. NoNewName
  BY AgentNames DEF IsoInv
<1> QED
  BY <1>0, <1>1, <1>2, <1>3, IsoFrame

LEMMA IsoReaper ==
    ASSUME IsoInv, ReaperNext \/ LambdaTimeout
    PROVE  IsoInv'
<1>0. TypeInv' /\ TypeInv /\ TypeTasks /\ TypeRoutes
  BY ReaperType DEF IsoInv, TypeInv, TypeOK
<1> USE DEF brokerVars, notReaper
<1>1. UNCHANGED <<pc, dest, owner>>
  BY DEF ReaperNext, ScanRoutes, DescribeTask, JudgeRow, WriteStreak, StopIdleTask, DropRoute,
    NextRow, ListTasks, JudgeTask, StopJudgedTask, DropJudgedRoute, Finish, LambdaTimeout, Reset
<1>2. SameTasks
  <2>1. CASE StopIdleTask \/ StopJudgedTask
    BY <1>0, <1>1, <2>1, StopKeepsTasks
    DEF StopIdleTask, StopJudgedTask, SameTasks, TypeInv, TypeOK, TypeReaper
  <2>2. CASE ~StopIdleTask /\ ~StopJudgedTask
    BY <1>1, <2>2 DEF SameTasks, ReaperNext, ScanRoutes, DescribeTask, JudgeRow, WriteStreak,
      DropRoute, NextRow, ListTasks, JudgeTask, DropJudgedRoute, Finish, LambdaTimeout, Reset
  <2> QED
    BY <2>1, <2>2
<1>3. NoNewName
  BY ReaperNames DEF IsoInv
<1> QED
  BY <1>0, <1>1, <1>2, <1>3, IsoFrame DEF NoNewHold

LEMMA IsoTick ==
    ASSUME IsoInv, Tick \/ UNCHANGED vars
    PROVE  IsoInv'
<1>1. TypeInv' /\ TypeRoutes
  BY TickType, StutterType DEF IsoInv, TypeInv, TypeOK
<1>2. NoNewName
  BY TickNames DEF IsoInv
<1>3. SameTasks /\ NoNewHold
  BY DEF Tick, SameTasks, NoNewHold, vars, ecsVars, brokerVars
<1> QED
  BY <1>1, <1>2, <1>3, IsoFrame

LEMMA IsoInvariance == Spec => []IsoInv
<1>1. IsoInv /\ [Next]_vars => IsoInv'
  BY IsoBroker, IsoAgent, IsoReaper, IsoTick DEF Next
<1> QED
  BY <1>1, IsoInit, PTL DEF Spec

\* As long as no private address is given to another task (the broker dials the
\* address in the row, not the ARN), whatever else fails, as often as it likes, a
\* socket is never connected to the task of another session: not through a row that
\* outlived its task, not through one that a heartbeat or the reaper wrote again, and
\* not across a broker restart.
THEOREM Isolated ==
    ASSUME "address" \notin Faults
    PROVE  Spec => []Isolation
<1>1. IsoInv => Isolation
  BY DEF IsoInv, OwnHeld, Holding, Isolation
<1> QED
  BY <1>1, IsoInvariance, PTL

\* Whatever fails, a row names no task of another session: an ARN is issued once, and
\* _write_route and the heartbeat write only the row of the session that owns it.
\* Only the dial of an address that was given away leaves the session.
THEOREM RowsAreOwn == Spec => []OwnRouted
BY IsoInvariance, PTL DEF IsoInv

-----------------------------------------------------------------------------
(* Convergence: who is at a task that stays up is where the row points.     *)

\* The put of a route succeeds and no address is given away, on top of the failures
\* under which no row of a task that stays up is dropped. The broker may restart and
\* leak what it was starting.
NamedFaults == TableFaults /\ Faults \cap {"putroute", "address"} = {}

\* Where a coroutine connects, or is connected, to the task it holds.
AtTask == {"dial", "proxy"}

HeldNamed ==
    \A c \in Sock :
        pc[c] \in AtTask /\ Active(dest[c]) =>
            Hit(SessionOf(c)) /\ route[SessionOf(c)].arn = dest[c]

HeldInv == TableInv /\ IsoInv /\ HeldNamed

\* No socket comes to a task, no task starts, and names stay.
LEMMA HeldFrame ==
    ASSUME IsoInv, HeldNamed, SameNames,
           \A t \in Task : Active(t)' => Active(t),
           \A c \in Sock : pc'[c] \in AtTask => pc[c] \in AtTask /\ dest'[c] = dest[c]
    PROVE  HeldNamed'
<1> SUFFICES ASSUME NEW c \in Sock, pc'[c] \in AtTask, Active(dest[c])'
             PROVE  (Hit(SessionOf(c)) /\ route[SessionOf(c)].arn = dest[c])'
  BY DEF HeldNamed
<1>1. pc[c] \in AtTask /\ dest'[c] = dest[c] /\ dest[c] \in Task
  BY DEF IsoInv, OwnHeld, AtTask, Holding
<1>2. Active(dest[c])
  BY <1>1 DEF Active
<1>3. SessionOf(c)' = SessionOf(c) /\ SessionOf(c) \in Session
  BY DEF SessionOf, Sock
<1> QED
  BY <1>1, <1>2, <1>3 DEF HeldNamed, SameNames

LEMMA HeldBroker ==
    ASSUME NamedFaults, HeldInv, BrokerNext
    PROVE  HeldNamed'
<1>0. /\ IsoInv /\ HeldNamed /\ TypeBroker /\ TypeTasks /\ TypeRoutes /\ NoNameYet
      /\ OwnHeld /\ OwnTask
  BY DEF HeldInv, TableInv, SteadyInv, ProvisionInv, TypeInv, TypeOK, IsoInv
<1> USE DEF Goto, Close, StartWait, ecsVars, notBroker
<1>1. ASSUME NEW c \in Sock,
             \/ Connect(c) \/ AcquireLock(c) \/ RunTaskFails(c)
             \/ GotAddress(c) \/ NoAddress(c) \/ HealthGreen(c) \/ NeverGreen(c)
             \/ Dial(c) \/ DialFails(c) \/ ClientLeaves(c) \/ UpstreamCloses(c)
      PROVE  HeldNamed'
  <2>1. UNCHANGED <<st, route>>
    BY <1>1 DEF Connect, AcquireLock, RunTaskFails, GotAddress, NoAddress,
      HealthGreen, NeverGreen, Dial, DialFails, ClientLeaves, UpstreamCloses
  <2>2. \A d \in Sock : pc'[d] \in AtTask => pc[d] \in AtTask /\ dest'[d] = dest[d]
    BY <1>0, <1>1 DEF TypeBroker, AtTask, Connect, AcquireLock, RunTaskFails, GotAddress,
      NoAddress, HealthGreen, NeverGreen, Dial, DialFails, ClientLeaves, UpstreamCloses
  <2> QED
    BY <1>0, <2>1, <2>2, HeldFrame DEF Active, SameNames, Hit, HasRow
<1>2. ASSUME NEW c \in Sock, ResolveRoute(c) PROVE HeldNamed'
  <2>1. UNCHANGED <<st, route>> /\ SessionOf(c) \in Session
    BY <1>2 DEF ResolveRoute, Sock, SessionOf
  <2>2. /\ pc'[c] \in AtTask => Hit(SessionOf(c)) /\ dest'[c] = route[SessionOf(c)].arn
        /\ \A d \in Sock : d # c => pc'[d] = pc[d] /\ dest'[d] = dest[d]
    BY <1>0, <1>2 DEF ResolveRoute, TypeBroker, AtTask
  <2> QED
    BY <1>0, <2>1, <2>2 DEF HeldNamed, Active, Hit, HasRow, SessionOf
<1>3. ASSUME NEW c \in Sock, RunTask(c) PROVE HeldNamed'
  <2>1. PICK t \in Task :
           /\ Fresh(t)
           /\ st' = [st EXCEPT ![t] = "pending"]
           /\ dest' = [dest EXCEPT ![c] = t]
    BY <1>3 DEF RunTask
  <2>2. pc' = [pc EXCEPT ![c] = "waitip"] /\ UNCHANGED route
    BY <1>3 DEF RunTask
  <2> SUFFICES ASSUME NEW d \in Sock, pc'[d] \in AtTask, Active(dest[d])'
               PROVE  (Hit(SessionOf(d)) /\ route[SessionOf(d)].arn = dest[d])'
    BY DEF HeldNamed
  <2>3. d # c /\ pc[d] \in AtTask /\ dest'[d] = dest[d] /\ dest[d] # t /\ dest[d] \in Task
    BY <1>0, <2>1, <2>2 DEF TypeBroker, AtTask, Fresh, OwnHeld, Holding
  <2>4. Active(dest[d])
    BY <1>0, <2>1, <2>3 DEF Active, TypeTasks
  <2> QED
    BY <1>0, <2>2, <2>3, <2>4 DEF HeldNamed, Hit, HasRow, SessionOf
<1>4. ASSUME NEW c \in Sock, WriteRoute(c) PROVE HeldNamed'
  <2>1. /\ SessionOf(c) \in Session /\ dest[c] \in Task /\ pc[c] = "write"
        /\ pc' = [pc EXCEPT ![c] = "dial"]
        /\ route' = [route EXCEPT ![SessionOf(c)] = RouteItem(dest[c])]
        /\ UNCHANGED <<dest, st>>
    BY <1>0, <1>4 DEF WriteRoute, Sock, SessionOf, OwnTask, Provisioning, Fault, NamedFaults
  <2>2. /\ RouteItem(dest[c]) # None /\ RouteItem(dest[c]).arn = dest[c] /\ dest[c] # None
    BY <2>1, RouteItemIsRow, NoneAssumption DEF RouteItem
  <2>3. ~Hit(SessionOf(c))
    BY <1>0, <2>1 DEF NoNameYet, Provisioning
  <2> SUFFICES ASSUME NEW d \in Sock, pc'[d] \in AtTask, Active(dest[d])'
               PROVE  (Hit(SessionOf(d)) /\ route[SessionOf(d)].arn = dest[d])'
    BY DEF HeldNamed
  <2>4. CASE d = c
    BY <1>0, <2>1, <2>2, <2>4 DEF TypeRoutes, Hit, HasRow, SessionOf
  <2>5. CASE d # c
    <3>1. pc[d] \in AtTask /\ Active(dest[d])
      BY <1>0, <2>1, <2>5 DEF TypeBroker, Active
    <3>2. Hit(SessionOf(d)) /\ route[SessionOf(d)].arn = dest[d] /\ SessionOf(d) # SessionOf(c)
      BY <1>0, <2>3, <3>1 DEF HeldNamed
    <3> QED
      BY <1>0, <2>1, <3>2 DEF TypeRoutes, Hit, HasRow, SessionOf, Sock
  <2> QED
    BY <2>4, <2>5
<1>5. ASSUME NEW c \in Sock, Abandon(c) PROVE HeldNamed'
  <2>1. /\ pc' = [pc EXCEPT ![c] = "closed"]
        /\ dest' = [dest EXCEPT ![c] = None]
        /\ UNCHANGED route
        /\ st' = st \/ (StopIssued(dest[c]) /\ dest[c] \in Task)
    BY <1>0, <1>5 DEF Abandon, OwnTask, Provisioning
  <2>2. \A t \in Task : Active(t)' => Active(t)
    BY <1>0, <2>1 DEF StopIssued, Active, TypeTasks
  <2>3. \A d \in Sock : pc'[d] \in AtTask => pc[d] \in AtTask /\ dest'[d] = dest[d]
    BY <1>0, <2>1 DEF TypeBroker, AtTask
  <2> QED
    BY <1>0, <2>1, <2>2, <2>3, HeldFrame DEF SameNames, Hit, HasRow
<1>6. CASE BrokerRestarts
  BY <1>6 DEF BrokerRestarts, HeldNamed, AtTask
<1>7. \A c \in Sock : ~DialAnother(c)
  BY DEF DialAnother, Fault, NamedFaults
<1> QED
  BY <1>1, <1>2, <1>3, <1>4, <1>5, <1>6, <1>7 DEF BrokerNext, BrokerStep

LEMMA HeldAgent ==
    ASSUME NamedFaults, HeldInv, AgentNext
    PROVE  HeldNamed'
<1>0. TypeInv /\ TypeTasks /\ SameNames
  BY AgentNames DEF HeldInv, IsoInv, TypeInv, TypeOK, NamedFaults, TableFaults, SteadyFaults
<1>1. UNCHANGED brokerVars
  BY DEF AgentNext, AgentStep, TaskStarts, StopCompletes, TaskCrashes, StartTurn, StartSolve,
    FinishTurn, IdleExit, Heartbeat, RowLost, JobEnds, notAgent
<1>2. \A t \in Task : Active(t)' => Active(t)
  BY <1>0 DEF AgentNext, AgentStep, TaskStarts, StopCompletes, TaskCrashes, StartTurn,
    StartSolve, FinishTurn, IdleExit, Heartbeat, RowLost, JobEnds, Gone, Active, TypeTasks,
    ecsVars
<1> QED
  BY <1>0, <1>1, <1>2, HeldFrame DEF HeldInv, brokerVars

LEMMA HeldReaper ==
    ASSUME HeldInv, ReaperNext \/ LambdaTimeout
    PROVE  HeldNamed'
<1>0. TypeTasks /\ TypeRoutes /\ TypeReaper /\ (SameNames \/ DropRoute \/ DropJudgedRoute)
  BY ReaperNames DEF HeldInv, IsoInv, TypeInv, TypeOK
<1>1. UNCHANGED <<pc, dest>>
  BY DEF ReaperNext, ScanRoutes, DescribeTask, JudgeRow, WriteStreak, StopIdleTask, DropRoute,
    NextRow, ListTasks, JudgeTask, StopJudgedTask, DropJudgedRoute, Finish, LambdaTimeout,
    Reset, notReaper, brokerVars
<1>2. \A t \in Task : Active(t)' => Active(t)
  <2>1. UNCHANGED st \/ StopIssued(rvictim)
    BY DEF ReaperNext, ScanRoutes, DescribeTask, JudgeRow, WriteStreak, StopIdleTask,
      DropRoute, ListTasks, JudgeTask, StopJudgedTask, DropJudgedRoute, Finish,
      LambdaTimeout, Reset
  <2> QED
    BY <1>0, <2>1 DEF StopIssued, Active, TypeTasks, TypeReaper
<1>3. CASE SameNames
  BY <1>1, <1>2, <1>3, HeldFrame DEF HeldInv
<1>4. CASE DropRoute \/ DropJudgedRoute
  <2>1. rcur \in Session /\ ~Active(route[rcur].arn) /\ UNCHANGED st
    BY <1>4, DropsDeadRow DEF HeldInv, DropRoute, DropJudgedRoute
  <2>2. \A s \in Session : s # rcur => route'[s] = route[s]
    BY <1>0, <1>4 DEF DropRoute, DropJudgedRoute, Deleted, TypeRoutes
  <2> SUFFICES ASSUME NEW c \in Sock, pc'[c] \in AtTask, Active(dest[c])'
               PROVE  (Hit(SessionOf(c)) /\ route[SessionOf(c)].arn = dest[c])'
    BY DEF HeldNamed
  <2>3. /\ dest'[c] = dest[c] /\ SessionOf(c)' = SessionOf(c) /\ SessionOf(c) \in Session
        /\ Hit(SessionOf(c)) /\ route[SessionOf(c)].arn = dest[c] /\ Active(dest[c])
    BY <1>1, <2>1 DEF HeldInv, HeldNamed, Active, SessionOf, Sock
  <2>4. route'[SessionOf(c)] = route[SessionOf(c)]
    BY <2>1, <2>2, <2>3
  <2> QED
    BY <2>3, <2>4 DEF Hit, HasRow
<1> QED
  BY <1>0, <1>3, <1>4

LEMMA HeldTick ==
    ASSUME HeldInv, Tick \/ UNCHANGED vars
    PROVE  HeldNamed'
<1>1. SameNames
  BY TickNames DEF HeldInv, IsoInv
<1>2. UNCHANGED <<st, pc, dest>>
  BY DEF Tick, vars, ecsVars, brokerVars
<1> QED
  BY <1>1, <1>2, HeldFrame DEF HeldInv, Active

LEMMA HeldInvariance ==
    ASSUME NamedFaults
    PROVE  Spec => []HeldInv
<1>1. TableFaults
  BY DEF NamedFaults
<1>2. Init => HeldNamed
  BY DEF Init, HeldNamed, AtTask
<1>3. TableInv /\ IsoInv /\ HeldNamed /\ [Next]_vars => HeldNamed'
  BY HeldBroker, HeldAgent, HeldReaper, HeldTick DEF HeldInv, Next
<1> QED
  BY <1>1, <1>2, <1>3, TableInvariance, IsoInvariance, PTL DEF Spec, HeldInv

\* Two sockets of a session that are at tasks which stay up are at one task: both are
\* where the one row of the session points.
LEMMA OneTask ==
    ASSUME HeldInv, NEW c \in Sock, NEW d \in Sock,
           SessionOf(c) = SessionOf(d), pc[c] \in AtTask, pc[d] \in AtTask,
           Active(dest[c]), Active(dest[d])
    PROVE  dest[c] = dest[d]
BY DEF HeldInv, HeldNamed

\* The tabs of a session share one agent: no two sockets of a session are proxied to
\* two tasks that both stay up, as long as no GetItem, PutItem, DescribeTasks or
\* StopTask fails, no address is given away, no row is lost by itself and the
\* heartbeat is off. It takes the lock
\* around the read of the route, the provisioning and the write (decide_route), and
\* that the row of a live task is never dropped; a restart of the broker, although it
\* leaks tasks, does no harm.
THEOREM Converges ==
    ASSUME NamedFaults
    PROVE  Spec => []Convergence
<1>1. HeldInv => Convergence
  BY OneTask DEF Convergence, AtTask
<1> QED
  BY <1>1, HeldInvariance, PTL

-----------------------------------------------------------------------------
(* The refinement.                                                          *)

Kept == [Promise!Next]_(Promise!promised)

\* What the promise speaks of is not touched.
LEMMA KeptFrame ==
    ASSUME UNCHANGED <<st, owner, work>>,
           \A c \in Sock : /\ pc'[c] = "proxy" <=> pc[c] = "proxy"
                           /\ pc[c] = "proxy" => dest'[c] = dest[c]
    PROVE  Kept
BY DEF Kept, Promise!promised, Active, Busy

LEMMA KeptStop ==
    ASSUME TypeTasks, NEW t \in Task, StopIssued(t), UNCHANGED <<owner, work>>,
           \A c \in Sock : /\ pc'[c] = "proxy" <=> pc[c] = "proxy"
                           /\ pc[c] = "proxy" => dest'[c] = dest[c]
    PROVE  Kept
<1>1. CASE Active(t)
  <2>1. Promise!AskToEnd(t)
    BY <1>1 DEF Promise!AskToEnd, StopIssued, TypeTasks, Active, Busy
  <2> QED
    BY <2>1 DEF Kept, Promise!Next
<1>2. CASE ~Active(t)
  <2>1. st' = st
    BY <1>2 DEF StopIssued, TypeTasks, Active, Statuses
  <2> QED
    BY <2>1, KeptFrame
<1> QED
  BY <1>1, <1>2

LEMMA KeptGone ==
    ASSUME TypeTasks, NEW t \in Task, st[t] # "gone", Gone(t), UNCHANGED brokerVars
    PROVE  Kept
<1>1. Promise!End(t)
  BY DEF Promise!End, Gone, TypeTasks, Active, Busy, brokerVars
<1> QED
  BY <1>1 DEF Kept, Promise!Next

LEMMA KeptLeave ==
    ASSUME TypeBroker, UNCHANGED <<st, owner, work>>, NEW cs \in SUBSET Sock,
           \A c \in Sock : IF c \in cs THEN pc'[c] # "proxy"
                           ELSE pc'[c] = pc[c] /\ dest'[c] = dest[c]
    PROVE  Kept
<1>1. PICK lost \in SUBSET Promise!Connected : lost = cs \cap Promise!Connected
  OBVIOUS
<1>2. Promise!Leave(lost)
  BY <1>1 DEF Promise!Leave, Promise!Connected, Promise!Socket, Sock, Active, Busy
<1> QED
  BY <1>2 DEF Kept, Promise!Next

LEMMA KeptBroker ==
    ASSUME NamedFaults, TypeInv, HeldInv, BrokerNext
    PROVE  Kept
<1>0. TypeTasks /\ TypeBroker
  BY DEF TypeInv, TypeOK
<1> USE DEF TypeTasks, TypeBroker, Goto, Close, StartWait, ecsVars, notBroker
<1>1. ASSUME NEW c \in Sock,
             \/ Connect(c) \/ AcquireLock(c) \/ ResolveRoute(c) \/ RunTaskFails(c)
             \/ GotAddress(c) \/ NoAddress(c) \/ HealthGreen(c) \/ NeverGreen(c)
             \/ WriteRoute(c) \/ DialFails(c)
      PROVE Kept
  BY <1>0, <1>1, KeptFrame DEF Connect, AcquireLock, ResolveRoute, RunTaskFails, GotAddress,
    NoAddress, HealthGreen, NeverGreen, WriteRoute, DialFails
<1>2. ASSUME NEW c \in Sock, RunTask(c) PROVE Kept
  <2>1. PICK t \in Task : /\ Fresh(t)
                          /\ st' = [st EXCEPT ![t] = "pending"]
                          /\ owner' = [owner EXCEPT ![t] = SessionOf(c)]
                          /\ dest' = [dest EXCEPT ![c] = t]
    BY <1>2 DEF RunTask
  <2>2. SessionOf(c) \in Session
    BY DEF Sock, SessionOf
  <2>4. /\ pc[c] = "run" /\ pc' = [pc EXCEPT ![c] = "waitip"] /\ UNCHANGED work
        /\ st[t] = "gone" /\ \A d \in Sock : dest[d] # t
    BY <1>2, <2>1 DEF RunTask, Fresh
  <2>5. [u \in Task |-> IF st'[u] = "gone" THEN "none" ELSE IF st'[u] \in {"pending", "running"} THEN "up" ELSE "going"]
        = [[u \in Task |-> IF st[u] = "gone" THEN "none" ELSE IF st[u] \in {"pending", "running"} THEN "up" ELSE "going"]
              EXCEPT ![t] = "up"]
    BY <1>0, <2>1
  <2>6. \A d \in Sock : /\ pc'[d] = "proxy" <=> pc[d] = "proxy"
                        /\ pc[d] = "proxy" => dest'[d] = dest[d]
    BY <1>0, <2>1, <2>4
  <2>7. \A d \in Sock : (IF pc[d] = "proxy" THEN dest[d] ELSE None) # t
    BY <2>4, NoneAssumption
  <2>8. [d \in Sock |-> IF pc'[d] = "proxy" THEN dest'[d] ELSE None]
        = [d \in Sock |-> IF pc[d] = "proxy" THEN dest[d] ELSE None]
    BY <2>6
  <2>3. Promise!Launch(t, SessionOf(c))
    BY <2>1, <2>4, <2>5, <2>7, <2>8 DEF Promise!Launch, Promise!Socket, Sock, Active, Busy
  <2> QED
    BY <2>2, <2>3 DEF Kept, Promise!Next
<1>3. ASSUME NEW c \in Sock, Abandon(c) PROVE Kept
  <2>1. dest[c] \in Task
    BY <1>3 DEF Abandon, HeldInv, IsoInv, OwnHeld, Holding
  <2>2. \A d \in Sock : /\ pc'[d] = "proxy" <=> pc[d] = "proxy"
                        /\ pc[d] = "proxy" => dest'[d] = dest[d]
    BY <1>0, <1>3 DEF Abandon
  <2> QED
    BY <1>0, <1>3, <2>1, <2>2, KeptStop, KeptFrame DEF Abandon
<1>4. ASSUME NEW c \in Sock, Dial(c) PROVE Kept
  <2>1. PICK t \in Task : t = dest[c] /\ Alive(t) /\ owner[t] = SessionOf(c)
    BY <1>4 DEF Dial, HeldInv, IsoInv, OwnHeld, Holding, Alive
  <2>2. ASSUME NEW d \in Sock, SessionOf(d) = SessionOf(c), pc[d] = "proxy", Active(dest[d])
        PROVE  dest[d] = t \/ ~Active(t)
    BY <1>4, <2>1, <2>2, OneTask DEF Dial, AtTask
  <2>3. Promise!Join(c, t)
    BY <1>0, <1>4, <2>1, <2>2, NoneAssumption
    DEF Promise!Join, Promise!Socket, Sock, SessionOf, Dial, Alive, Active, Busy, Statuses
  <2>4. c \in Promise!Socket
    BY DEF Promise!Socket, Sock
  <2> QED
    BY <2>3, <2>4 DEF Kept, Promise!Next
<1>5. ASSUME NEW c \in Sock, ClientLeaves(c) \/ UpstreamCloses(c) PROVE Kept
  <2>1. \A d \in Sock : IF d \in {c} THEN pc'[d] # "proxy" ELSE pc'[d] = pc[d] /\ dest'[d] = dest[d]
    BY <1>0, <1>5 DEF ClientLeaves, UpstreamCloses
  <2>2. UNCHANGED <<st, owner, work>>
    BY <1>5 DEF ClientLeaves, UpstreamCloses
  <2>3. {c} \in SUBSET Sock
    OBVIOUS
  <2> QED
    BY <1>0, <2>1, <2>2, <2>3, KeptLeave
<1>6. CASE BrokerRestarts
  <2>1. \A c \in Sock : pc'[c] # "proxy"
    BY <1>6 DEF BrokerRestarts
  <2>2. UNCHANGED <<st, owner, work>>
    BY <1>6 DEF BrokerRestarts
  <2> QED
    BY <1>0, <2>1, <2>2, KeptLeave
<1>7. \A c \in Sock : ~DialAnother(c)
  BY DEF DialAnother, Fault, NamedFaults
<1> QED
  BY <1>1, <1>2, <1>3, <1>4, <1>5, <1>6, <1>7 DEF BrokerNext, BrokerStep

LEMMA KeptAgent ==
    ASSUME TypeInv, AgentNext
    PROVE  Kept
<1>0. TypeTasks
  BY DEF TypeInv, TypeOK
<1> USE DEF notAgent, brokerVars
<1>1. ASSUME NEW t \in Task, StopCompletes(t) \/ TaskCrashes(t) \/ IdleExit(t) PROVE Kept
  BY <1>0, <1>1, KeptGone DEF StopCompletes, TaskCrashes, IdleExit, Active
<1>2. ASSUME NEW t \in Task, StartTurn(t) PROVE Kept
  <2>1. PICK c \in Sock : pc[c] = "proxy" /\ dest[c] = t
    BY <1>2 DEF StartTurn, Attached
  <2>2. c \in Promise!Socket
    BY DEF Promise!Socket, Sock
  <2>3. Promise!Begin(t)
    BY <1>0, <1>2, <2>1, <2>2
    DEF Promise!Begin, StartTurn, TypeTasks, Alive, Active, Busy
  <2> QED
    BY <2>3 DEF Kept, Promise!Next
<1>3. ASSUME NEW t \in Task, FinishTurn(t) PROVE Kept
  <2>1. Promise!Complete(t)
    BY <1>0, <1>3 DEF Promise!Complete, FinishTurn, TypeTasks, Alive, Active, Busy
  <2> QED
    BY <2>1 DEF Kept, Promise!Next
<1>4. ASSUME NEW t \in Task, TaskStarts(t) \/ StartSolve(t) PROVE Kept
  BY <1>0, <1>4 DEF Kept, Promise!promised, TaskStarts, StartSolve, TypeTasks, Active, Busy
<1>5. ASSUME UNCHANGED <<st, owner, work, pc, dest>> PROVE Kept
  BY <1>5, KeptFrame
<1> QED
  BY <1>1, <1>2, <1>3, <1>4, <1>5 DEF AgentNext, AgentStep, Heartbeat, RowLost, JobEnds, ecsVars

LEMMA KeptReaper ==
    ASSUME TypeInv, ReaperNext \/ LambdaTimeout
    PROVE  Kept
<1>0. TypeTasks /\ TypeReaper /\ ReaperControl
  BY DEF TypeInv, TypeOK
<1> USE DEF brokerVars, notReaper
<1>1. UNCHANGED <<pc, dest, owner, work>>
  BY DEF ReaperNext, ScanRoutes, DescribeTask, JudgeRow, WriteStreak, StopIdleTask, DropRoute,
    NextRow, ListTasks, JudgeTask, StopJudgedTask, DropJudgedRoute, Finish, LambdaTimeout, Reset
<1>2. CASE StopIdleTask \/ StopJudgedTask
  <2>1. rvictim \in Task
    BY <1>0, <1>2 DEF StopIdleTask, StopJudgedTask, ReaperControl
  <2> QED
    BY <1>0, <1>1, <1>2, <2>1, KeptStop, KeptFrame DEF StopIdleTask, StopJudgedTask
<1>3. CASE ~StopIdleTask /\ ~StopJudgedTask
  BY <1>1, <1>3, KeptFrame DEF ReaperNext, ScanRoutes, DescribeTask, JudgeRow, WriteStreak,
    DropRoute, NextRow, ListTasks, JudgeTask, DropJudgedRoute, Finish, LambdaTimeout, Reset
<1> QED
  BY <1>2, <1>3

LEMMA KeptTick ==
    ASSUME Tick \/ UNCHANGED vars
    PROVE  Kept
BY KeptFrame DEF Tick, vars, ecsVars, brokerVars

\* Under the same failures the broker, the reaper, the tasks and the routes table
\* implement SessionPromise: each step of the tier is a step of the promise or none at
\* all. A restart of the broker is one: it loses every socket at once.
THEOREM PromiseIsKept ==
    ASSUME NamedFaults
    PROVE  Spec => PromiseKept
<1>1. Init => Promise!Init
  BY DEF Init, Promise!Init, Promise!Socket, Sock, Active, Busy
<1>2. HeldInv /\ [Next]_vars => [Promise!Next]_(Promise!promised)
  <2> SUFFICES ASSUME HeldInv, [Next]_vars PROVE Kept
    BY DEF Kept
  <2>1. TypeInv
    BY DEF HeldInv, IsoInv
  <2> QED
    BY <2>1, KeptBroker, KeptAgent, KeptReaper, KeptTick DEF Next
<1> QED
  BY <1>1, <1>2, HeldInvariance, PTL DEF Spec, PromiseKept, Promise!Spec
=============================================================================
