----------------------------- MODULE TaskReaper -----------------------------
(***************************************************************************)
(* The task reaper Lambda: one scheduled invocation at a time. Pass 1      *)
(* visits the scanned route rows (_reap_one), pass 2 every running task    *)
(* (_reap_orphans_and_max_age). Each AWS call that reads or writes shared  *)
(* state is a step of its own, so that the other programs run in between.  *)
(***************************************************************************)
EXTENDS FleetState

notReaper == <<owner, age, work, leftover, brokerVars>>

RGoto(where) == rpc' = where

\* Back to the loop of pass 1, done with the current row.
NextRow ==
    /\ RGoto("pass1")
    /\ todo' = todo \ {rcur}
    /\ rcur' = None
    /\ rvictim' = None

-----------------------------------------------------------------------------
(* Health                                                                   *)

\* Mutant: the reaper cannot reach any task.
ProbeUnreachable(t) == {TRUE}

\* _probe_health: the verdicts "busy" it may return. What cannot be read,
\* for whatever reason, counts as busy.
Probe(t) ==
    IF ~InVpc \/ ~Alive(t) THEN {TRUE}
    ELSE {Busy(t)} \cup (IF st[t] = "stopping" \/ "probe" \in Faults
                         THEN {TRUE} ELSE {})

\* _unwrap passes a BOOL attribute through as {"BOOL": b}, and bool() of a
\* non-empty dict is True; the default for a missing attribute is True as well.
HbBusyFlag(r) == TRUE

\* _heartbeat_busy: stale, or hb_busy, or hb_inflight_batch > 0.
HeartbeatBusy(r) ==
    r.hbAge >= HbStale \/ HbBusyFlag(r) \/ r.hb = "solve"

\* _batch_solve_in_flight: any job on any queue; an error counts as one. A
\* solve may not have submitted its job yet.
BatchVerdicts ==
    IF HealthMode = "heartbeat" THEN {FALSE}
    ELSE (IF leftover \/ "batch" \in Faults \/ \E t \in Task : work[t] = "solve"
          THEN {TRUE} ELSE {})
         \cup (IF leftover THEN {} ELSE {FALSE})

\* The verdicts _reap_one may reach on the scanned row of session s.
BusyVerdicts(s) ==
    IF HealthMode = "heartbeat" THEN {HeartbeatBusy(rows[s])}
    ELSE {b \/ batch : b \in Probe(rows[s].arn)}

-----------------------------------------------------------------------------
(* handler: the scan                                                        *)

\* A scan that fails returns the pages it already had, possibly none.
ScanRoutes ==
    /\ rpc = "idle"
    /\ \/ rows' = route /\ NoFault
       \/ /\ Fault("scan")
          /\ \E seen \in SUBSET Session :
                rows' = [s \in Session |-> IF s \in seen THEN route[s] ELSE None]
    /\ todo' = {s \in Session : HasRow(rows', s)}
    /\ batch' \in BatchVerdicts
    /\ longWork' = {t \in Task : Busy(t)}
    /\ RGoto("pass1")
    /\ UNCHANGED <<rcur, rvictim, listed, rclock, st, route, polls, notReaper>>

-----------------------------------------------------------------------------
(* Pass 1: _reap_one                                                        *)

\* G1, _task_state. A row without task_arn and a failed call are "unknown".
DescribeTask(s) ==
    /\ rpc = "pass1" /\ s \in todo
    /\ rcur' = s
    /\ LET t == rows[s].arn IN
          \/ /\ t # None
             /\ Alive(t)
             /\ RGoto("health") /\ NoFault
          \/ /\ IF t = None THEN TRUE ELSE st[t] # "running"
             /\ RGoto("drop") /\ NoFault
          \/ /\ t # None
             /\ RGoto("drop") /\ Fault("describe")
    /\ UNCHANGED <<rows, todo, rvictim, listed, batch, rclock, st, route, history,
                   notReaper>>

\* Mutant: one poll late.
StreakReachedLate(s) == rows[s].streak + 1 > IdleThreshold

\* G4
StreakReached(s) == rows[s].streak + 1 >= IdleThreshold

\* G2 to G4. An idle verdict either stops the task or is counted.
JudgeRow ==
    /\ rpc = "health"
    /\ LET t == rows[rcur].arn IN
       \E busy \in BusyVerdicts(rcur) :
          IF busy
          THEN /\ RGoto("busy")
               /\ polls' = [polls EXCEPT ![t] = 0]
               /\ UNCHANGED rvictim
          ELSE /\ polls' = [polls EXCEPT ![t] =
                               IF @ < IdleThreshold THEN @ + 1 ELSE @]
               /\ IF StreakReached(rcur)
                  THEN RGoto("stop1") /\ rvictim' = t
                  ELSE RGoto("idlepoll") /\ UNCHANGED rvictim
    /\ NoFault
    /\ UNCHANGED <<rows, todo, rcur, listed, batch, rclock, st, route, longWork,
                   notReaper>>

\* Mutant: a busy verdict does not reset the streak.
NewStreakNoReset == IF rpc = "busy" THEN rows[rcur].streak ELSE rows[rcur].streak + 1

NewStreak == IF rpc = "busy" THEN 0 ELSE rows[rcur].streak + 1

\* _write_streak: an upsert of whatever row is there now.
WriteStreak ==
    /\ rpc \in {"busy", "idlepoll"}
    /\ \/ /\ route' = [route EXCEPT ![rcur] = [Upserted(rcur) EXCEPT !.streak = NewStreak]]
          /\ NoFault
       \/ Fault("streak") /\ UNCHANGED route
    /\ NextRow
    /\ UNCHANGED <<rows, listed, batch, rclock, st, history, notReaper>>

\* Mutant: the dry run of _stop_task, followed by a real _delete_route.
StopIdleDryRun ==
    /\ rpc = "stop1"
    /\ NoFault /\ UNCHANGED st
    /\ RGoto("drop")
    /\ UNCHANGED <<rows, todo, rcur, rvictim, listed, batch, rclock, route, history,
                   notReaper>>

\* _stop_task swallows an error; the row is dropped next either way.
StopIdleTask ==
    /\ rpc = "stop1"
    /\ \/ StopIssued(rvictim) /\ NoFault
       \/ Fault("stoptask") /\ UNCHANGED st
    /\ RGoto("drop")
    /\ UNCHANGED <<rows, todo, rcur, rvictim, listed, batch, rclock, route, history,
                   notReaper>>

\* Mutant: the row stays.
NotDeleted(s) == UNCHANGED route /\ NoFault

\* _delete_route deletes by key, whatever the row says by now.
Deleted(s) ==
    \/ route' = [route EXCEPT ![s] = None] /\ NoFault
    \/ Fault("delete") /\ UNCHANGED route

DropRoute ==
    /\ rpc = "drop"
    /\ Deleted(rcur)
    /\ NextRow
    /\ UNCHANGED <<rows, listed, batch, rclock, st, history, notReaper>>

-----------------------------------------------------------------------------
(* Pass 2: _reap_orphans_and_max_age                                        *)

\* list_tasks filters on desiredStatus, _describe_running_tasks on lastStatus;
\* ages are relative to the `now` taken just before.
ListTasks ==
    /\ rpc = "pass1" /\ todo = {}
    /\ \/ listed' = {<<t, age[t]>> : t \in {u \in Task : st[u] = "running"}} /\ NoFault
       \/ listed' = {} /\ Fault("list")
    /\ RGoto("pass2")
    /\ UNCHANGED <<rows, todo, rcur, rvictim, batch, rclock, st, route, history,
                   notReaper>>

\* Mutants: no provision grace, no mercy at max age, no pass 2 at all.
ShouldStopNoGrace(old, routed, busy) ==
    IF old >= MaxAge THEN ~(routed /\ busy)
    ELSE ~routed /\ ~batch /\ ~busy
ShouldStopAllOld(old, routed, busy) ==
    old >= MaxAge \/ (~routed /\ old >= OrphanGrace /\ ~batch /\ ~busy)
ShouldStopNever(old, routed, busy) == FALSE

\* _orphan_maxage_decision
ShouldStop(old, routed, busy) ==
    IF old >= MaxAge THEN ~(routed /\ busy)
    ELSE ~routed /\ old >= OrphanGrace /\ ~batch /\ ~busy

\* Health is probed only where it can spare the task.
NeedProbe(old, routed) ==
    \/ old >= MaxAge /\ routed
    \/ ~routed /\ old >= OrphanGrace /\ ~batch

JudgeTask ==
    /\ rpc = "pass2"
    /\ \E x \in listed :
          LET t == x[1]
              routed == MappedTo(t) # {}
          IN /\ \E busy \in IF NeedProbe(x[2], routed) THEN Probe(t) ELSE {FALSE} :
                   IF ShouldStop(x[2], routed, busy)
                   THEN RGoto("stop2") /\ rvictim' = t
                   ELSE UNCHANGED <<rpc, rvictim>>
             /\ listed' = listed \ {x}
    /\ NoFault
    /\ UNCHANGED <<rows, todo, rcur, batch, rclock, st, route, history, notReaper>>

\* StopTask, then drop the row the scan saw it in, if any.
StopJudgedTask ==
    /\ rpc = "stop2"
    /\ \/ StopIssued(rvictim) /\ NoFault
       \/ Fault("stoptask") /\ UNCHANGED st
    /\ \/ /\ MappedTo(rvictim) = {}
          /\ RGoto("pass2")
          /\ rvictim' = None /\ UNCHANGED rcur
       \/ /\ RGoto("drop2")
          /\ rcur' \in MappedTo(rvictim) /\ UNCHANGED rvictim
    /\ UNCHANGED <<rows, todo, listed, batch, rclock, route, history, notReaper>>

DropJudgedRoute ==
    /\ rpc = "drop2"
    /\ Deleted(rcur)
    /\ RGoto("pass2")
    /\ rcur' = None /\ rvictim' = None
    /\ UNCHANGED <<rows, todo, listed, batch, rclock, st, history, notReaper>>

-----------------------------------------------------------------------------
(* The end of an invocation                                                 *)

Reset ==
    /\ RGoto("idle")
    /\ rows' = [s \in Session |-> None]
    /\ todo' = {} /\ listed' = {}
    /\ rcur' = None /\ rvictim' = None
    /\ batch' = FALSE /\ rclock' = 0
    /\ longWork' = {}
    /\ UNCHANGED <<st, route, polls, notReaper>>

Finish == rpc = "pass2" /\ listed = {} /\ NoFault /\ Reset

\* Lambda kills the invocation at its timeout, wherever it is.
LambdaTimeout == rpc # "idle" /\ Fault("lambda") /\ Reset

-----------------------------------------------------------------------------
ReaperNext ==
    \/ ScanRoutes
    \/ \E s \in Session : DescribeTask(s)
    \/ JudgeRow
    \/ WriteStreak
    \/ StopIdleTask
    \/ DropRoute
    \/ ListTasks
    \/ JudgeTask
    \/ StopJudgedTask
    \/ DropJudgedRoute
    \/ Finish
=============================================================================
