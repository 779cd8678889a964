---------------------------- MODULE AgentPartsProofs ----------------------------
(***************************************************************************)
(* The safety theorems of the parts of an agent, carried over to the       *)
(* module that TLC runs (MCAgentParts), for every value of its constants.  *)
(* AgentLiveness, LiveTurns and ClientSocket have modules of their own for *)
(* their proofs; those about SolverJob and BoxAutostop are here.           *)
(***************************************************************************)
EXTENDS MCAgentParts, FiniteSets, TLAPS

-----------------------------------------------------------------------------
(* AgentLiveness                                                            *)

LivenessPart == part = "liveness" => AL!LivenessInv

LEMMA FiniteTurns == ASSUME IsFiniteSet(Turn) PROVE AL!Finite
BY PartsAssumption DEF AL!Finite, PartsAssumption, IsFiniteSet, AL!IsFiniteSet

LEMMA LivenessPartAlways == ASSUME IsFiniteSet(Turn) PROVE Spec => []LivenessPart
<1>0. AL!Finite
  BY FiniteTurns
<1>1. Init => LivenessPart
  BY <1>0, AL!LivenessInit DEF Init, LivenessPart
<1>2. LivenessPart /\ [Next]_vars => LivenessPart'
  BY <1>0, AL!LivenessStep DEF LivenessPart, Next, vars, livenessVars, AL!vars
<1> QED
  BY <1>1, <1>2, PTL DEF Spec

LEMMA LivenessPartSafe ==
    ASSUME IsFiniteSet(Turn), LivenessPart PROVE MarkerNeverLeaks /\ NeverClearedEarly
BY FiniteTurns, AL!LivenessSafe DEF LivenessPart, MarkerNeverLeaks, NeverClearedEarly

\* begin_solve and end_solve pair up around every dispatch, hung, cancelled or
\* done: the marker stands for the dispatches in flight and nothing else.
THEOREM AgentMarkerHonest ==
    ASSUME IsFiniteSet(Turn) PROVE Spec => []MarkerNeverLeaks
BY LivenessPartSafe, LivenessPartAlways, PTL

\* The stale-marker clear never fires while a dispatch is younger than the window.
THEOREM AgentNeverClearedEarly ==
    ASSUME IsFiniteSet(Turn) PROVE Spec => []NeverClearedEarly
BY LivenessPartSafe, LivenessPartAlways, PTL

\* The monitor ends the process only with no client, no turn and no write in flight,
\* however its samples fall.
THEOREM AgentNoExitAtWork ==
    ASSUME IsFiniteSet(Turn) PROVE Spec => NeverExitsAtWork
<1>1. LivenessPart /\ [Next]_vars => [part = "liveness" => AL!ExitsOnlyIdle]_livenessVars
  <2> SUFFICES ASSUME LivenessPart, Next, part = "liveness" PROVE AL!ExitsOnlyIdle
    BY DEF vars
  <2>1. AL!Next /\ AL!LivenessInv
    BY DEF Next, LivenessPart
  <2> QED
    BY <2>1, FiniteTurns, AL!StepExitsOnlyIdle
<1> QED
  BY <1>1, LivenessPartAlways, PTL DEF Spec, NeverExitsAtWork

-----------------------------------------------------------------------------
(* SolverJob                                                                *)

\* The job a turn holds before its verdict is tracked.
Held == cur # None /\ at \in SJ!Polling \cup {"composing"} => cur \in tracked

\* The deadline terminates the job it holds before it is untracked.
TrackedIsOpen ==
    \A j \in tracked : /\ job[j] # "none" /\ verdict[j] = None
                        /\ stops[j] = IF at = "stopping" /\ j = cur THEN 1 ELSE 0

\* What a worker thread submits is not known to the turn yet.
ThreadIsOpen ==
    thread # None => stops[thread] = 0 /\ verdict[thread] = None /\ thread \notin tracked

SubmittingIsFree == at = "submitting" => cur = None

UnsubmittedIsClean ==
    \A j \in Job : job[j] = "none" => stops[j] = 0 /\ verdict[j] = None /\ j \notin tracked

FoundIsThere == at = "found" => completion[cur] # None

OnLoopSettled ==
    ~offload => /\ thread = None /\ at # "submitting"
                /\ \A j \in Job : SJ!Settled(j) \/ j \in tracked
                /\ at = "over" => tracked = {}

JobInv ==
    /\ SJ!TypeOK
    /\ Held /\ TrackedIsOpen /\ ThreadIsOpen /\ SubmittingIsFree /\ UnsubmittedIsClean
    /\ FoundIsThere /\ OnLoopSettled

LEMMA JobInit == SJ!JobAssumption /\ SJ!Init => JobInv
BY DEF SJ!JobAssumption, SJ!Init, JobInv, SJ!TypeOK, Held, TrackedIsOpen, ThreadIsOpen,
    SubmittingIsFree, UnsubmittedIsClean, FoundIsThere, OnLoopSettled, SJ!Settled,
    SJ!Polling

(* Submitting                                                               *)

LEMMA JobSubmitted ==
    ASSUME SJ!JobAssumption, JobInv, NEW j \in Job, SJ!SubmitOnLoop(j) \/ SJ!SubmitInThread(j)
    PROVE  JobInv'
<1> USE DEF JobInv
<1>1. CASE SJ!SubmitOnLoop(j)
  <2>1. SJ!TypeOK'
    BY <1>1 DEF SJ!SubmitOnLoop, SJ!TypeOK, SJ!Polling
  <2>2. Held' /\ TrackedIsOpen' /\ ThreadIsOpen' /\ SubmittingIsFree' /\ FoundIsThere'
    BY <1>1 DEF SJ!SubmitOnLoop, SJ!TypeOK, Held, TrackedIsOpen, ThreadIsOpen,
      SubmittingIsFree, UnsubmittedIsClean, FoundIsThere, OnLoopSettled
  <2>3. UnsubmittedIsClean'
    BY <1>1 DEF SJ!SubmitOnLoop, SJ!TypeOK, UnsubmittedIsClean
  <2>4. OnLoopSettled'
    BY <1>1 DEF SJ!SubmitOnLoop, SJ!TypeOK, OnLoopSettled, SJ!Settled
  <2> QED
    BY <2>1, <2>2, <2>3, <2>4
<1>2. CASE SJ!SubmitInThread(j)
  BY <1>2 DEF SJ!SubmitInThread, SJ!TypeOK, Held, TrackedIsOpen, ThreadIsOpen,
    SubmittingIsFree, UnsubmittedIsClean, FoundIsThere, OnLoopSettled, SJ!Settled,
    SJ!Polling
<1> QED
  BY <1>1, <1>2

LEMMA ThreadRuns ==
    ASSUME SJ!JobAssumption, JobInv, SJ!ThreadSubmits \/ SJ!ThreadRegisters \/ SJ!SubmitFails
    PROVE  JobInv'
<1> USE DEF JobInv
<1>0. thread \in Job /\ offload
  BY DEF SJ!ThreadSubmits, SJ!ThreadRegisters, SJ!SubmitFails, OnLoopSettled, SJ!TypeOK
<1>1. CASE SJ!ThreadSubmits
  BY <1>0, <1>1 DEF SJ!ThreadSubmits, SJ!agentVars, SJ!TypeOK, Held, TrackedIsOpen,
    ThreadIsOpen, SubmittingIsFree, UnsubmittedIsClean, FoundIsThere, OnLoopSettled,
    SJ!Settled, SJ!Polling
<1>2. CASE SJ!ThreadRegisters
  <2>1. SJ!TypeOK'
    BY <1>0, <1>2 DEF SJ!ThreadRegisters, SJ!TypeOK, SJ!Polling
  <2>2. Held' /\ TrackedIsOpen' /\ ThreadIsOpen' /\ SubmittingIsFree' /\ FoundIsThere'
    BY <1>0, <1>2 DEF SJ!ThreadRegisters, SJ!TypeOK, Held, TrackedIsOpen, ThreadIsOpen,
      SubmittingIsFree, FoundIsThere, SJ!Polling
  <2>3. UnsubmittedIsClean' /\ OnLoopSettled'
    BY <1>0, <1>2 DEF SJ!ThreadRegisters, SJ!TypeOK, UnsubmittedIsClean, OnLoopSettled
  <2> QED
    BY <2>1, <2>2, <2>3
<1>3. CASE SJ!SubmitFails
  BY <1>0, <1>3 DEF SJ!SubmitFails, SJ!TypeOK, Held, TrackedIsOpen, ThreadIsOpen,
    SubmittingIsFree, UnsubmittedIsClean, FoundIsThere, OnLoopSettled, SJ!Settled,
    SJ!Polling
<1> QED
  BY <1>1, <1>2, <1>3

(* Waiting                                                                  *)

LEMMA PollMoves ==
    ASSUME SJ!JobAssumption, JobInv, SJ!Wait \/ SJ!Look \/ SJ!PollAgain
    PROVE  JobInv'
<1>1. UNCHANGED <<offload, cur, thread, tracked, job, completion, stops, age, verdict>>
  BY DEF SJ!Wait, SJ!Look, SJ!PollAgain
<1>2. /\ at \in SJ!Polling \cup {"composing"} /\ cur # None /\ at' \in SJ!Polling
      /\ at # "stopping" /\ at' # "stopping"
      /\ at' = "found" => completion[cur] # None
  BY DEF SJ!Wait, SJ!Look, SJ!PollAgain, SJ!HandleHeld, SJ!Polling, JobInv, SJ!TypeOK
<1> QED
  BY <1>1, <1>2 DEF JobInv, SJ!TypeOK, Held, TrackedIsOpen, ThreadIsOpen,
    SubmittingIsFree, UnsubmittedIsClean, FoundIsThere, OnLoopSettled, SJ!Settled,
    SJ!Polling

LEMMA DeadlineStops == ASSUME SJ!JobAssumption, JobInv, SJ!StopExpired PROVE JobInv'
<1> USE DEF JobInv
<1>1. /\ cur \in Job /\ cur # None /\ cur \in tracked /\ job[cur] # "none" /\ cur # thread
      /\ stops[cur] = 0
  BY DEF SJ!StopExpired, SJ!TypeOK, Held, TrackedIsOpen, ThreadIsOpen, SJ!Polling
<1>2. /\ stops' \in [Job -> 0..2] /\ stops'[cur] = 1
      /\ \A j \in Job : j # cur => stops'[j] = stops[j]
  BY <1>1 DEF SJ!StopExpired, SJ!Terminate, SJ!TypeOK
<1>3. SJ!TypeOK'
  BY <1>1, <1>2 DEF SJ!StopExpired, SJ!TypeOK, SJ!Polling
<1>4. Held' /\ SubmittingIsFree' /\ FoundIsThere'
  BY <1>1 DEF SJ!StopExpired, Held, SubmittingIsFree, FoundIsThere
<1>5. TrackedIsOpen' /\ ThreadIsOpen' /\ UnsubmittedIsClean'
  BY <1>1, <1>2 DEF SJ!StopExpired, SJ!TypeOK, TrackedIsOpen, ThreadIsOpen, UnsubmittedIsClean
<1>6. OnLoopSettled'
  BY <1>1, <1>2 DEF SJ!StopExpired, SJ!TypeOK, OnLoopSettled, SJ!Settled
<1> QED
  BY <1>3, <1>4, <1>5, <1>6

\* The turn lets go of the job it waits for, with a verdict.
LEMMA JobLetGo ==
    ASSUME SJ!JobAssumption, JobInv, at \in SJ!Polling,
           NEW v \in {"complete", "failed", "timeout", "cancelled"},
           verdict' = [verdict EXCEPT ![cur] = v],
           tracked' = tracked \ {cur},
           \/ cur' = None /\ at' = "composing"
           \/ cur' = cur /\ at' = "unwinding",
           \/ UNCHANGED stops /\ SJ!Settled(cur)
           \/ SJ!Terminate({cur}),
           UNCHANGED <<offload, thread, job, completion, age>>
    PROVE  JobInv'
<1> USE DEF JobInv
<1>1. cur \in Job /\ cur # None /\ cur \in tracked /\ job[cur] # "none"
      /\ stops[cur] \in 0..1 /\ cur # thread
  BY DEF SJ!TypeOK, Held, TrackedIsOpen, ThreadIsOpen
<1>2. /\ stops' \in [Job -> 0..2] /\ (stops'[cur] > 0 \/ (SJ!Settled(cur) /\ stops' = stops))
      /\ \A j \in Job : j # cur => stops'[j] = stops[j]
  BY <1>1 DEF SJ!Terminate, SJ!TypeOK
<1>3. SJ!TypeOK'
  BY <1>1, <1>2 DEF SJ!TypeOK, SJ!Polling
<1>4. Held' /\ SubmittingIsFree' /\ FoundIsThere'
  BY <1>1 DEF Held, SubmittingIsFree, FoundIsThere, SJ!Polling
<1>5. TrackedIsOpen' /\ ThreadIsOpen' /\ UnsubmittedIsClean'
  BY <1>1, <1>2 DEF SJ!TypeOK, TrackedIsOpen, ThreadIsOpen, UnsubmittedIsClean
<1>6. OnLoopSettled'
  BY <1>1, <1>2 DEF SJ!TypeOK, OnLoopSettled, SJ!Settled, SJ!Polling
<1> QED
  BY <1>3, <1>4, <1>5, <1>6

LEMMA WaitEnded ==
    ASSUME SJ!JobAssumption, JobInv,
           SJ!ReturnFound \/ SJ!ReturnEarlyFailed \/ SJ!ReturnTimeout \/ SJ!CancelWait
    PROVE  JobInv'
<1>1. CASE SJ!ReturnFound
  <2>1. SJ!Settled(cur)
    BY <1>1 DEF SJ!ReturnFound, SJ!Settled, JobInv, FoundIsThere
  <2> QED
    BY <1>1, <2>1, JobLetGo DEF SJ!ReturnFound, SJ!Returns, SJ!TrackingCleared, SJ!Polling
<1>2. CASE SJ!ReturnEarlyFailed
  <2>1. SJ!Settled(cur)
    BY <1>2 DEF SJ!ReturnEarlyFailed, SJ!Settled
  <2> QED
    BY <1>2, <2>1, JobLetGo DEF SJ!ReturnEarlyFailed, SJ!Returns, SJ!TrackingCleared,
      SJ!Polling
<1>3. CASE SJ!ReturnTimeout
  <2>1. SJ!Settled(cur)
    BY <1>3 DEF SJ!ReturnTimeout, SJ!Settled, SJ!Polling, JobInv, SJ!TypeOK, Held,
      TrackedIsOpen
  <2> QED
    BY <1>3, <2>1, JobLetGo DEF SJ!ReturnTimeout, SJ!Returns, SJ!TrackingCleared, SJ!Polling
<1>4. CASE SJ!CancelWait
  BY <1>4, JobLetGo DEF SJ!CancelWait
<1> QED
  BY <1>1, <1>2, <1>3, <1>4

LEMMA TurnEnds ==
    ASSUME SJ!JobAssumption, JobInv, SJ!LeaveTurn \/ SJ!EndTurn
    PROVE  JobInv'
<1> USE DEF JobInv
<1>1. CASE SJ!LeaveTurn
  BY <1>1 DEF SJ!LeaveTurn, SJ!TypeOK, Held, TrackedIsOpen, ThreadIsOpen,
    SubmittingIsFree, UnsubmittedIsClean, FoundIsThere, OnLoopSettled, SJ!Settled,
    SJ!Polling
<1>2. CASE SJ!EndTurn
  <2>1. /\ at = "unwinding" /\ at' = "over" /\ tracked' = {}
        /\ stops' = [j \in Job |-> IF j \in tracked THEN stops[j] + 1 ELSE stops[j]]
        /\ UNCHANGED <<offload, cur, thread, job, completion, age, verdict>>
    BY <1>2 DEF SJ!EndTurn, SJ!KillTracked, SJ!Terminate
  <2>2. stops' \in [Job -> 0..2]
    BY <2>1 DEF SJ!TypeOK, TrackedIsOpen
  <2>3. SJ!TypeOK'
    BY <2>1, <2>2 DEF SJ!TypeOK, SJ!Polling
  <2>4. Held' /\ SubmittingIsFree' /\ FoundIsThere' /\ TrackedIsOpen'
    BY <2>1 DEF Held, SubmittingIsFree, FoundIsThere, TrackedIsOpen, SJ!Polling
  <2>5. ThreadIsOpen' /\ UnsubmittedIsClean'
    BY <2>1 DEF SJ!TypeOK, ThreadIsOpen, UnsubmittedIsClean
  <2>6. \A j \in Job : SJ!Settled(j) \/ j \in tracked => SJ!Settled(j)'
    BY <2>1 DEF SJ!TypeOK, SJ!Settled
  <2>7. OnLoopSettled'
    BY <2>1, <2>6 DEF OnLoopSettled
  <2> QED
    BY <2>3, <2>4, <2>5, <2>7
<1> QED
  BY <1>1, <1>2

(* The world                                                                *)

LEMMA WorldMoves ==
    ASSUME SJ!JobAssumption, JobInv,
           (\E j \in Job : SJ!WorkerCompletes(j) \/ SJ!WorkerExits(j) \/ SJ!JobDies(j)) \/ SJ!Tick
    PROVE  JobInv'
<1> USE DEF JobInv
<1>1. /\ UNCHANGED SJ!agentVars
      /\ job' \in [Job -> {"none", "live", "succeeded", "failed"}]
      /\ completion' \in [Job -> {None, "ok", "error"}]
      /\ age' \in [Job -> 0..Deadline]
  <2>1. CASE SJ!Tick
    BY <2>1 DEF SJ!Tick, SJ!TypeOK, SJ!JobAssumption
  <2> QED
    BY <2>1 DEF SJ!WorkerCompletes, SJ!WorkerExits, SJ!JobDies, SJ!TypeOK
<1>2. /\ \A j \in Job : job'[j] = "none" <=> job[j] = "none"
      /\ \A j \in Job : job'[j] = "live" => job[j] = "live"
      /\ \A j \in Job : completion[j] # None => completion'[j] # None
  BY DEF SJ!WorkerCompletes, SJ!WorkerExits, SJ!JobDies, SJ!Tick, SJ!TypeOK,
    SJ!JobAssumption
<1>3. SJ!TypeOK'
  BY <1>1 DEF SJ!TypeOK, SJ!agentVars
<1>4. \A j \in Job : SJ!Settled(j) => SJ!Settled(j)'
  BY <1>1, <1>2 DEF SJ!Settled, SJ!agentVars
<1>5. Held' /\ TrackedIsOpen' /\ ThreadIsOpen' /\ SubmittingIsFree' /\ UnsubmittedIsClean'
  BY <1>1, <1>2 DEF SJ!agentVars, SJ!TypeOK, Held, TrackedIsOpen, ThreadIsOpen,
    SubmittingIsFree, UnsubmittedIsClean
<1>6. FoundIsThere'
  BY <1>1, <1>2 DEF SJ!agentVars, SJ!TypeOK, FoundIsThere, SJ!Polling
<1>7. OnLoopSettled'
  BY <1>1, <1>4 DEF SJ!agentVars, OnLoopSettled
<1> QED
  BY <1>3, <1>5, <1>6, <1>7

LEMMA JobStep == SJ!JobAssumption /\ JobInv /\ [SJ!Next]_(SJ!vars) => JobInv'
<1> SUFFICES ASSUME SJ!JobAssumption, JobInv, [SJ!Next]_(SJ!vars) PROVE JobInv'
  OBVIOUS
<1>1. CASE UNCHANGED SJ!vars
  BY <1>1 DEF SJ!vars, JobInv, SJ!TypeOK, Held, TrackedIsOpen, ThreadIsOpen,
    SubmittingIsFree, UnsubmittedIsClean, FoundIsThere, OnLoopSettled, SJ!Settled
<1> QED
  BY <1>1, JobSubmitted, ThreadRuns, PollMoves, DeadlineStops, WaitEnded, TurnEnds, WorldMoves
    DEF SJ!Next

\* A step that terminates a job terminates one without a verdict.
LEMMA StepLeavesDone ==
    ASSUME SJ!JobAssumption, JobInv, SJ!Next
    PROVE  SJ!LeavesDoneAlone
<1> SUFFICES ASSUME NEW j \in Job, verdict[j] # None PROVE stops'[j] = stops[j]
  BY DEF SJ!LeavesDoneAlone
<1>1. j \notin tracked
  BY DEF JobInv, TrackedIsOpen
<1>2. CASE SJ!StopExpired \/ SJ!CancelWait
  <2>1. cur \in tracked
    BY <1>2 DEF SJ!StopExpired, SJ!CancelWait, JobInv, Held, SJ!TypeOK, SJ!Polling
  <2> QED
    BY <1>1, <1>2, <2>1 DEF SJ!StopExpired, SJ!CancelWait, SJ!Terminate
<1>3. CASE SJ!EndTurn
  BY <1>1, <1>3 DEF SJ!EndTurn, SJ!KillTracked, SJ!Terminate
<1> QED
  BY <1>2, <1>3 DEF SJ!Next, SJ!SubmitOnLoop, SJ!SubmitInThread, SJ!ThreadSubmits,
    SJ!ThreadRegisters, SJ!SubmitFails, SJ!Wait, SJ!Look, SJ!ReturnFound,
    SJ!ReturnEarlyFailed, SJ!ReturnTimeout, SJ!Returns, SJ!PollAgain, SJ!LeaveTurn, SJ!WorkerCompletes,
    SJ!WorkerExits,
    SJ!JobDies, SJ!Tick, SJ!agentVars

JobsPart == part = "jobs" => JobInv

LEMMA JobsPartAlways == Spec => []JobsPart
<1>0. SJ!JobAssumption
  BY PartsAssumption DEF PartsAssumption
<1>1. Init => JobsPart
  BY <1>0, JobInit DEF Init, JobsPart
<1>2. JobsPart /\ [Next]_vars => JobsPart'
  BY <1>0, JobStep DEF JobsPart, Next, vars, jobsVars, SJ!vars
<1> QED
  BY <1>1, <1>2, PTL DEF Spec

\* A job submitted on the loop is tracked before anything can cancel the turn: when
\* the turn is over, it has a verdict or was told to stop.
THEOREM AgentNoOrphan == Spec => []NoOrphanOnLoop
<1>1. JobsPart => NoOrphanOnLoop
  BY DEF JobsPart, NoOrphanOnLoop, JobInv, OnLoopSettled, SJ!NoOrphanOnLoop
<1> QED
  BY <1>1, JobsPartAlways, PTL

\* wait_for_completion lets go of a job with its verdict, so the end of the turn
\* stops no job that is done.
THEOREM AgentDoneIsLeftAlone == Spec => DoneIsLeftAlone
<1>1. JobsPart /\ [Next]_vars => [part = "jobs" => SJ!LeavesDoneAlone]_jobsVars
  <2> SUFFICES ASSUME JobsPart, Next, part = "jobs" PROVE SJ!LeavesDoneAlone
    BY DEF vars
  <2>1. SJ!Next /\ JobInv /\ SJ!JobAssumption
    BY PartsAssumption DEF Next, JobsPart, PartsAssumption
  <2> QED
    BY <2>1, StepLeavesDone
<1> QED
  BY <1>1, JobsPartAlways, PTL DEF Spec, DoneIsLeftAlone

-----------------------------------------------------------------------------
(* BoxAutostop                                                              *)

\* The streak that is kept is below the threshold, however the invocations overlap:
\* the one that would reach it stops the box and writes 0.
BoxTyped ==
    /\ BA!TypeOK /\ streak < IdleThreshold
    /\ \A i \in Call : step[i] = "write" => newStreak[i] < IdleThreshold

\* Nothing overlaps and no write is lost: the deployment in its normal state. The
\* theorem fails without either.
OneAtATime == WritesFail = FALSE /\ \A i, k \in Call : i = k

\* The streak in the table is never longer than the run of idle polls it stands for.
\* It may be in an invocation that found the box busy, until that writes the zero.
StreakIsBacked(i) ==
    /\ step[i] \in {"off", "state", "probe", "batch"} => streak <= idleRun
    /\ step[i] = "read" => streak < idleRun
    /\ step[i] = "write" => newStreak[i] <= idleRun
    /\ step[i] = "stop" => idleRun >= IdleThreshold

BoxInv == BoxTyped /\ \A i \in Call : StreakIsBacked(i)

LEMMA BoxInit == BA!AutostopAssumption /\ BA!Init => BoxInv
<1> SUFFICES ASSUME BA!AutostopAssumption, BA!Init PROVE BoxInv
  OBVIOUS
<1>1. BA!TypeOK
  <2>1. 0 \in 0..IdleThreshold /\ 0 \in 0..(IdleThreshold + 1)
    BY DEF BA!AutostopAssumption
  <2>2. {busy, batch, calm, asleep} \subseteq BOOLEAN
    BY Zenon DEF BA!Init
  <2> QED
    BY <2>1, <2>2 DEF BA!Init, BA!TypeOK
<1>2. \A i \in Call : step[i] = "off"
  BY DEF BA!Init
<1> QED
  BY <1>1, <1>2 DEF BA!AutostopAssumption, BA!Init, BoxInv, BoxTyped, StreakIsBacked

LEMMA CheckTyped ==
    ASSUME BA!AutostopAssumption, BoxTyped, NEW i \in Call, BA!Check(i)
    PROVE  BoxTyped'
<1> USE DEF BA!AutostopAssumption, BoxTyped, BA!TypeOK
<1>0. CASE BA!Invoked(i) \/ BA!CheckState(i)
  BY <1>0 DEF BA!Invoked, BA!CheckState, BA!world
<1>6. CASE BA!ProbeAborts(i)
  BY <1>6 DEF BA!ProbeAborts, BA!world
<1>1. CASE BA!Probe(i)
  <2>1. BA!ProbeBusy \in BOOLEAN
    BY DEF BA!ProbeBusy
  <2> QED
    BY <1>1, <2>1 DEF BA!Probe, BA!world
<1>2. CASE BA!CheckBatch(i)
  BY <1>2 DEF BA!CheckBatch, BA!BusyZeroes, BA!world
<1>3. CASE BA!ReadStreak(i)
  <2>1. PICK s \in {0, streak} :
           /\ newStreak' = [newStreak EXCEPT ![i] = s + 1]
           /\ step' = [step EXCEPT ![i] = IF s + 1 >= IdleThreshold THEN "stop" ELSE "write"]
    BY <1>3 DEF BA!ReadStreak
  <2>2. s + 1 \in 0..(IdleThreshold + 1)
    OBVIOUS
  <2> QED
    BY <1>3, <2>1, <2>2 DEF BA!ReadStreak, BA!world
<1>4. CASE BA!Stop(i)
  BY <1>4 DEF BA!Stop, BA!world
<1>5. CASE BA!WriteStreak(i)
  <2>1. streak' \in {0, streak} \/ (step[i] = "write" /\ streak' = newStreak[i])
    BY <1>5 DEF BA!WriteStreak, BA!Persisted
  <2> QED
    BY <1>5, <2>1 DEF BA!WriteStreak, BA!world
<1> QED
  BY <1>0, <1>1, <1>2, <1>3, <1>4, <1>5, <1>6 DEF BA!Check

LEMMA WorldTyped ==
    ASSUME BoxTyped,
           BA!Wake \/ BA!AskSleep \/ BA!Sleep \/ BA!StopEnds \/ BA!Boots \/ BA!Works
    PROVE  BoxTyped'
BY DEF BA!Wake, BA!AskSleep, BA!Sleep, BA!StopEnds, BA!Boots, BA!Works, BA!world, BoxTyped,
    BA!TypeOK

LEMMA BoxTypedStep ==
    BA!AutostopAssumption /\ BoxTyped /\ [BA!Next]_(BA!vars) => BoxTyped'
<1>1. BoxTyped /\ UNCHANGED BA!vars => BoxTyped'
  BY DEF BA!vars, BA!world, BoxTyped, BA!TypeOK
<1> QED
  BY <1>1, CheckTyped, WorldTyped DEF BA!Next

\* The steps of an invocation, which is the only one.
LEMMA CheckBacked ==
    ASSUME BA!AutostopAssumption, OneAtATime, BoxInv, NEW i \in Call, BA!Check(i)
    PROVE  BoxInv'
<1> USE DEF BoxInv
<1>0. /\ IdleThreshold \in Nat \ {0} /\ \A k \in Call : k = i
      /\ StreakIsBacked(i) /\ streak \in Nat /\ streak < IdleThreshold
      /\ idleRun \in 0..IdleThreshold
      /\ step = [k \in Call |-> step[k]] /\ newStreak = [k \in Call |-> newStreak[k]]
      /\ newStreak[i] \in Nat
  BY DEF BA!AutostopAssumption, OneAtATime, BoxTyped, BA!TypeOK
<1> SUFFICES StreakIsBacked(i)'
  <2>1. \A h : h = i => (StreakIsBacked(h)' <=> StreakIsBacked(i)')
    OBVIOUS
  <2> QED
    BY <1>0, <2>1, CheckTyped
<1>1. CASE BA!Invoked(i) \/ BA!CheckState(i) \/ BA!Probe(i) \/ BA!ProbeAborts(i)
  BY <1>0, <1>1 DEF BA!Invoked, BA!CheckState, BA!Probe, BA!ProbeAborts, StreakIsBacked
<1>2. CASE BA!CheckBatch(i)
  <2>1. /\ step[i] = "batch" /\ UNCHANGED <<streak, newStreak>>
        /\ \/ step' = [step EXCEPT ![i] = "zero"] /\ idleRun' = 0
           \/ /\ step' = [step EXCEPT ![i] = "read"]
              /\ idleRun' = (IF idleRun < IdleThreshold THEN idleRun + 1 ELSE idleRun)
    BY <1>2 DEF BA!CheckBatch, BA!BusyZeroes
  <2> QED
    BY <1>0, <2>1 DEF StreakIsBacked
<1>3. CASE BA!ReadStreak(i)
  <2>1. PICK s \in {0, streak} :
           /\ newStreak' = [newStreak EXCEPT ![i] = s + 1]
           /\ step' = [step EXCEPT ![i] = IF s + 1 >= IdleThreshold THEN "stop" ELSE "write"]
    BY <1>3 DEF BA!ReadStreak
  <2>2. step[i] = "read" /\ UNCHANGED <<streak, idleRun>>
    BY <1>3 DEF BA!ReadStreak
  <2>3. s \in Nat /\ s + 1 <= idleRun
    BY <1>0, <2>1, <2>2 DEF StreakIsBacked
  <2> QED
    BY <1>0, <2>1, <2>2, <2>3 DEF StreakIsBacked
<1>4. CASE BA!Stop(i)
  BY <1>0, <1>4 DEF BA!Stop, StreakIsBacked
<1>5. CASE BA!WriteStreak(i)
  <2>1. /\ step[i] \in {"zero", "write"} /\ idleRun' = idleRun
        /\ step' = [step EXCEPT ![i] = "off"] /\ newStreak' = [newStreak EXCEPT ![i] = 0]
        /\ streak' = IF step[i] = "zero" THEN 0 ELSE newStreak[i]
    BY <1>5 DEF BA!WriteStreak, BA!Persisted, OneAtATime
  <2> QED
    BY <1>0, <2>1 DEF StreakIsBacked
<1> QED
  BY <1>1, <1>2, <1>3, <1>4, <1>5 DEF BA!Check

LEMMA BoxStep ==
    BA!AutostopAssumption /\ OneAtATime /\ BoxInv /\ [BA!Next]_(BA!vars) => BoxInv'
<1> SUFFICES ASSUME BA!AutostopAssumption, OneAtATime, BoxInv, [BA!Next]_(BA!vars)
             PROVE  BoxInv'
  OBVIOUS
<1>1. BoxTyped'
  BY BoxTypedStep DEF BoxInv
<1>2. CASE UNCHANGED BA!vars
  BY <1>1, <1>2 DEF BA!vars, BoxInv, StreakIsBacked
<1>3. ASSUME NEW i \in Call, BA!Check(i) PROVE BoxInv'
  BY <1>3, CheckBacked
<1>4. CASE BA!Wake \/ BA!AskSleep \/ BA!Sleep \/ BA!StopEnds \/ BA!Boots \/ BA!Works
  BY <1>1, <1>4 DEF BA!Wake, BA!AskSleep, BA!Sleep, BA!StopEnds, BA!Boots, BA!Works, BoxInv,
    StreakIsBacked
<1> QED
  BY <1>2, <1>3, <1>4 DEF BA!Next

\* With one invocation at a time and no write lost, the idle check stops the box
\* only after IDLE_THRESHOLD_CHECKS idle polls in a row, whatever the user, the agent
\* and the failing reads do in between.
THEOREM AutostopEarned == ASSUME OneAtATime PROVE Spec => AutostopIsEarned
<1> DEFINE Inv == part = "box" => BoxInv
<1>0. BA!AutostopAssumption
  BY PartsAssumption DEF PartsAssumption
<1>1. Init => Inv
  BY <1>0, BoxInit DEF Init
<1>2. Inv /\ [Next]_vars => Inv'
  BY <1>0, BoxStep DEF Next, vars, boxVars, BA!vars, BA!world
<1>3. Inv /\ [Next]_vars => [part = "box" => BA!StopsEarned]_boxVars
  <2> SUFFICES ASSUME Inv, part = "box", NEW i \in Call, BA!Stops(i)
               PROVE  idleRun >= IdleThreshold
    BY DEF BA!StopsEarned
  <2> QED
    BY DEF BA!Stops, BoxInv, StreakIsBacked
<1> QED
  BY <1>1, <1>2, <1>3, PTL DEF Spec, AutostopIsEarned

-----------------------------------------------------------------------------
(* Types, of every part                                                     *)

TurnsPart == part = "turns" => LT!TurnsInv

LEMMA TurnsPartAlways == Spec => []TurnsPart
<1>0. LT!Hypothesis
  BY PartsAssumption DEF PartsAssumption, LT!Hypothesis
<1>1. Init => TurnsPart
  BY <1>0, LT!TurnsInit DEF Init, TurnsPart
<1>2. TurnsPart /\ [Next]_vars => TurnsPart'
  BY <1>0, LT!TurnsStep DEF TurnsPart, Next, vars, turnsVars, LT!vars, LT!connVars,
    LT!turnVars
<1> QED
  BY <1>1, <1>2, PTL DEF Spec

BoxPart == part = "box" => BoxTyped

LEMMA BoxPartAlways == Spec => []BoxPart
<1>0. BA!AutostopAssumption
  BY PartsAssumption DEF PartsAssumption
<1>1. Init => BoxPart
  BY <1>0, BoxInit DEF Init, BoxPart, BoxInv
<1>2. BoxPart /\ [Next]_vars => BoxPart'
  BY <1>0, BoxTypedStep DEF BoxPart, Next, vars, boxVars, BA!vars, BA!world
<1> QED
  BY <1>1, <1>2, PTL DEF Spec

ClientPart == part = "client" => CS!ClientInv

LEMMA ClientPartAlways == Spec => []ClientPart
<1>0. CS!SocketAssumption
  BY PartsAssumption DEF PartsAssumption
<1>1. Init => ClientPart
  BY <1>0, CS!ClientInit DEF Init, ClientPart
<1>2. ClientPart /\ [Next]_vars => ClientPart'
  BY <1>0, CS!ClientStep DEF ClientPart, Next, vars, clientVars, CS!vars,
    CS!sockets, CS!clocks, CS!flags, CS!intents
<1> QED
  BY <1>1, <1>2, PTL DEF Spec

\* The state of every part has its types: in particular the marker never goes below
\* zero, a job is terminated once at most, the streak stays below the threshold's
\* reach, and a socket handler waits for a task exactly while it handles a cancel.
THEOREM AgentTypeOK == ASSUME IsFiniteSet(Turn) PROVE Spec => []TypeOK
<1>1. LivenessPart => (part = "liveness" => AL!TypeOK)
  BY DEF LivenessPart, AL!LivenessInv, AL!MarkInv
<1>2. TurnsPart => (part = "turns" => LT!TypeOK)
  BY DEF TurnsPart, LT!TurnsInv
<1>3. JobsPart => (part = "jobs" => SJ!TypeOK)
  BY DEF JobsPart, JobInv
<1>4. BoxPart => (part = "box" => BA!TypeOK)
  BY DEF BoxPart, BoxTyped
<1>5. ClientPart => (part = "client" => CS!TypeOK)
  BY CS!ClientSafe DEF ClientPart
<1>6. LivenessPart /\ TurnsPart /\ JobsPart /\ BoxPart /\ ClientPart => TypeOK
  BY <1>1, <1>2, <1>3, <1>4, <1>5 DEF TypeOK
<1> QED
  BY <1>6, LivenessPartAlways, TurnsPartAlways, JobsPartAlways, BoxPartAlways,
    ClientPartAlways, PTL
=============================================================================
