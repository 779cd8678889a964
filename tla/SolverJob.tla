------------------------------- MODULE SolverJob -------------------------------
(***************************************************************************)
(* The Batch jobs of one turn: they are submitted, waited for, timed out   *)
(* and, when the turn is cancelled, terminated. A job outlives the turn    *)
(* unless somebody asks AWS to terminate it. The worker in its container   *)
(* leaves a completion.json, which the agent polls.                        *)
(***************************************************************************)
EXTENDS Naturals

CONSTANTS
    Job,       \* the jobs the turn may submit: a bound
    None,
    Deadline   \* timeout_s, in ticks since the submission

VARIABLES
    offload,     \* does the turn call run_solver in a worker thread?
    pc,          \* where the turn is
    cur,         \* the job whose handle it holds, or None
    thread,      \* the job a worker thread is submitting, or None
    tracked,     \* _INFLIGHT_BATCH_JOBS of the turn
    job,         \* Job -> its state at AWS
    completion,  \* Job -> the status in its completion.json, or None
    stops,       \* Job -> how often terminate_job was called
    age,         \* Job -> ticks since its submission
    verdict      \* Job -> the status of its RunResult, or None

vars == <<offload, pc, cur, thread, tracked, job, completion, stops, age, verdict>>
agentVars == <<offload, pc, cur, thread, tracked, stops, verdict>>

JobAssumption == Deadline \in Nat \ {0} /\ None \notin Job

Polling == {"look", "found", "status", "expired", "stopping"}

-----------------------------------------------------------------------------
(* run_solver                                                               *)

\* submit_job, then _register_inflight_batch_job. On the loop nothing comes
\* between the two.
SubmitOnLoop(j) ==
    /\ ~offload /\ pc = "composing" /\ cur = None /\ job[j] = "none"
    /\ job' = [job EXCEPT ![j] = "live"]
    /\ tracked' = tracked \cup {j}
    /\ cur' = j
    /\ UNCHANGED <<offload, pc, thread, completion, stops, age, verdict>>

\* Off the loop the turn awaits the thread ...
SubmitInThread(j) ==
    /\ offload /\ pc = "composing" /\ cur = None /\ thread = None /\ job[j] = "none"
    /\ pc' = "submitting"
    /\ thread' = j
    /\ UNCHANGED <<offload, cur, tracked, job, completion, stops, age, verdict>>

\* ... which goes on when the await is cancelled.
ThreadSubmits ==
    /\ thread # None /\ job[thread] = "none"
    /\ job' = [job EXCEPT ![thread] = "live"]
    /\ UNCHANGED <<agentVars, completion, age>>

ThreadRegisters ==
    /\ thread # None /\ job[thread] # "none"
    /\ tracked' = tracked \cup {thread}
    /\ thread' = None
    /\ IF pc = "submitting" THEN pc' = "composing" /\ cur' = thread ELSE UNCHANGED <<pc, cur>>
    /\ UNCHANGED <<offload, job, completion, stops, age, verdict>>

\* submit_job raises: the composer returns a failed envelope.
SubmitFails ==
    /\ thread # None /\ job[thread] = "none"
    /\ thread' = None
    /\ pc' = IF pc = "submitting" THEN "composing" ELSE pc
    /\ UNCHANGED <<offload, cur, tracked, job, completion, stops, age, verdict>>

-----------------------------------------------------------------------------
(* wait_for_completion                                                      *)

HandleHeld == cur # None

Wait ==
    /\ pc = "composing" /\ HandleHeld
    /\ pc' = "look"
    /\ UNCHANGED <<offload, cur, thread, tracked, job, completion, stops, age, verdict>>

\* _try_get_completion_s3. A read that fails looks like no completion yet.
Look ==
    /\ pc = "look"
    /\ \/ completion[cur] # None /\ pc' = "found"
       \/ pc' = "status"
    /\ UNCHANGED <<offload, cur, thread, tracked, job, completion, stops, age, verdict>>

\* Mutant: the tracking is left to the end of the turn.
TrackingKept == UNCHANGED tracked

\* _clear_inflight_batch_job
TrackingCleared == tracked' = tracked \ {cur}

\* The wait returns: the job is no longer tracked.
Returns(v) ==
    /\ verdict' = [verdict EXCEPT ![cur] = v]
    /\ TrackingCleared
    /\ cur' = None
    /\ pc' = "composing"
    /\ UNCHANGED <<offload, thread, job, completion, age>>

\* The compute meta is read first: an await on which a cancel may land.
ReturnFound ==
    /\ pc = "found"
    /\ Returns(IF completion[cur] = "ok" THEN "complete" ELSE "failed")
    /\ UNCHANGED stops

\* Batch says FAILED before a completion was seen.
ReturnEarlyFailed ==
    /\ pc = "status" /\ job[cur] = "failed"
    /\ Returns("failed")
    /\ UNCHANGED stops

\* Mutant: the poll only trusts the job to end.
NeverOvertime(j) == FALSE

Overtime(j) == age[j] >= Deadline

\* No FAILED (or an unreadable status): give up at the deadline, or sleep.
PollAgain ==
    /\ pc = "status"
    /\ pc' = IF Overtime(cur) THEN "expired" ELSE "look"
    /\ UNCHANGED <<offload, cur, thread, tracked, job, completion, stops, age, verdict>>

Terminate(js) == stops' = [j \in Job |-> IF j \in js THEN stops[j] + 1 ELSE stops[j]]

\* At the deadline: terminate_job in an executor, which is awaited ...
StopExpired ==
    /\ pc = "expired"
    /\ Terminate({cur})
    /\ pc' = "stopping"
    /\ UNCHANGED <<offload, cur, thread, tracked, job, completion, age, verdict>>

\* ... and only then is the tracking dropped.
ReturnTimeout ==
    /\ pc = "stopping"
    /\ Returns("timeout")
    /\ UNCHANGED stops

-----------------------------------------------------------------------------
(* The end of the turn                                                      *)

\* A cancel during the wait: its handler terminates the job, then re-raises. It
\* does so too when the deadline has just terminated it.
CancelWait ==
    /\ pc \in Polling
    /\ Terminate({cur})
    /\ tracked' = tracked \ {cur}
    /\ verdict' = [verdict EXCEPT ![cur] = "cancelled"]
    /\ pc' = "unwinding"
    /\ UNCHANGED <<offload, cur, thread, job, completion, age>>

\* A cancel anywhere else, or the turn is through without a wait.
LeaveTurn ==
    /\ pc \in {"composing", "submitting"}
    /\ pc' = "unwinding"
    /\ UNCHANGED <<offload, cur, thread, tracked, job, completion, stops, age, verdict>>

\* Mutant: a turn that is cancelled between submit and wait is just dropped.
DropTracked == tracked' = {} /\ UNCHANGED stops

\* terminate_inflight_batch_jobs
KillTracked == tracked' = {} /\ Terminate(tracked)

\* _terminate_turn_inflight_batch_jobs, first in the finally, shielded.
EndTurn ==
    /\ pc = "unwinding"
    /\ KillTracked
    /\ pc' = "over"
    /\ UNCHANGED <<offload, cur, thread, job, completion, age, verdict>>

-----------------------------------------------------------------------------
(* AWS Batch and the worker                                                 *)

\* The entrypoint writes its completion last, then exits with the code of the
\* solver: a clean run with an empty result is an error too.
WorkerCompletes(j) ==
    /\ job[j] = "live" /\ completion[j] = None
    /\ \E s \in {"ok", "error"} : completion' = [completion EXCEPT ![j] = s]
    /\ UNCHANGED <<agentVars, job, age>>

WorkerExits(j) ==
    /\ job[j] = "live" /\ completion[j] # None
    /\ \E end \in {"succeeded", "failed"} :
          /\ completion[j] = "ok" => end = "succeeded"
          /\ job' = [job EXCEPT ![j] = end]
    /\ UNCHANGED <<agentVars, completion, age>>

\* The Spot host is reclaimed, the image cannot be pulled, the entrypoint dies,
\* or the job is terminated: no handler catches SIGTERM.
JobDies(j) ==
    /\ job[j] = "live"
    /\ job' = [job EXCEPT ![j] = "failed"]
    /\ UNCHANGED <<agentVars, completion, age>>

Tick ==
    /\ \E j \in Job : job[j] # "none" /\ age[j] < Deadline
    /\ age' = [j \in Job |-> IF job[j] # "none" /\ age[j] < Deadline THEN age[j] + 1
                             ELSE age[j]]
    /\ UNCHANGED <<agentVars, job, completion>>

-----------------------------------------------------------------------------
Init ==
    /\ offload \in BOOLEAN
    /\ pc = "composing" /\ cur = None /\ thread = None /\ tracked = {}
    /\ job = [j \in Job |-> "none"]
    /\ completion = [j \in Job |-> None]
    /\ stops = [j \in Job |-> 0]
    /\ age = [j \in Job |-> 0]
    /\ verdict = [j \in Job |-> None]

Next ==
    \/ \E j \in Job : \/ SubmitOnLoop(j) \/ SubmitInThread(j)
                      \/ WorkerCompletes(j) \/ WorkerExits(j) \/ JobDies(j)
    \/ ThreadSubmits \/ ThreadRegisters \/ SubmitFails
    \/ Wait \/ Look \/ ReturnFound \/ ReturnEarlyFailed \/ PollAgain \/ StopExpired
    \/ ReturnTimeout \/ CancelWait \/ LeaveTurn \/ EndTurn
    \/ Tick

\* The poll loop runs and time passes. Neither the job nor its worker has to end.
Poll == Look \/ PollAgain \/ StopExpired \/ ReturnTimeout \/ ReturnFound

Spec == Init /\ [][Next]_vars

FairSpec == Spec /\ WF_vars(Poll) /\ WF_vars(Tick)

-----------------------------------------------------------------------------
\* Types. A handle is held throughout the wait. A job is terminated once, or a second
\* time by a cancel that lands while the deadline's terminate is awaited.
TypeOK ==
    /\ offload \in BOOLEAN
    /\ pc \in Polling \cup {"composing", "submitting", "unwinding", "over"}
    /\ cur \in Job \cup {None} /\ thread \in Job \cup {None}
    /\ pc \in Polling => cur # None
    /\ tracked \subseteq Job
    /\ job \in [Job -> {"none", "live", "succeeded", "failed"}]
    /\ completion \in [Job -> {None, "ok", "error"}]
    /\ stops \in [Job -> 0..2]
    /\ age \in [Job -> 0..Deadline]
    /\ verdict \in [Job -> {None, "complete", "failed", "timeout", "cancelled"}]

\* Nobody will wait for a job of a turn that is over: it has ended, has left its
\* completion, or was asked to stop.
Settled(j) == job[j] # "live" \/ completion[j] # None \/ stops[j] > 0

\* When the submission ran on the loop, no job of a turn that is over computes on
\* for nobody, wherever the cancel landed.
NoOrphanOnLoop == pc = "over" /\ ~offload => \A j \in Job : Settled(j)

\* What the comment at the submission promises in every case ("a cancel that lands
\* BEFORE wait_for_completion is awaited still terminates this Batch job").
NoOrphanJob == pc = "over" /\ thread = None => \A j \in Job : Settled(j)

LeavesDoneAlone == \A j \in Job : verdict[j] # None => stops'[j] = stops[j]

\* A job the wait has given its verdict on is left alone by the end of the turn
\* ("the turn-cancel cleanup must NOT re-terminate it").
DoneIsLeftAlone == [][LeavesDoneAlone]_vars

Waiting == pc \in Polling

\* Every wait ends, also on a job that never ends, never writes a completion or
\* whose completion can never be read.
WaitEnds == Waiting ~> ~Waiting
=============================================================================
