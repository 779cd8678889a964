------------------------------ MODULE BoxAutostop ------------------------------
(***************************************************************************)
(* The single-box deployment: a scheduled Lambda stops the agent's EC2 box *)
(* after a streak of idle polls, and the user wakes it or sends it to      *)
(* sleep through another Lambda. The streak is one item of a table.        *)
(***************************************************************************)
EXTENDS Naturals

CONSTANTS
    Call,           \* invocations of the idle check at the same time: a bound
    IdleThreshold,  \* IDLE_THRESHOLD_CHECKS
    WritesFail      \* may a write of the streak be lost?

VARIABLES
    box,     \* the EC2 state
    busy,    \* the agent runs a turn or a solve: what /api/health says
    batch,   \* a Batch job is in flight
    calm,    \* the EC2, Batch and health calls go through
    streak,  \* idle_streak in the table
    pc,      \* Call -> where the invocation is
    saw,     \* Call -> did its probe find the box busy?
    next,    \* Call -> the streak it is about to write
    asleep,  \* a user's stop request has found the box idle
    idleRun  \* history: polls in a row that found the box idle

world == <<busy, batch, calm>>
vars == <<box, world, streak, pc, saw, next, asleep, idleRun>>

AutostopAssumption == IdleThreshold \in Nat \ {0} /\ WritesFail \in BOOLEAN

-----------------------------------------------------------------------------
(* The idle check                                                           *)

Invoked(i) ==
    /\ pc[i] = "off"
    /\ pc' = [pc EXCEPT ![i] = "state"]
    /\ UNCHANGED <<box, world, streak, saw, next, asleep, idleRun>>

\* G1. An error reads as "unknown".
CheckState(i) ==
    /\ pc[i] = "state"
    /\ \/ /\ box = "running"
          /\ pc' = [pc EXCEPT ![i] = "probe"]
          /\ UNCHANGED idleRun
       \/ /\ box # "running" \/ ~calm
          /\ pc' = [pc EXCEPT ![i] = "zero"]
          /\ idleRun' = 0
    /\ UNCHANGED <<box, world, streak, saw, next, asleep>>

\* G2. What cannot be read is busy.
ProbeBusy == busy \/ box # "running" \/ ~calm

Probe(i) ==
    /\ pc[i] = "probe"
    /\ saw' = [saw EXCEPT ![i] = ProbeBusy]
    /\ pc' = [pc EXCEPT ![i] = "batch"]
    /\ UNCHANGED <<box, world, streak, next, asleep, idleRun>>

\* An error _probe_health does not catch (a truncated answer, a body that is no
\* object) ends the invocation: the streak stays as it was.
ProbeAborts(i) ==
    /\ pc[i] = "probe" /\ ~calm
    /\ pc' = [pc EXCEPT ![i] = "off"]
    /\ UNCHANGED <<box, world, streak, saw, next, asleep, idleRun>>

\* Mutant: a busy poll leaves the streak.
BusyLeavesStreak == "off"

BusyZeroes == "zero"

\* G3, and the verdict of the poll.
CheckBatch(i) ==
    /\ pc[i] = "batch"
    /\ LET found == saw[i] \/ batch \/ ~calm
       IN  /\ pc' = [pc EXCEPT ![i] = IF found THEN BusyZeroes ELSE "read"]
           /\ idleRun' = IF found THEN 0
                         ELSE IF idleRun < IdleThreshold THEN idleRun + 1 ELSE idleRun
    /\ UNCHANGED <<box, world, streak, saw, next, asleep>>

\* G4. A read that fails reads 0.
ReadStreak(i) ==
    /\ pc[i] = "read"
    /\ \E s \in (IF calm THEN {streak} ELSE {0, streak}) :
          /\ next' = [next EXCEPT ![i] = s + 1]
          /\ pc' = [pc EXCEPT ![i] = IF s + 1 >= IdleThreshold THEN "stop" ELSE "write"]
    /\ UNCHANGED <<box, world, streak, saw, asleep, idleRun>>

\* StopInstances, which may fail.
Stop(i) ==
    /\ pc[i] = "stop"
    /\ \/ box = "running" /\ box' = "stopping"
       \/ ~calm /\ UNCHANGED box
       \/ box # "running" /\ UNCHANGED box
    /\ pc' = [pc EXCEPT ![i] = "zero"]
    /\ UNCHANGED <<world, streak, saw, next, asleep, idleRun>>

\* Mutant: the streak lives in the Lambda.
NotPersisted(value) == UNCHANGED streak

\* _write_streak: a plain put.
Persisted(value) == streak' = value \/ (WritesFail /\ UNCHANGED streak)

WriteStreak(i) ==
    /\ pc[i] \in {"zero", "write"}
    /\ Persisted(IF pc[i] = "zero" THEN 0 ELSE next[i])
    /\ pc' = [pc EXCEPT ![i] = "off"]
    /\ next' = [next EXCEPT ![i] = 0]
    /\ saw' = [saw EXCEPT ![i] = FALSE]
    /\ UNCHANGED <<box, world, asleep, idleRun>>

-----------------------------------------------------------------------------
(* The user                                                                 *)

\* POST wake: only a stopped box is started. The streak is not touched.
Wake ==
    /\ box = "stopped"
    /\ box' = "pending"
    /\ UNCHANGED <<world, streak, pc, saw, next, asleep, idleRun>>

\* POST stop by a signed-in user: the probe, then StopInstances.
AskSleep ==
    /\ box = "running" /\ ~asleep /\ ~ProbeBusy
    /\ asleep' = TRUE
    /\ UNCHANGED <<box, world, streak, pc, saw, next, idleRun>>

Sleep ==
    /\ asleep
    /\ asleep' = FALSE
    /\ box' = IF box = "running" THEN "stopping" ELSE box
    /\ UNCHANGED <<world, streak, pc, saw, next, idleRun>>

-----------------------------------------------------------------------------
(* The box                                                                  *)

\* A box that stops takes its turn along; a job runs on.
StopEnds ==
    /\ box = "stopping"
    /\ box' = "stopped" /\ busy' = FALSE
    /\ UNCHANGED <<batch, calm, streak, pc, saw, next, asleep, idleRun>>

Boots ==
    /\ box = "pending"
    /\ box' = "running"
    /\ UNCHANGED <<world, streak, pc, saw, next, asleep, idleRun>>

\* Turns begin and end, jobs are submitted by turns and end, calls fail or not.
Works ==
    /\ \/ box = "running" /\ busy' = ~busy /\ UNCHANGED <<batch, calm>>
       \/ /\ batch \/ (busy /\ box = "running")
          /\ batch' = ~batch /\ UNCHANGED <<busy, calm>>
       \/ calm' = ~calm /\ UNCHANGED <<busy, batch>>
    /\ UNCHANGED <<box, streak, pc, saw, next, asleep, idleRun>>

-----------------------------------------------------------------------------
Init ==
    /\ box = "running" /\ busy = FALSE /\ batch = FALSE /\ calm = TRUE
    /\ streak = 0 /\ asleep = FALSE /\ idleRun = 0
    /\ pc = [i \in Call |-> "off"]
    /\ saw = [i \in Call |-> FALSE]
    /\ next = [i \in Call |-> 0]

Check(i) == \/ Invoked(i) \/ CheckState(i) \/ Probe(i) \/ ProbeAborts(i)
            \/ CheckBatch(i) \/ ReadStreak(i) \/ Stop(i) \/ WriteStreak(i)

Next ==
    \/ \E i \in Call : Check(i)
    \/ Wake \/ AskSleep \/ Sleep \/ StopEnds \/ Boots \/ Works

Spec == Init /\ [][Next]_vars

\* The schedule invokes the Lambda again and again, and an invocation ends.
FairSpec == Spec /\ \A i \in Call : WF_vars(Check(i))

-----------------------------------------------------------------------------
\* Types. Outside of an invocation nothing of it is left.
TypeOK ==
    /\ box \in {"running", "stopping", "stopped", "pending"}
    /\ {busy, batch, calm, asleep} \subseteq BOOLEAN
    /\ streak \in 0..IdleThreshold /\ idleRun \in 0..IdleThreshold
    /\ pc \in [Call -> {"off", "state", "probe", "batch", "read", "stop", "zero", "write"}]
    /\ saw \in [Call -> BOOLEAN]
    /\ next \in [Call -> 0..(IdleThreshold + 1)]

\* The step that is about to stop the box: G4 and StopInstances.
Stops(i) == pc[i] = "stop" /\ pc'[i] = "zero" /\ box = "running" /\ box' = "stopping"
StopsEarned == \A i \in Call : Stops(i) => idleRun >= IdleThreshold

\* The idle check stops the box only after IDLE_THRESHOLD_CHECKS polls in a row
\* that found it idle, the deciding one included: a busy poll, a box that was down
\* and a probe that failed start the count again. A poll that broke off at its probe
\* is none: it neither counts nor starts the count again.
AutostopIsEarned == [][StopsEarned]_vars

NothingToDo == ~busy /\ ~batch /\ calm

\* A box whose agent has nothing to do does not stay up, open tabs or not.
IdleBoxStops == <>[]NothingToDo => []<>(box # "running")
=============================================================================
