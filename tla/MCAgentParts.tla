----------------------------- MODULE MCAgentParts -----------------------------
(***************************************************************************)
(* What must happen in the agent, its jobs, its box and its client: parts  *)
(* that share no state in their models, for one run of TLC, as in          *)
(* MCChatParts. The fairness of each part is that of its own module.       *)
(***************************************************************************)
EXTENDS Naturals, TLC

CONSTANTS
    Turn, Client, Conn, Chat, Stream, Job, Call, Socket, None,
    SampleEvery, IdleExitAfter, SolveStale, SolveMax, Hangs, Deadline,
    IdleThreshold, WritesFail, MaxQueue, MaxTimers, MaxRefreshes

VARIABLES
    part,
    \* AgentLiveness
    up, attached, turn, spent, writing, marker, markerAge, idleFor, nextSample,
    presence, quietFor,
    \* LiveTurns
    open, conn, want, lastPin, target, inflight, sink, active, registry, task, key, by,
    \* SolverJob
    offload, at, cur, thread, tracked, job, completion, stops, age, verdict,
    \* BoxAutostop
    ec2, busy, batch, calm, streak, step, saw, newStreak, asleep, idleRun,
    \* ClientSocket
    net, token, first, refused, current, timers, held, keepalive, pong, closed, failed,
    tried, refreshes, expired, queue, sent

AL == INSTANCE AgentLivenessProofs
LT == INSTANCE LiveTurnsProofs WITH turn <- task, pin <- lastPin, Overlap <- FALSE
SJ == INSTANCE SolverJob WITH pc <- at
BA == INSTANCE BoxAutostop WITH box <- ec2, pc <- step, next <- newStreak
CS == INSTANCE ClientSocketProofs WITH Intent <- {}

ASSUME PartsAssumption ==
    /\ AL!LivenessAssumption /\ LT!TurnsAssumption /\ SJ!JobAssumption
    /\ BA!AutostopAssumption /\ CS!SocketAssumption

livenessVars == <<up, attached, turn, spent, writing, marker, markerAge, idleFor,
                  nextSample, presence, quietFor>>
turnsVars == <<open, conn, want, lastPin, target, inflight, sink, active, registry, task,
               key, by>>
jobsVars == <<offload, at, cur, thread, tracked, job, completion, stops, age, verdict>>
boxVars == <<ec2, busy, batch, calm, streak, step, saw, newStreak, asleep, idleRun>>
clientVars == <<net, token, first, refused, current, timers, held, keepalive, pong, closed,
                failed, tried, refreshes, expired, queue, sent>>
vars == <<part, livenessVars, turnsVars, jobsVars, boxVars, clientVars>>

\* A part that is not run: its variables mean nothing.
LivenessOff ==
    /\ up = None /\ attached = None /\ turn = None /\ spent = None /\ writing = None
    /\ marker = None /\ markerAge = None /\ idleFor = None /\ nextSample = None
    /\ presence = None /\ quietFor = None

TurnsOff ==
    /\ open = None /\ conn = None /\ want = None /\ lastPin = None /\ target = None
    /\ inflight = None /\ sink = None /\ active = None /\ registry = None /\ task = None
    /\ key = None /\ by = None

JobsOff ==
    /\ offload = None /\ at = None /\ cur = None /\ thread = None /\ tracked = None
    /\ job = None /\ completion = None /\ stops = None /\ age = None /\ verdict = None

BoxOff ==
    /\ ec2 = None /\ busy = None /\ batch = None /\ calm = None /\ streak = None
    /\ step = None /\ saw = None /\ newStreak = None /\ asleep = None /\ idleRun = None

ClientOff ==
    /\ net = None /\ token = None /\ first = None /\ refused = None /\ current = None
    /\ timers = None /\ held = None /\ keepalive = None /\ pong = None /\ closed = None
    /\ failed = None /\ tried = None /\ refreshes = None /\ expired = None /\ queue = None
    /\ sent = None

Init ==
    \/ part = "liveness" /\ AL!Init /\ TurnsOff /\ JobsOff /\ BoxOff /\ ClientOff
    \/ part = "turns" /\ LT!Init /\ LivenessOff /\ JobsOff /\ BoxOff /\ ClientOff
    \/ part = "jobs" /\ SJ!Init /\ LivenessOff /\ TurnsOff /\ BoxOff /\ ClientOff
    \/ part = "box" /\ BA!Init /\ LivenessOff /\ TurnsOff /\ JobsOff /\ ClientOff
    \/ part = "client" /\ CS!Init /\ LivenessOff /\ TurnsOff /\ JobsOff /\ BoxOff

Next ==
    \/ part = "liveness" /\ AL!Next
       /\ UNCHANGED <<part, turnsVars, jobsVars, boxVars, clientVars>>
    \/ part = "turns" /\ LT!Next
       /\ UNCHANGED <<part, livenessVars, jobsVars, boxVars, clientVars>>
    \/ part = "jobs" /\ SJ!Next
       /\ UNCHANGED <<part, livenessVars, turnsVars, boxVars, clientVars>>
    \/ part = "box" /\ BA!Next
       /\ UNCHANGED <<part, livenessVars, turnsVars, jobsVars, clientVars>>
    \/ part = "client" /\ CS!Next
       /\ UNCHANGED <<part, livenessVars, turnsVars, jobsVars, boxVars>>

\* What is sure to happen: the fairness of AgentLiveness, of LiveTurns, the poll
\* loop and the clock, the schedule of the Lambda, and the timers of the browser.
Fairness ==
    /\ \A t \in Turn : SF_livenessVars(part = "liveness" /\ AL!EndTurn(t))
    /\ \A t \in Turn : WF_livenessVars(part = "liveness" /\ AL!SolveFinished(t))
    /\ WF_livenessVars(part = "liveness" /\ AL!Tick)
    /\ WF_livenessVars(part = "liveness" /\ AL!Sample)
    /\ WF_livenessVars(part = "liveness" /\ AL!WriteLands)
    /\ \A c \in Conn \ Chat : SF_turnsVars(part = "turns" /\ LT!Keepalive(c))
    /\ \A c \in Conn : WF_turnsVars(part = "turns" /\ LT!Handling(c))
    /\ WF_jobsVars(part = "jobs" /\ SJ!Poll) /\ WF_jobsVars(part = "jobs" /\ SJ!Tick)
    /\ \A i \in Call : WF_boxVars(part = "box" /\ BA!Check(i))
    /\ WF_clientVars(part = "client" /\ CS!Clock)
    /\ WF_clientVars(part = "client" /\ CS!CloseEnds)
    /\ WF_clientVars(part = "client" /\ CS!TokenEnds)

Spec == Init /\ [][Next]_vars /\ Fairness

-----------------------------------------------------------------------------
\* Types, of every part.
TypeOK ==
    /\ part = "liveness" => AL!TypeOK
    /\ part = "turns" => LT!TypeOK
    /\ part = "jobs" => SJ!TypeOK
    /\ part = "box" => BA!TypeOK
    /\ part = "client" => CS!TypeOK

\* AgentLiveness: no dispatch leaves a mark behind when it is over.
MarkerNeverLeaks == part = "liveness" => AL!MarkerNeverLeaks

\* AgentLiveness: no dispatch is taken for stranded before the stale window is over.
NeverClearedEarly == part = "liveness" => AL!NeverClearedEarly

\* AgentLiveness: a marker that stands for hung dispatches only is cleared.
HungMarkerClears ==
    <>[](part = "liveness" => AL!NoneSolving) => <>[](part = "liveness" => AL!MarkerGone)

\* AgentLiveness: the process never ends itself while it is used.
NeverExitsAtWork == [][part = "liveness" => AL!ExitsOnlyIdle]_livenessVars

\* AgentLiveness: an abandoned process ends itself.
AbandonedExits == <>[](part = "liveness" => AL!Abandoned) => <>(part = "liveness" => ~up)

\* LiveTurns: a dead socket does not keep the frames of a turn while an App socket
\* stays open.
FramesReachApp ==
    \A t \in Turn, c \in Conn \ Chat :
        (part = "turns" /\ LT!Watched(t, c)) ~> (part = "turns" => LT!FramesHeard(t, c))

\* SolverJob: no job of a turn that is over computes on for nobody.
NoOrphanOnLoop == part = "jobs" => SJ!NoOrphanOnLoop

\* SolverJob: a job with a verdict is left alone by the end of the turn.
DoneIsLeftAlone == [][part = "jobs" => SJ!LeavesDoneAlone]_jobsVars

\* SolverJob: every wait for a job ends.
WaitEnds == (part = "jobs" /\ SJ!Waiting) ~> (part = "jobs" => ~SJ!Waiting)

\* BoxAutostop: the box is stopped only after enough idle polls in a row.
AutostopIsEarned == [][part = "box" => BA!StopsEarned]_boxVars

\* BoxAutostop: a box whose agent has nothing to do does not stay up.
IdleBoxStops ==
    <>[](part = "box" => BA!NothingToDo) => []<>(part = "box" => ec2 # "running")

\* ClientSocket: a dead socket that still reports OPEN is noticed.
ZombieReplaced ==
    (part = "client" /\ CS!DeadCurrent) ~> (part = "client" => ~CS!DeadCurrent)
=============================================================================
