---------------------------- MODULE AgentLiveness ----------------------------
(***************************************************************************)
(* What the agent process says of its own liveness: the marker that counts *)
(* solver dispatches and clears itself when it looks stranded, is_busy(),  *)
(* and the monitor that samples both and ends an abandoned process. This   *)
(* is the detail behind Busy and IdleExit of AgentTask.                    *)
(***************************************************************************)
EXTENDS Naturals, FiniteSets

CONSTANTS
    Turn,           \* slots for turns that run at the same time: a bound
    Client,         \* slots for attached sockets: a bound
    None,
    SampleEvery,    \* _IDLE_EXIT_CHECK_INTERVAL_S, in ticks
    IdleExitAfter,  \* GRACE2_AGENT_IDLE_EXIT_SECONDS, in ticks
    SolveStale,     \* GRACE2_SOLVE_STALE_SECONDS, in ticks
    SolveMax,       \* the longest that a dispatch which does not hang takes, in ticks
    Hangs           \* may the await of a dispatch hang for good?

VARIABLES
    up,         \* the process runs
    attached,   \* _ACTIVE_WS_CONNECTIONS
    turn,       \* Turn -> the state of its task
    spent,      \* Turn -> ticks spent in the current solver dispatch
    writing,    \* a coldview PUT is pending in _BG_SNAPSHOT_TASKS
    marker,     \* _SOLVE_IN_FLIGHT
    markerAge,  \* ticks since _SOLVE_STARTED_AT, or None
    idleFor,    \* ticks since idle_since, or None
    nextSample, \* ticks until the monitor wakes up
    presence,   \* history: ticks that somebody or something is there on end, up to LongStay
    quietFor    \* history: ticks since such a stay was long, up to IdleExitAfter

vars == <<up, attached, turn, spent, writing, marker, markerAge, idleFor, nextSample,
          presence, quietFor>>
workVars == <<turn, spent, writing, marker, markerAge>>
monitorVars == <<idleFor, nextSample>>

\* A dispatch waits at most 1800 s for its job, and besides prepares its inputs and
\* waits for credentials: it may outlast the stale window of 2400 s.
LivenessAssumption ==
    /\ SampleEvery \in Nat \ {0} /\ IdleExitAfter \in Nat \ {0}
    /\ SolveMax \in Nat /\ SolveStale \in Nat
    /\ Hangs \in BOOLEAN /\ None \notin Nat

-----------------------------------------------------------------------------
(* The signals                                                              *)

Dispatching == {t \in Turn : turn[t] \in {"solving", "hung"}}

\* inflight_turn_count() > 0
TurnInFlight == \E t \in Turn : turn[t] # "off"

\* The verdict of the auto-clear in solve_in_flight_count.
Stranded == marker > 0 /\ markerAge # None /\ markerAge > SolveStale

\* is_busy: a turn, a solve, or a pending PUT.
IsBusy == TurnInFlight \/ (marker > 0 /\ ~Stranded) \/ writing

\* Mutant: no auto-clear.
CountOnly == UNCHANGED <<marker, markerAge>>

\* solve_in_flight_count zeroes a stranded marker on the way. Only the monitor's
\* own read gets there: in is_busy(), and so in GET /api/health, the turn of the
\* stranded dispatch is counted first and the `or` stops.
CountRead ==
    /\ marker' = IF Stranded THEN 0 ELSE marker
    /\ markerAge' = IF Stranded THEN None ELSE markerAge

-----------------------------------------------------------------------------
(* History: how long the process is in use                                  *)

InUse == attached # {} \/ TurnInFlight \/ writing

\* A stay of this many ticks is there at a sample.
LongStay == SampleEvery + 1

UpTo(bound, n) == IF n <= bound THEN n ELSE bound

Noted(ticks) ==
    /\ presence' = IF InUse' THEN UpTo(LongStay, presence + ticks) ELSE 0
    /\ quietFor' = IF presence' = LongStay THEN 0 ELSE UpTo(IdleExitAfter, quietFor + ticks)

-----------------------------------------------------------------------------
(* Clients and work                                                         *)

Attach(c) ==
    /\ up /\ c \notin attached
    /\ attached' = attached \cup {c}
    /\ UNCHANGED <<up, workVars, monitorVars>>
    /\ Noted(0)

Detach(c) ==
    /\ up /\ c \in attached
    /\ attached' = attached \ {c}
    /\ UNCHANGED <<up, workVars, monitorVars>>
    /\ Noted(0)

StartTurn(t) ==
    /\ up /\ attached # {} /\ turn[t] = "off"
    /\ turn' = [turn EXCEPT ![t] = "running"]
    /\ UNCHANGED <<up, attached, spent, writing, marker, markerAge, monitorVars>>
    /\ Noted(0)

\* Mutant: the clock of the marker starts only with the first dispatch.
MarkerAgeKept == IF markerAge = None THEN 0 ELSE markerAge

\* _solve_started refreshes _SOLVE_STARTED_AT on each increment.
MarkerAgeReset == 0

SolveStarted(t) ==
    /\ up /\ turn[t] = "running"
    /\ turn' = [turn EXCEPT ![t] = "solving"]
    /\ spent' = [spent EXCEPT ![t] = 0]
    /\ marker' = marker + 1
    /\ markerAge' = MarkerAgeReset
    /\ UNCHANGED <<up, attached, writing, monitorVars>>
    /\ Noted(0)

\* Mutant: _solve_finished is not in a finally.
MarkerKept == marker

\* _solve_finished never goes below zero.
MarkerReleased == IF marker > 0 THEN marker - 1 ELSE 0

\* Mutant: the start time outlives the last dispatch.
AgeNotReleased(left) == markerAge

AgeReleased(left) == IF left = 0 THEN None ELSE markerAge

\* The finally of the dispatch, whichever way it ends: _solve_finished. A hung
\* one gets there when the user stops its turn.
DispatchEnds(t) ==
    /\ turn' = [turn EXCEPT ![t] = "running"]
    /\ spent' = [spent EXCEPT ![t] = 0]
    /\ marker' = MarkerReleased
    /\ markerAge' = AgeReleased(MarkerReleased)
    /\ UNCHANGED <<up, attached, writing, monitorVars>>
    /\ Noted(0)

SolveFinished(t) == up /\ turn[t] = "solving" /\ DispatchEnds(t)

HungSolveStopped(t) == up /\ turn[t] = "hung" /\ attached # {} /\ DispatchEnds(t)

\* An await inside the dispatch never returns: its finally is never reached.
SolveHangs(t) ==
    /\ up /\ Hangs /\ turn[t] = "solving"
    /\ turn' = [turn EXCEPT ![t] = "hung"]
    /\ UNCHANGED <<up, attached, spent, writing, marker, markerAge, monitorVars>>
    /\ Noted(0)

\* The turn is over. The refresh of the coldview snapshot may be detached.
EndTurn(t) ==
    /\ up /\ turn[t] = "running"
    /\ turn' = [turn EXCEPT ![t] = "off"]
    /\ writing' \in {writing, TRUE}
    /\ UNCHANGED <<up, attached, spent, marker, markerAge, monitorVars>>
    /\ Noted(0)

WriteLands ==
    /\ up /\ writing
    /\ writing' = FALSE
    /\ UNCHANGED <<up, attached, turn, spent, marker, markerAge, monitorVars>>
    /\ Noted(0)

-----------------------------------------------------------------------------
(* _run_idle_exit_monitor                                                   *)

Idle == ~IsBusy /\ attached = {}

\* Mutant: each idle sample starts the window again.
WindowRestarted == IF Idle THEN 0 ELSE None

\* Mutant: the window goes on through a sample that is not idle.
WindowKept == IF Idle /\ idleFor = None THEN 0 ELSE idleFor

\* _idle_exit_decision, the new idle_since.
IdleWindow == IF ~Idle THEN None ELSE IF idleFor = None THEN 0 ELSE idleFor

\* The rest of _idle_exit_decision: should_exit.
ShouldExit == Idle /\ idleFor # None /\ idleFor >= IdleExitAfter

\* One turn of the monitor's loop. Nothing suspends between the sample and
\* os._exit: with no PUT pending the drain returns at once.
Sample ==
    /\ up /\ nextSample = 0
    /\ CountRead
    /\ idleFor' = IdleWindow
    /\ up' = ~ShouldExit
    /\ nextSample' = SampleEvery
    /\ UNCHANGED <<attached, turn, spent, writing>>
    /\ Noted(0)

\* The end of the process ends all it ran; the monitor is not late by a tick.
Tick ==
    /\ up /\ nextSample > 0
    /\ \A t \in Turn : turn[t] = "solving" => spent[t] < SolveMax
    /\ nextSample' = nextSample - 1
    /\ spent' = [t \in Turn |-> IF turn[t] = "solving" THEN spent[t] + 1 ELSE spent[t]]
    /\ markerAge' = IF markerAge = None \/ markerAge > SolveStale
                    THEN markerAge ELSE markerAge + 1
    /\ idleFor' = IF idleFor = None \/ idleFor = IdleExitAfter THEN idleFor ELSE idleFor + 1
    /\ UNCHANGED <<up, attached, turn, writing, marker>>
    /\ Noted(1)

-----------------------------------------------------------------------------
Init ==
    /\ up = TRUE
    /\ attached = {}
    /\ turn = [t \in Turn |-> "off"]
    /\ spent = [t \in Turn |-> 0]
    /\ writing = FALSE
    /\ marker = 0 /\ markerAge = None
    /\ idleFor = None
    /\ nextSample = SampleEvery
    /\ presence = 0 /\ quietFor = 0

Next ==
    \/ \E c \in Client : Attach(c) \/ Detach(c)
    \/ \E t \in Turn : \/ StartTurn(t) \/ EndTurn(t)
                       \/ SolveStarted(t) \/ SolveFinished(t)
                       \/ SolveHangs(t) \/ HungSolveStopped(t)
    \/ WriteLands
    \/ Sample
    \/ Tick

Spec == Init /\ [][Next]_vars

\* The loop runs, a PUT ends, a turn that does not hang ends. Clients are free.
FairSpec ==
    /\ Spec
    /\ WF_vars(Tick) /\ WF_vars(Sample) /\ WF_vars(WriteLands)
    /\ \A t \in Turn : WF_vars(SolveFinished(t)) /\ SF_vars(EndTurn(t))

-----------------------------------------------------------------------------
\* Types. The start time is kept exactly while the marker is up, so that the
\* age of a later solve is never measured from an earlier one.
TypeOK ==
    /\ up \in BOOLEAN
    /\ attached \subseteq Client
    /\ turn \in [Turn -> {"off", "running", "solving", "hung"}]
    /\ spent \in [Turn -> 0..SolveMax]
    /\ writing \in BOOLEAN
    /\ marker \in Nat
    /\ marker = 0 <=> markerAge = None
    /\ markerAge \in (0..(SolveStale + 1)) \cup {None}
    /\ idleFor \in (0..IdleExitAfter) \cup {None}
    /\ nextSample \in 0..SampleEvery
    /\ presence \in 0..LongStay
    /\ quietFor \in 0..IdleExitAfter

\* No dispatch leaves a mark behind when it is over, whatever the order in which
\* overlapping ones end and whatever was cleared before: what the marker counts
\* is never more than what runs (_solve_finished).
MarkerNeverLeaks == marker <= Cardinality(Dispatching)

\* The auto-clear takes no dispatch for a stranded one before the stale window has
\* passed since that dispatch began, however many overlap and whatever else hangs.
\* The comment says more, "a healthy in-flight solve is NEVER falsely cleared": one
\* whose preparation and waits together outlast the window is.
NeverClearedEarly == Stranded => \A t \in Turn : turn[t] = "solving" => spent[t] > SolveStale

NoneSolving == \A t \in Turn : turn[t] # "solving"
MarkerGone == marker = 0 \/ ~up

\* A marker that stands for hung dispatches only is cleared, whatever
\* else runs ("the safety net").
HungMarkerClears == <>[]NoneSolving => <>[]MarkerGone

ExitsOnlyIdle == up /\ ~up' => ~InUse /\ quietFor = IdleExitAfter

\* The process never ends itself with a client attached, a turn or a solve running, or
\* a coldview PUT on its way, nor before a whole window has passed since it was last
\* in use for longer than a sampling interval, although the monitor sees it at its
\* samples only (_run_idle_exit_monitor). The docstring says more, "any client attach
\* or any in-flight work RESETS the clock": what comes and goes between two samples
\* does not.
NeverExitsAtWork == [][ExitsOnlyIdle]_vars

Abandoned == attached = {} /\ ~TurnInFlight

\* An abandoned process ends itself: once there is neither a client nor work for
\* good, the idle exit comes, without any help from the reaper.
AbandonedExits == <>[]Abandoned => <>(~up)
=============================================================================
