------------------------- MODULE AgentLivenessProofs -------------------------
(***************************************************************************)
(* Theorems about the marker of solver dispatches and the idle exit, for   *)
(* any number of turns and clients and any windows that keep to            *)
(* LivenessAssumption.                                                     *)
(***************************************************************************)
EXTENDS AgentLiveness, FiniteSetTheorems, TLAPS

\* The marker is as old as the youngest dispatch, or younger.
MarkerIsYoung ==
    \A t \in Turn : turn[t] = "solving" /\ markerAge # None => markerAge <= spent[t]

MarkInv == TypeOK /\ MarkerNeverLeaks /\ MarkerIsYoung

Finite == LivenessAssumption /\ IsFiniteSet(Turn)

LEMMA MarkInit == Finite /\ Init => MarkInv
<1> SUFFICES ASSUME Finite, Init PROVE MarkInv
  OBVIOUS
<1>1. TypeOK
  <2>1. spent \in [Turn -> 0..SolveMax] /\ nextSample \in 0..SampleEvery
    BY DEF Finite, LivenessAssumption, Init
  <2>2. turn \in [Turn -> {"off", "running", "solving", "hung"}] /\ attached \subseteq Client
    BY DEF Init
  <2>3. /\ marker \in Nat /\ (marker = 0 <=> markerAge = None)
        /\ markerAge \in (0..(SolveStale + 1)) \cup {None}
        /\ idleFor \in (0..IdleExitAfter) \cup {None}
    BY DEF Init
  <2>4. up \in BOOLEAN /\ writing \in BOOLEAN
    BY DEF Init
  <2>5. presence \in 0..LongStay /\ quietFor \in 0..IdleExitAfter
    BY DEF Init, LongStay, Finite, LivenessAssumption
  <2> QED
    BY <2>1, <2>2, <2>3, <2>4, <2>5 DEF TypeOK
<1>2. Dispatching = {}
  BY DEF Init, Dispatching
<1>3. MarkerNeverLeaks
  BY <1>2, FS_EmptySet DEF Init, MarkerNeverLeaks
<1>4. MarkerIsYoung
  BY DEF Init, MarkerIsYoung
<1> QED
  BY <1>1, <1>3, <1>4 DEF MarkInv

\* What the history says keeps its type.
LEMMA NotedTypes ==
    ASSUME Finite, TypeOK, Noted(0) \/ Noted(1)
    PROVE  presence' \in 0..LongStay /\ quietFor' \in 0..IdleExitAfter
BY DEF Finite, LivenessAssumption, TypeOK, Noted, UpTo, LongStay

LEMMA DispatchingFinite ==
    ASSUME Finite PROVE IsFiniteSet(Dispatching) /\ Cardinality(Dispatching) \in Nat
BY FS_Subset, FS_CardinalityType DEF Dispatching, Finite

-----------------------------------------------------------------------------
\* The steps of clients, of turns outside a dispatch, and of the pending PUT.
LEMMA OutsideDispatch ==
    ASSUME Finite, MarkInv,
           \/ \E c \in Client : Attach(c) \/ Detach(c)
           \/ \E t \in Turn : StartTurn(t) \/ EndTurn(t) \/ SolveHangs(t)
           \/ WriteLands
    PROVE  MarkInv'
<1> USE DEF MarkInv
<1>1. /\ UNCHANGED <<up, spent, marker, markerAge, idleFor, nextSample>>
      /\ attached' \subseteq Client /\ writing' \in BOOLEAN /\ Noted(0)
      /\ turn' \in [Turn -> {"off", "running", "solving", "hung"}]
      /\ \A t \in Turn : /\ turn'[t] = "solving" => turn[t] = "solving"
                         /\ turn'[t] \in {"solving", "hung"} <=> turn[t] \in {"solving", "hung"}
  <2>1. CASE \E c \in Client : Attach(c) \/ Detach(c)
    BY <2>1 DEF Attach, Detach, workVars, monitorVars, TypeOK
  <2>2. ASSUME NEW t \in Turn, StartTurn(t) \/ EndTurn(t) \/ SolveHangs(t)
        PROVE  /\ UNCHANGED <<up, attached, spent, marker, markerAge, idleFor, nextSample>>
               /\ writing' \in BOOLEAN /\ Noted(0)
               /\ \/ turn[t] = "off" /\ turn' = [turn EXCEPT ![t] = "running"]
                  \/ turn[t] = "running" /\ turn' = [turn EXCEPT ![t] = "off"]
                  \/ turn[t] = "solving" /\ turn' = [turn EXCEPT ![t] = "hung"]
    BY <2>2 DEF StartTurn, EndTurn, SolveHangs, monitorVars, TypeOK
  <2>3. CASE WriteLands
    BY <2>3 DEF WriteLands, monitorVars, TypeOK
  <2> QED
    BY <2>1, <2>2, <2>3 DEF TypeOK
<1>2. TypeOK'
  BY <1>1, NotedTypes DEF TypeOK
<1>3. Dispatching' = Dispatching
  BY <1>1 DEF Dispatching
<1>4. MarkerNeverLeaks' /\ MarkerIsYoung'
  BY <1>1, <1>3 DEF MarkerNeverLeaks, MarkerIsYoung
<1> QED
  BY <1>2, <1>4

LEMMA DispatchStarts ==
    ASSUME Finite, MarkInv, NEW t \in Turn, SolveStarted(t)
    PROVE  MarkInv'
<1> USE DEF MarkInv
<1>1. /\ turn[t] = "running" /\ turn' = [turn EXCEPT ![t] = "solving"]
      /\ spent' = [spent EXCEPT ![t] = 0]
      /\ marker' = marker + 1 /\ markerAge' = 0
      /\ UNCHANGED <<up, attached, writing, idleFor, nextSample>> /\ Noted(0)
  BY DEF SolveStarted, MarkerAgeReset, monitorVars
<1>2. TypeOK'
  BY <1>1, NotedTypes DEF TypeOK, Finite, LivenessAssumption
<1>3. t \notin Dispatching /\ Dispatching' = Dispatching \cup {t}
  BY <1>1 DEF Dispatching, TypeOK
<1>4. Cardinality(Dispatching') = Cardinality(Dispatching) + 1
  BY <1>3, DispatchingFinite, FS_AddElement
<1>5. MarkerNeverLeaks'
  BY <1>1, <1>4, DispatchingFinite DEF MarkerNeverLeaks, TypeOK
<1>6. MarkerIsYoung'
  BY <1>1 DEF MarkerIsYoung, TypeOK, Finite, LivenessAssumption
<1> QED
  BY <1>2, <1>5, <1>6

LEMMA DispatchOver ==
    ASSUME Finite, MarkInv, NEW t \in Turn, SolveFinished(t) \/ HungSolveStopped(t)
    PROVE  MarkInv'
<1> USE DEF MarkInv
<1>1. /\ turn[t] \in {"solving", "hung"} /\ turn' = [turn EXCEPT ![t] = "running"]
      /\ spent' = [spent EXCEPT ![t] = 0]
      /\ marker' = IF marker > 0 THEN marker - 1 ELSE 0
      /\ markerAge' = IF marker' = 0 THEN None ELSE markerAge
      /\ UNCHANGED <<up, attached, writing, idleFor, nextSample>> /\ Noted(0)
  BY DEF SolveFinished, HungSolveStopped, DispatchEnds, MarkerReleased, AgeReleased, monitorVars
<1>2. marker' \in Nat /\ marker' <= marker
  BY <1>1 DEF TypeOK
<1>3. TypeOK'
  BY <1>1, <1>2, NotedTypes DEF TypeOK, Finite, LivenessAssumption
<1>4. t \in Dispatching /\ Dispatching' = Dispatching \ {t}
  BY <1>1 DEF Dispatching, TypeOK
<1>5. Cardinality(Dispatching') = Cardinality(Dispatching) - 1
      /\ Cardinality(Dispatching') \in Nat
  BY <1>4, DispatchingFinite, FS_RemoveElement, FS_CardinalityType
<1>6. MarkerNeverLeaks'
  BY <1>1, <1>5, DispatchingFinite DEF MarkerNeverLeaks, TypeOK
<1>7. MarkerIsYoung'
  BY <1>1 DEF MarkerIsYoung, TypeOK
<1> QED
  BY <1>3, <1>6, <1>7

LEMMA MonitorSamples ==
    ASSUME Finite, MarkInv, Sample
    PROVE  MarkInv'
<1> USE DEF MarkInv
<1>1. /\ UNCHANGED <<attached, turn, spent, writing>>
      /\ \/ UNCHANGED <<marker, markerAge>>
         \/ marker' = 0 /\ markerAge' = None
      /\ nextSample' = SampleEvery /\ idleFor' \in (0..IdleExitAfter) \cup {None}
      /\ up' \in BOOLEAN /\ Noted(0)
  BY DEF Sample, CountRead, IdleWindow, ShouldExit, Idle, TypeOK, Finite, LivenessAssumption
<1>2. TypeOK'
  BY <1>1, NotedTypes DEF TypeOK, Finite, LivenessAssumption
<1>3. Dispatching' = Dispatching
  BY <1>1 DEF Dispatching
<1>4. MarkerNeverLeaks' /\ MarkerIsYoung'
  BY <1>1, <1>3, DispatchingFinite DEF MarkerNeverLeaks, MarkerIsYoung, TypeOK
<1> QED
  BY <1>2, <1>4

LEMMA TimePasses ==
    ASSUME Finite, MarkInv, Tick
    PROVE  MarkInv'
<1> USE DEF MarkInv
<1>1. /\ nextSample > 0 /\ nextSample' = nextSample - 1
      /\ \A t \in Turn : turn[t] = "solving" => spent[t] < SolveMax
      /\ spent' = [t \in Turn |-> IF turn[t] = "solving" THEN spent[t] + 1 ELSE spent[t]]
      /\ markerAge' = IF markerAge = None \/ markerAge > SolveStale
                      THEN markerAge ELSE markerAge + 1
      /\ idleFor' = IF idleFor = None \/ idleFor = IdleExitAfter THEN idleFor ELSE idleFor + 1
      /\ UNCHANGED <<up, attached, turn, writing, marker>> /\ Noted(1)
  BY DEF Tick
<1>2. spent' \in [Turn -> 0..SolveMax]
  BY <1>1 DEF TypeOK, Finite, LivenessAssumption
<1>3. /\ markerAge' \in (0..(SolveStale + 1)) \cup {None}
      /\ markerAge' = None <=> markerAge = None
  BY <1>1 DEF TypeOK, Finite, LivenessAssumption
<1>4. idleFor' \in (0..IdleExitAfter) \cup {None} /\ nextSample' \in 0..SampleEvery
  BY <1>1 DEF TypeOK, Finite, LivenessAssumption
<1>5. TypeOK'
  BY <1>1, <1>2, <1>3, <1>4, NotedTypes DEF TypeOK
<1>6. MarkerNeverLeaks'
  BY <1>1 DEF MarkerNeverLeaks, Dispatching
<1>7. MarkerIsYoung'
  <2> SUFFICES ASSUME NEW t \in Turn, turn[t] = "solving", markerAge' # None
               PROVE  markerAge' <= spent'[t]
    BY <1>1 DEF MarkerIsYoung
  <2>1. markerAge \in Nat /\ spent[t] \in Nat /\ markerAge <= spent[t]
    BY <1>3 DEF MarkerIsYoung, TypeOK, Finite, LivenessAssumption
  <2>2. markerAge' <= markerAge + 1 /\ spent'[t] = spent[t] + 1
    BY <1>1, <2>1 DEF Finite, LivenessAssumption
  <2>3. markerAge' \in Nat
    BY <1>1, <2>1
  <2> QED
    BY <2>1, <2>2, <2>3
<1> QED
  BY <1>5, <1>6, <1>7

LEMMA MarkStep == Finite /\ MarkInv /\ [Next]_vars => MarkInv'
<1> SUFFICES ASSUME Finite, MarkInv, [Next]_vars PROVE MarkInv'
  OBVIOUS
<1>1. CASE UNCHANGED vars
  BY <1>1 DEF vars, MarkInv, TypeOK, MarkerNeverLeaks, MarkerIsYoung, Dispatching
<1>2. ASSUME NEW t \in Turn, SolveStarted(t) PROVE MarkInv'
  BY <1>2, DispatchStarts
<1>3. ASSUME NEW t \in Turn, SolveFinished(t) \/ HungSolveStopped(t) PROVE MarkInv'
  BY <1>3, DispatchOver
<1> QED
  BY <1>1, <1>2, <1>3, OutsideDispatch, MonitorSamples, TimePasses DEF Next

-----------------------------------------------------------------------------
(* What the samples see                                                     *)

\* Who is there since before the last sample was there at that sample.
StayIsSeen == presence > SampleEvery - nextSample => idleFor = None

\* The window is no longer than the time since a long stay.
WindowIsQuiet == idleFor # None => idleFor <= quietFor

LivenessInv == MarkInv /\ StayIsSeen /\ WindowIsQuiet

LEMMA LivenessInit == Finite /\ Init => LivenessInv
<1> SUFFICES ASSUME Finite, Init PROVE LivenessInv
  OBVIOUS
<1> QED
  BY MarkInit DEF LivenessInv, Init, StayIsSeen, WindowIsQuiet, Finite, LivenessAssumption

\* A step that is neither a sample nor a tick.
LEMMA WindowStays ==
    ASSUME Finite, TypeOK, StayIsSeen, WindowIsQuiet, Noted(0),
           UNCHANGED <<idleFor, nextSample>>
    PROVE  StayIsSeen' /\ WindowIsQuiet'
BY DEF Noted, UpTo, LongStay, StayIsSeen, WindowIsQuiet, TypeOK, Finite, LivenessAssumption

LEMMA WindowSampled ==
    ASSUME Finite, TypeOK, StayIsSeen, WindowIsQuiet, Sample
    PROVE  StayIsSeen' /\ WindowIsQuiet'
<1>1. /\ nextSample' = SampleEvery /\ Noted(0) /\ UNCHANGED <<attached, turn, writing>>
      /\ idleFor' = IdleWindow
  BY DEF Sample
<1>2. InUse' => idleFor' = None
  BY <1>1 DEF InUse, TurnInFlight, IdleWindow, Idle, IsBusy
<1>3. /\ presence' \in 0..LongStay /\ quietFor' \in 0..IdleExitAfter
      /\ presence' > 0 => InUse'
  BY <1>1, NotedTypes DEF Noted
<1>4. StayIsSeen'
  BY <1>1, <1>2, <1>3 DEF StayIsSeen, LongStay, Finite, LivenessAssumption
<1>5. WindowIsQuiet'
  <2> SUFFICES ASSUME idleFor' # None PROVE idleFor' <= quietFor'
    BY DEF WindowIsQuiet
  <2>1. idleFor' = 0 \/ (idleFor # None /\ idleFor' = idleFor)
    BY <1>1 DEF IdleWindow
  <2>2. presence' = 0
    BY <1>2, <1>1 DEF Noted
  <2>3. quietFor' = UpTo(IdleExitAfter, quietFor + 0)
    BY <1>1, <2>2 DEF Noted, LongStay, Finite, LivenessAssumption
  <2>4. quietFor' = quietFor
    BY <2>3 DEF UpTo, TypeOK, Finite, LivenessAssumption
  <2> QED
    BY <2>1, <2>4 DEF WindowIsQuiet, TypeOK, Finite, LivenessAssumption
<1> QED
  BY <1>4, <1>5

LEMMA WindowGrows ==
    ASSUME Finite, TypeOK, StayIsSeen, WindowIsQuiet, Tick
    PROVE  StayIsSeen' /\ WindowIsQuiet'
<1>1. /\ nextSample > 0 /\ nextSample' = nextSample - 1 /\ Noted(1)
      /\ idleFor' = IF idleFor = None \/ idleFor = IdleExitAfter THEN idleFor ELSE idleFor + 1
  BY DEF Tick
<1>2. /\ nextSample \in 1..SampleEvery /\ SampleEvery \in Nat
      /\ presence \in 0..(SampleEvery + 1) /\ presence' \in 0..(SampleEvery + 1)
  BY <1>1, NotedTypes DEF TypeOK, LongStay, Finite, LivenessAssumption
<1>3. presence' <= presence + 1
  BY <1>1, <1>2 DEF Noted, UpTo, LongStay
<1>4. StayIsSeen'
  BY <1>1, <1>2, <1>3 DEF StayIsSeen
<1>5. WindowIsQuiet'
  <2> SUFFICES ASSUME idleFor' # None PROVE idleFor' <= quietFor'
    BY DEF WindowIsQuiet
  <2>1. presence' # LongStay
    BY <1>1, <1>2, <1>4 DEF StayIsSeen, LongStay
  <2>2. quietFor' = UpTo(IdleExitAfter, quietFor + 1)
    BY <1>1, <2>1 DEF Noted
  <2>3. /\ idleFor \in 0..IdleExitAfter /\ quietFor \in 0..IdleExitAfter
        /\ idleFor <= quietFor /\ IdleExitAfter \in Nat
    BY <1>1 DEF WindowIsQuiet, TypeOK, Finite, LivenessAssumption
  <2> QED
    BY <1>1, <2>2, <2>3 DEF UpTo
<1> QED
  BY <1>4, <1>5

LEMMA LivenessStep == Finite /\ LivenessInv /\ [Next]_vars => LivenessInv'
<1> SUFFICES ASSUME Finite, LivenessInv, [Next]_vars PROVE LivenessInv'
  OBVIOUS
<1>1. MarkInv' /\ TypeOK
  BY MarkStep DEF LivenessInv, MarkInv
<1>2. CASE UNCHANGED vars
  BY <1>1, <1>2 DEF vars, LivenessInv, StayIsSeen, WindowIsQuiet
<1>3. CASE Sample
  BY <1>1, <1>3, WindowSampled DEF LivenessInv
<1>4. CASE Tick
  BY <1>1, <1>4, WindowGrows DEF LivenessInv
<1>5. ASSUME Next, ~Sample, ~Tick
      PROVE  Noted(0) /\ UNCHANGED <<idleFor, nextSample>>
  BY <1>5 DEF Next, Attach, Detach, StartTurn, EndTurn, SolveStarted, SolveFinished, SolveHangs,
    HungSolveStopped, DispatchEnds, WriteLands, monitorVars
<1> QED
  BY <1>1, <1>2, <1>3, <1>4, <1>5, WindowStays DEF LivenessInv

LEMMA LivenessAlways == ASSUME Finite PROVE Spec => []LivenessInv
<1>1. Init => LivenessInv
  BY LivenessInit
<1>2. LivenessInv /\ [Next]_vars => LivenessInv'
  BY LivenessStep
<1> QED
  BY <1>1, <1>2, PTL DEF Spec

LEMMA LivenessSafe ==
    ASSUME Finite, LivenessInv
    PROVE  TypeOK /\ MarkerNeverLeaks /\ NeverClearedEarly
<1>1. NeverClearedEarly
  <2> SUFFICES ASSUME Stranded, NEW t \in Turn, turn[t] = "solving"
               PROVE  spent[t] > SolveStale
    BY DEF NeverClearedEarly
  <2>1. markerAge \in Nat /\ markerAge > SolveStale /\ markerAge <= spent[t]
    BY DEF Stranded, LivenessInv, MarkInv, TypeOK, MarkerIsYoung, Finite, LivenessAssumption
  <2>2. spent[t] \in 0..SolveMax
    BY DEF LivenessInv, MarkInv, TypeOK
  <2> QED
    BY <2>1, <2>2 DEF Finite, LivenessAssumption
<1> QED
  BY <1>1 DEF LivenessInv, MarkInv

\* os._exit is reached only from an idle sample at the end of the window.
LEMMA StepExitsOnlyIdle ==
    ASSUME Finite, LivenessInv, [Next]_vars
    PROVE  ExitsOnlyIdle
<1> SUFFICES ASSUME up, ~up' PROVE ~InUse /\ quietFor = IdleExitAfter
  BY DEF ExitsOnlyIdle
<1>1. Sample
  BY DEF vars, Next, Attach, Detach, StartTurn, EndTurn, SolveStarted, SolveFinished, SolveHangs,
    HungSolveStopped, DispatchEnds, WriteLands, Tick
<1>2. Idle /\ idleFor # None /\ idleFor >= IdleExitAfter
  BY <1>1 DEF Sample, ShouldExit
<1>3. ~InUse
  BY <1>2 DEF InUse, Idle, IsBusy
<1>4. quietFor = IdleExitAfter
  BY <1>2 DEF LivenessInv, MarkInv, TypeOK, WindowIsQuiet, Finite, LivenessAssumption
<1> QED
  BY <1>3, <1>4

\* Whatever overlaps, hangs or was cleared, the marker counts no more than what runs.
THEOREM MarkerHonest == ASSUME Finite PROVE Spec => []MarkerNeverLeaks
BY LivenessAlways, LivenessSafe, PTL

\* The auto-clear spares every dispatch that is younger than the stale window.
THEOREM NoneClearedEarly == ASSUME Finite PROVE Spec => []NeverClearedEarly
BY LivenessAlways, LivenessSafe, PTL

\* The idle exit never ends a process that is used, or was used for longer than a
\* sampling interval within the window.
THEOREM NoExitAtWork == ASSUME Finite PROVE Spec => NeverExitsAtWork
<1>1. LivenessInv /\ [Next]_vars => [ExitsOnlyIdle]_vars
  BY StepExitsOnlyIdle
<1> QED
  BY <1>1, LivenessAlways, PTL DEF Spec, NeverExitsAtWork
=============================================================================
