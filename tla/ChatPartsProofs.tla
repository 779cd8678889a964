---------------------------- MODULE ChatPartsProofs ----------------------------
(***************************************************************************)
(* The theorems of the parts of a chat session, carried over to the module *)
(* that TLC runs (MCChatParts), for every value of its constants.          *)
(* LiveTurns, CaseLayers and PendingGates have modules of their own for    *)
(* their proofs; those of the other parts are here.                        *)
(***************************************************************************)
EXTENDS MCChatParts, Sequences, TLAPS

-----------------------------------------------------------------------------
(* LiveTurns                                                                *)

TurnsPart == part = "turns" => LT!TurnsInv

LEMMA TurnsPartAlways == Spec => []TurnsPart
<1>0. LT!Hypothesis
  BY PartsAssumption DEF LT!Hypothesis, PartsAssumption
<1>1. Init => TurnsPart
  BY <1>0, LT!TurnsInit DEF Init, TurnsPart
<1>2. TurnsPart /\ [Next]_<<part, partVars>> => TurnsPart'
  BY <1>0, LT!TurnsStep DEF TurnsPart, Next, partVars, turnsVars, LT!vars, LT!connVars, LT!turnVars
<1> QED
  BY <1>1, <1>2, PTL DEF Spec

LEMMA TurnsPartSafe ==
    ASSUME TurnsPart PROVE OneTurnPerStream /\ BusyCoversTurns /\ StopReachesTurn
<1>1. LT!Hypothesis
  BY PartsAssumption DEF LT!Hypothesis, PartsAssumption
<1> QED
  BY <1>1, LT!TurnsSafe DEF TurnsPart, OneTurnPerStream, BusyCoversTurns, StopReachesTurn

\* A new message for a Case cancels and awaits the turn that runs there, whichever
\* socket started it, before its own turn begins: never two turns on one Case.
THEOREM ChatOneTurn == Spec => []OneTurnPerStream
BY TurnsPartSafe, TurnsPartAlways, PTL

\* Sockets may come and go: is_busy() counts the registry of turns, and a turn that
\* runs is in it until its own finally takes it out.
THEOREM ChatBusyIsTrue == Spec => []BusyCoversTurns
BY TurnsPartSafe, TurnsPartAlways, PTL

\* The stop button cancels by the registry and not by the socket, so it finds every
\* turn that runs, from any socket.
THEOREM ChatStopFinds == Spec => []StopReachesTurn
BY TurnsPartSafe, TurnsPartAlways, PTL

-----------------------------------------------------------------------------
(* CaseLayers                                                               *)

LayersPart == part = "layers" => CL!LayersInv

LEMMA LayersPartAlways == Spec => []LayersPart
<1>0. CL!CaseAssumption
  BY PartsAssumption DEF PartsAssumption
<1>1. Init => LayersPart
  BY <1>0, CL!LayersInit DEF Init, LayersPart
<1>2. LayersPart /\ [Next]_<<part, partVars>> => LayersPart'
  BY <1>0, CL!LayersStep DEF Next, partVars, layersVars, CL!vars, CL!appVars, CL!chatVars,
    CL!turnVars, CL!history, LayersPart
<1> QED
  BY <1>1, <1>2, PTL DEF Spec

LEMMA LayersPartSafe ==
    ASSUME LayersPart PROVE PublishedIsKept /\ NoForeignLayer /\ EditsKept
BY CL!LayersSafe DEF LayersPart, PublishedIsKept, NoForeignLayer, EditsKept

\* A persist merges what its connection holds into what it has just read, and every
\* document it can overwrite was read whole: no layer is lost but by a deletion, a
\* failed write or two writers that overlap, and no frame but to a newer one of its
\* step.
THEOREM ChatPublishedIsKept == Spec => []PublishedIsKept
BY LayersPartSafe, LayersPartAlways, PTL

\* The emitter of a connection is emptied or seeded anew whenever it is synced to
\* another Case, and what it takes over from the running turns of other sockets is of
\* its Case as long as those turns are: the union that a persist writes holds layers
\* of its Case alone.
THEOREM ChatNoForeignLayer == Spec => []NoForeignLayer
BY LayersPartSafe, LayersPartAlways, PTL

\* A write back of a whole document takes its name and its status from the read: it
\* undoes a rename or a deletion only if that came after the read.
THEOREM ChatEditsKept == Spec => []EditsKept
BY LayersPartSafe, LayersPartAlways, PTL

-----------------------------------------------------------------------------
(* CaseRail                                                                 *)

\* What the tab shows when all that is under way to it has come, in its order.
LastShown(t, list) ==
    IF wire[t] = {} THEN rail[t] = list
    ELSE \E frame \in wire[t] :
            frame.list = list /\ \A other \in wire[t] : other.place <= frame.place

\* A list on its way to a live socket that no guard can hold back.
ForcedUnderWay ==
    \E h \in Turn : /\ job[h] # None /\ job[h].socket # None
                    /\ job[h].force /\ job[h].at # "turn"

Reconnecting(t) == \E s \in CR!Socket : s[1] = t /\ s \notin resumed

\* Each place is taken once.
PlacesDiffer ==
    \A t \in Writer : \A frame, other \in wire[t] : frame.place = other.place => frame = other

\* The digest is the list that the tab will show. What a connection took along when it
\* was lost is made up for by the first resume of the next one.
DigestIsShown ==
    (\A t, u \in Writer : t = u) /\ astray = {} /\ known # None =>
        \A t \in Writer : LastShown(t, known) \/ Reconnecting(t) \/ ForcedUnderWay

RailInv == CR!TypeOK /\ PlacesDiffer /\ DigestIsShown

LEMMA RailInit == CR!RailAssumption /\ CR!Init => RailInv
BY DEF CR!RailAssumption, CR!Init, CR!TypeOK, RailInv, PlacesDiffer, DigestIsShown

\* A step of one job, or one that begins it: the others stay.
LEMMA JobMoves ==
    ASSUME CR!TypeOK, NEW h \in Turn, NEW j,
           j = None \/ (j \in CR!Job /\ (j.at = "emit" => j.list # None)),
           job' = [job EXCEPT ![h] = j]
    PROVE  /\ job' \in [Turn -> CR!Job \cup {None}]
           /\ \A k \in Turn : job'[k] # None /\ job'[k].at = "emit" => job'[k].list # None
           /\ job'[h] = j /\ \A k \in Turn : k # h => job'[k] = job[k]
BY DEF CR!TypeOK

LEMMA RailConnections ==
    ASSUME RailInv, NEW dead \in SUBSET resumed, NEW t \in Writer, NEW s \in CR!Socket,
           CR!Cut(dead), s[1] = t, s \in dead \/ s \notin resumed,
           rail' \in [Writer -> (0 .. MaxVersion) \cup {None}]
    PROVE  RailInv'
<1> USE DEF RailInv
<1>1. /\ job' \in [Turn -> CR!Job \cup {None}]
      /\ \A h \in Turn : job'[h] # None /\ job'[h].at = "emit" => job'[h].list # None
  <2> SUFFICES ASSUME NEW h \in Turn, job[h] # None, job[h] \in CR!Job,
                      job[h].at = "emit" => job[h].list # None
               PROVE  /\ [job[h] EXCEPT !.socket = None] \in CR!Job
                      /\ [job[h] EXCEPT !.socket = None].at = job[h].at
                      /\ [job[h] EXCEPT !.socket = None].list = job[h].list
    BY DEF CR!TypeOK, CR!Cut
  <2> QED
    BY DEF CR!Job
<1>2. /\ wire' \in [Writer -> SUBSET CR!Frame]
      /\ \A u \in Writer : wire'[u] \subseteq wire[u]
  BY DEF CR!TypeOK, CR!Cut
<1>3. CR!TypeOK'
  BY <1>1, <1>2 DEF CR!TypeOK, CR!Cut
<1>4. PlacesDiffer'
  BY <1>2 DEF PlacesDiffer
<1>5. Reconnecting(t)'
  BY DEF Reconnecting, CR!Cut
<1>6. DigestIsShown'
  BY <1>5 DEF DigestIsShown
<1> QED
  BY <1>3, <1>4, <1>6

\* Who begins an emission leaves the rest; a first resume begins one that is forced.
LEMMA RailStarts ==
    ASSUME CR!RailAssumption, RailInv, NEW s \in CR!Socket,
           CR!FirstResume(s) \/ CR!Keepalive(s) \/ CR!Command(s) \/ CR!StartTurn(s)
    PROVE  RailInv'
<1> USE DEF RailInv
<1>1. PICK loop \in BOOLEAN, force \in BOOLEAN, at \in {"turn", "read"} :
           /\ CR!Starts(s, loop, force, at)
           /\ CR!FirstResume(s) => force /\ at = "read"
  BY DEF CR!FirstResume, CR!Keepalive, CR!Command, CR!StartTurn, CR!FirstResumeForces
<1> DEFINE j == [socket |-> s, loop |-> loop, force |-> force, at |-> at, list |-> None]
<1>2. PICK h \in Turn : job[h] = None /\ job' = [job EXCEPT ![h] = j]
  BY <1>1 DEF CR!Starts
<1>3. j \in CR!Job /\ j.at # "emit" /\ j # None /\ j.socket = s /\ j.force = force /\ j.at = at
      /\ s # None
  BY DEF CR!Job, CR!Socket, CR!RailAssumption
<1> HIDE DEF j
<1>4. /\ job' \in [Turn -> CR!Job \cup {None}]
      /\ \A k \in Turn : job'[k] # None /\ job'[k].at = "emit" => job'[k].list # None
      /\ job'[h] = j /\ \A k \in Turn : k # h => job'[k] = job[k]
  BY <1>2, <1>3, JobMoves
<1>5. /\ UNCHANGED <<known, ghosts, wire, rail, astray>>
      /\ version' \in {version, version + 1} /\ version' \in 0 .. MaxVersion
      /\ resumed' \subseteq CR!Socket
      /\ CR!FirstResume(s) \/ resumed' = resumed
  <2>1. CASE CR!FirstResume(s)
    BY <2>1 DEF CR!TypeOK, CR!FirstResume
  <2>2. CASE CR!Keepalive(s) \/ CR!StartTurn(s)
    BY <2>2 DEF CR!TypeOK, CR!Keepalive, CR!StartTurn
  <2>3. CASE CR!Command(s)
    BY <2>3 DEF CR!RailAssumption, CR!TypeOK, CR!Command
  <2> QED
    BY <2>1, <2>2, <2>3
<1>6. CR!TypeOK'
  BY <1>4, <1>5 DEF CR!TypeOK
<1>7. PlacesDiffer'
  BY <1>5 DEF PlacesDiffer
<1>8. ForcedUnderWay => ForcedUnderWay'
  BY <1>2, <1>4 DEF ForcedUnderWay
<1>9. CR!FirstResume(s) => ForcedUnderWay'
  BY <1>1, <1>3, <1>4 DEF ForcedUnderWay
<1>10. DigestIsShown'
  <2>1. ASSUME NEW t \in Writer, NEW list PROVE LastShown(t, list)' <=> LastShown(t, list)
    BY <1>5 DEF LastShown
  <2>2. ASSUME NEW t \in Writer, ~CR!FirstResume(s) PROVE Reconnecting(t)' <=> Reconnecting(t)
    BY <1>5, <2>2 DEF Reconnecting
  <2> QED
    BY <1>5, <1>8, <1>9, <2>1, <2>2 DEF DigestIsShown
<1> QED
  BY <1>6, <1>7, <1>10

\* The read of the list, and a guard that holds it back.
LEMMA RailReads ==
    ASSUME CR!RailAssumption, RailInv, NEW h \in Turn,
           CR!TurnNames(h) \/ CR!Read(h) \/ CR!ReadFails(h) \/ CR!Skip(h)
    PROVE  RailInv'
<1> USE DEF RailInv
<1>1. /\ UNCHANGED <<known, resumed, ghosts, wire, rail>> /\ version' \in 0 .. MaxVersion
      /\ astray' = astray \/ astray' = astray \cup {"unread"}
      /\ job[h] # None /\ job[h] \in CR!Job
  BY DEF CR!RailAssumption, CR!TypeOK, CR!TurnNames, CR!Read, CR!ReadFails, CR!Skip
<1>2. \E j : /\ j = None \/ (j \in CR!Job /\ (j.at = "emit" => j.list # None))
             /\ job' = [job EXCEPT ![h] = j]
             /\ \/ astray' # {}
                \/ ~job[h].force
                \/ /\ j # None /\ j.socket = job[h].socket /\ j.force = job[h].force
                   /\ j.at # "turn"
  <2>1. CASE CR!TurnNames(h)
    <3>1. job' = [job EXCEPT ![h] = [job[h] EXCEPT !.at = "read"]]
      BY <2>1 DEF CR!TurnNames
    <3>2. /\ [job[h] EXCEPT !.at = "read"] \in CR!Job
          /\ [job[h] EXCEPT !.at = "read"].socket = job[h].socket
          /\ [job[h] EXCEPT !.at = "read"].force = job[h].force
          /\ [job[h] EXCEPT !.at = "read"].at = "read"
      BY <1>1 DEF CR!Job
    <3> QED
      BY <3>1, <3>2 DEF CR!RailAssumption
  <2>2. CASE CR!Read(h)
    <3>1. PICK list \in (version - Lag .. version) \cap Nat :
               job' = [job EXCEPT ![h] = [job[h] EXCEPT !.at = "emit", !.list = list]]
      BY <2>2 DEF CR!Read
    <3>2. list \in 0 .. MaxVersion /\ list # None
      BY DEF CR!RailAssumption, CR!TypeOK
    <3>3. /\ [job[h] EXCEPT !.at = "emit", !.list = list] \in CR!Job
          /\ [job[h] EXCEPT !.at = "emit", !.list = list].socket = job[h].socket
          /\ [job[h] EXCEPT !.at = "emit", !.list = list].force = job[h].force
          /\ [job[h] EXCEPT !.at = "emit", !.list = list].at = "emit"
          /\ [job[h] EXCEPT !.at = "emit", !.list = list].list = list
      BY <1>1, <3>2 DEF CR!Job
    <3> QED
      BY <3>1, <3>2, <3>3 DEF CR!RailAssumption
  <2>3. CASE CR!ReadFails(h)
    BY <2>3 DEF CR!ReadFails
  <2>4. CASE CR!Skip(h)
    BY <2>4 DEF CR!Skip, CR!Guarded
  <2> QED
    BY <2>1, <2>2, <2>3, <2>4
<1>3. CR!TypeOK'
  BY <1>1, <1>2, JobMoves DEF CR!TypeOK
<1>4. PlacesDiffer'
  BY <1>1 DEF PlacesDiffer
<1>5. ForcedUnderWay => ForcedUnderWay' \/ astray' # {}
  BY <1>2, JobMoves DEF ForcedUnderWay
<1>6. DigestIsShown'
  <2>1. ASSUME NEW t \in Writer, NEW list
        PROVE  (LastShown(t, list)' <=> LastShown(t, list)) /\ (Reconnecting(t)' <=> Reconnecting(t))
    BY <1>1 DEF LastShown, Reconnecting
  <2> QED
    BY <1>1, <1>5, <2>1 DEF DigestIsShown
<1> QED
  BY <1>3, <1>4, <1>6

\* What is sent is the last on the wire, and it is the digest.
LEMMA RailSends ==
    ASSUME CR!RailAssumption, RailInv, NEW h \in Turn, CR!Send(h)
    PROVE  RailInv'
<1> USE DEF RailInv
<1> DEFINE s == job[h].socket
           list == job[h].list
<1>1. /\ job[h] \in CR!Job /\ s \in CR!Socket \cup {None} /\ list \in 0 .. MaxVersion
      /\ known' = list /\ job' = [job EXCEPT ![h] = None]
      /\ UNCHANGED <<version, resumed, ghosts, rail>>
  BY DEF CR!Send, CR!TypeOK, CR!Job
<1>2. /\ job' \in [Turn -> CR!Job \cup {None}]
      /\ \A k \in Turn : job'[k] # None /\ job'[k].at = "emit" => job'[k].list # None
  BY <1>1, JobMoves
<1>3. CASE s = None
  <2>1. astray' = astray \cup {"dead"} /\ wire' = wire
    BY <1>3 DEF CR!Send
  <2> QED
    BY <1>1, <1>2, <2>1 DEF CR!TypeOK, PlacesDiffer, DigestIsShown
<1>4. CASE s # None
  <2>1. PICK place \in 1 .. MaxWire :
             /\ CR!IsNext(place, wire[s[1]])
             /\ wire' = [wire EXCEPT ![s[1]] =
                           @ \cup {[place |-> place, socket |-> s, list |-> list]}]
             /\ astray' = {}
    BY <1>4 DEF CR!Send
  <2>2. PICK t \in Writer, new \in CR!Frame :
             /\ new.place = place /\ new.list = list
             /\ wire' = [wire EXCEPT ![t] = @ \cup {new}]
             /\ CR!IsNext(place, wire[t]) /\ astray' = {}
    <3> DEFINE it == [place |-> place, socket |-> s, list |-> list]
    <3>1. s[1] \in Writer
      BY <1>1, <1>4 DEF CR!Socket
    <3>2. it \in CR!Frame /\ it.place = place /\ it.list = list
      BY <1>1, <1>4 DEF CR!Frame
    <3>3. wire' = [wire EXCEPT ![s[1]] = @ \cup {it}]
      BY <2>1
    <3> HIDE DEF it
    <3> QED
      BY <2>1, <3>1, <3>2, <3>3
  <2>3. CR!TypeOK'
    <3>1. wire' \in [Writer -> SUBSET CR!Frame]
      BY <2>2 DEF CR!TypeOK
    <3> QED
      BY <1>1, <1>2, <2>2, <3>1 DEF CR!TypeOK
  <2>4. /\ wire'[t] = wire[t] \cup {new}
        /\ \A u \in Writer : u # t => wire'[u] = wire[u]
        /\ \A frame \in wire[t] : frame.place \in Nat /\ frame.place < place
    BY <2>2 DEF CR!TypeOK, CR!Frame, CR!IsNext
  <2>5. PlacesDiffer'
    BY <2>2, <2>4 DEF PlacesDiffer
  <2>6. LastShown(t, known)'
    <3>1. new \in wire'[t] /\ new.list = known' /\ \A other \in wire'[t] : other.place <= new.place
      BY <1>1, <2>2, <2>4
    <3> QED
      BY <3>1 DEF LastShown
  <2>7. DigestIsShown'
    <3>1. ASSUME NEW u \in Writer, u = t PROVE LastShown(u, known)'
      BY <2>6, <3>1
    <3> QED
      BY <3>1 DEF DigestIsShown
  <2> QED
    BY <2>3, <2>5, <2>7
<1> QED
  BY <1>3, <1>4

\* A list that comes before its turn is noted; else the last one to come is the last.
LEMMA RailDelivers ==
    ASSUME CR!RailAssumption, RailInv, NEW t \in Writer, CR!Deliver(t)
    PROVE  RailInv'
<1> USE DEF RailInv
<1>1. PICK frame \in wire[t] :
           /\ rail' = [rail EXCEPT ![t] = frame.list]
           /\ wire' = [wire EXCEPT ![t] = wire[t] \ {frame}]
           /\ \/ astray' = astray /\ \A other \in wire[t] : ~(other.place < frame.place)
              \/ astray' = astray \cup {"overtaken"}
           /\ UNCHANGED <<version, known, resumed, ghosts, job>>
  BY DEF CR!Deliver
<1>2. /\ \A other \in wire[t] : other \in CR!Frame /\ other.place \in Nat
      /\ frame.list \in 0 .. MaxVersion
      /\ rail'[t] = frame.list /\ wire'[t] = wire[t] \ {frame}
      /\ \A u \in Writer : wire'[u] \subseteq wire[u]
  BY <1>1 DEF CR!TypeOK, CR!Frame
<1>3. CR!TypeOK'
  BY <1>1, <1>2 DEF CR!TypeOK
<1>4. PlacesDiffer'
  BY <1>2 DEF PlacesDiffer
<1>5. ASSUME NEW list, LastShown(t, list), astray' # astray \cup {"overtaken"}
      PROVE  LastShown(t, list)'
  <2>1. PICK last \in wire[t] : last.list = list /\ \A other \in wire[t] : other.place <= last.place
    BY <1>5 DEF LastShown
  <2>2. CASE wire'[t] = {}
    BY <1>2, <2>1, <2>2 DEF LastShown
  <2>3. CASE wire'[t] # {}
    <3>1. PICK other \in wire[t] : other # frame
      BY <1>2, <2>3
    <3>2. frame.place < other.place
      BY <1>1, <1>2, <1>5, <3>1 DEF PlacesDiffer
    <3>3. last # frame
      BY <1>2, <2>1, <3>1, <3>2
    <3> QED
      BY <1>2, <2>1, <2>3, <3>3 DEF LastShown
  <2> QED
    BY <2>2, <2>3
<1>6. DigestIsShown'
  <2> SUFFICES ASSUME \A u, v \in Writer : u = v, astray' = {}, known' # None, NEW u \in Writer
               PROVE  LastShown(u, known)' \/ Reconnecting(u)' \/ ForcedUnderWay'
    BY DEF DigestIsShown
  <2>1. u = t /\ astray = {} /\ astray' # astray \cup {"overtaken"}
    BY <1>1
  <2>2. LastShown(t, known) \/ Reconnecting(t) \/ ForcedUnderWay
    BY <1>1, <2>1 DEF DigestIsShown
  <2>3. (Reconnecting(t)' <=> Reconnecting(t)) /\ (ForcedUnderWay' <=> ForcedUnderWay)
    BY <1>1 DEF Reconnecting, ForcedUnderWay
  <2>4. LastShown(t, known) => LastShown(t, known)'
    BY <1>1, <1>5, <2>1 DEF LastShown
  <2> QED
    BY <2>1, <2>2, <2>3, <2>4
<1> QED
  BY <1>3, <1>4, <1>6

LEMMA RailStep == CR!RailAssumption /\ RailInv /\ [CR!Next]_(CR!vars) => RailInv'
<1> SUFFICES ASSUME CR!RailAssumption, RailInv, [CR!Next]_(CR!vars) PROVE RailInv'
  OBVIOUS
<1>1. CASE CR!Notice
  <2>1. /\ UNCHANGED <<version, resumed, job, wire, rail, astray>>
        /\ ghosts' \in 0 .. MaxGhosts /\ known' \in {None, known}
    BY <1>1 DEF CR!RailAssumption, RailInv, CR!TypeOK, CR!Notice
  <2> QED
    BY <2>1 DEF RailInv, CR!TypeOK, PlacesDiffer, DigestIsShown, LastShown, Reconnecting,
      ForcedUnderWay
<1>2. ASSUME NEW s \in CR!Socket, CR!Drop(s) PROVE RailInv'
  <2>1. s[1] \in Writer /\ {s} \in SUBSET resumed /\ CR!Cut({s}) /\ rail' = rail
    BY <1>2 DEF CR!Drop, CR!Socket
  <2> QED
    BY <2>1, RailConnections DEF RailInv, CR!TypeOK
<1>3. ASSUME NEW s \in CR!Socket,
             CR!FirstResume(s) \/ CR!Keepalive(s) \/ CR!Command(s) \/ CR!StartTurn(s)
      PROVE  RailInv'
  BY <1>3, RailStarts
<1>4. ASSUME NEW h \in Turn, CR!TurnNames(h) \/ CR!Read(h) \/ CR!ReadFails(h) \/ CR!Skip(h)
      PROVE  RailInv'
  BY <1>4, RailReads
<1>5. ASSUME NEW h \in Turn, CR!Send(h) PROVE RailInv'
  BY <1>5, RailSends
<1>6. ASSUME NEW t \in Writer, CR!Reload(t) PROVE RailInv'
  <2> DEFINE dead == {s \in resumed : s[1] = t}
             app == <<t, "app">>
  <2>1. CR!Cut(dead) /\ rail' = [rail EXCEPT ![t] = None]
    BY <1>6 DEF CR!Reload
  <2>2. app \in CR!Socket /\ app[1] = t /\ (app \in dead \/ app \notin resumed)
    BY DEF CR!Socket
  <2>3. rail' \in [Writer -> (0 .. MaxVersion) \cup {None}]
    BY <2>1 DEF RailInv, CR!TypeOK
  <2>4. dead \in SUBSET resumed
    OBVIOUS
  <2> HIDE DEF dead, app
  <2> QED
    BY <2>1, <2>2, <2>3, <2>4, RailConnections
<1>7. ASSUME NEW t \in Writer, CR!Deliver(t) PROVE RailInv'
  BY <1>7, RailDelivers
<1>8. CASE UNCHANGED CR!vars
  BY <1>8 DEF CR!vars, RailInv, CR!TypeOK, PlacesDiffer, DigestIsShown, LastShown, Reconnecting,
    ForcedUnderWay
<1> QED
  BY <1>1, <1>2, <1>3, <1>4, <1>5, <1>6, <1>7, <1>8 DEF CR!Next

RailPart == part = "rail" => RailInv

LEMMA RailPartAlways == Spec => []RailPart
<1>0. CR!RailAssumption
  BY PartsAssumption DEF PartsAssumption
<1>1. Init => RailPart
  BY <1>0, RailInit DEF Init, RailPart
<1>2. RailPart /\ [Next]_<<part, partVars>> => RailPart'
  BY <1>0, RailStep DEF Next, partVars, railVars, CR!vars, RailPart
<1> QED
  BY <1>1, <1>2, PTL DEF Spec

\* The guard compares with the digest of what was last sent, and the first resume of a
\* connection goes by no guard: a settled tab whose digest is that of the list shows it.
THEOREM ChatGuardLetsThrough == Spec => []GuardLetsThrough
<1>1. ASSUME RailInv, CR!RailAssumption PROVE CR!GuardLetsThrough
  <2> SUFFICES ASSUME \A t, u \in Writer : t = u, astray = {}, NEW t \in Writer, CR!Stuck(t)
               PROVE  FALSE
    BY DEF CR!GuardLetsThrough
  <2>1. version \in Nat /\ known = version /\ known # None
    BY <1>1 DEF CR!Stuck, RailInv, CR!TypeOK, CR!RailAssumption
  <2>2. ~LastShown(t, known) /\ ~Reconnecting(t) /\ ~ForcedUnderWay
    BY DEF CR!Stuck, CR!Settled, LastShown, Reconnecting, ForcedUnderWay
  <2> QED
    BY <1>1, <2>1, <2>2 DEF RailInv, DigestIsShown
<1>2. RailPart => GuardLetsThrough
  BY <1>1, PartsAssumption DEF RailPart, GuardLetsThrough, PartsAssumption
<1> QED
  BY <1>2, RailPartAlways, PTL

-----------------------------------------------------------------------------
(* PendingGates                                                             *)

GatesPart == part = "gates" => PG!GateInv

LEMMA GatesPartAlways == Spec => []GatesPart
<1>0. PG!GateAssumption
  BY PartsAssumption DEF PartsAssumption
<1>1. Init => GatesPart
  BY <1>0, PG!GateInit DEF Init, GatesPart
<1>2. GatesPart /\ [Next]_<<part, partVars>> => GatesPart'
  BY <1>0, PG!GateStep DEF Next, partVars, gatesVars, PG!vars, GatesPart
<1> QED
  BY <1>1, <1>2, PTL DEF Spec

LEMMA GatesPartSafe ==
    ASSUME GatesPart PROVE AskedFailsClosed /\ FreshApproval /\ WaiterIsReachable
<1>1. CASE part = "gates"
  <2>1. PG!GateInv
    BY <1>1 DEF GatesPart
  <2>2. PG!AskedFailsClosed /\ PG!FreshApproval /\ PG!WaiterIsReachable
    BY <2>1 DEF PG!GateInv, PG!PassedGranted, PG!MemoryGranted, PG!OwnerGranted, PG!Allowed,
      PG!AskedFailsClosed,
      PG!AskedReachable, PG!WaiterIsReachable, PG!Asking
  <2> QED
    BY <2>2 DEF AskedFailsClosed, FreshApproval, WaiterIsReachable
<1> QED
  BY <1>1 DEF AskedFailsClosed, FreshApproval, WaiterIsReachable

\* A call that passed a question was allowed by its owner: the registry compares the
\* session of an answer, a timeout refuses, and a lost card grants nothing. Where no
\* question can be built the gate lets the call pass, and remembers nothing of it.
THEOREM ChatAskedFailsClosed == Spec => []AskedFailsClosed
BY GatesPartSafe, GatesPartAlways, PTL

\* Every turn forgets the remembered decisions before its first call.
THEOREM ChatFreshApproval == Spec => []FreshApproval
BY GatesPartSafe, GatesPartAlways, PTL

\* Whatever strangers, duplicates, timeouts and malformed frames did before, the
\* owner's answer still finds the turn that waits for it.
THEOREM ChatWaiterIsReachable == Spec => []WaiterIsReachable
BY GatesPartSafe, GatesPartAlways, PTL

-----------------------------------------------------------------------------
(* UserIdentity                                                             *)

\* A socket that got through the broker has a row to find. As long as no lookup
\* missed one, an id is the name of a row, whoever is about to make a row is the
\* first, and the agent never has to make one.
IdentityInv ==
    /\ UI!TypeOK
    /\ \A c \in Chat : step[c] \in {"agent", "release", "bound", "upsert"} => rows # {}
    /\ ~missed => /\ \A u, v \in rows : u = v
                  /\ \A c \in Chat : uid[c] # None => uid[c] \in rows
                  /\ \A c \in Chat : /\ step[c] # "upsert"
                                     /\ step[c] = "put" => rows = {}

LEMMA IdentityInit == UI!IdentityAssumption /\ UI!Init => IdentityInv
BY DEF UI!IdentityAssumption, UI!Init, IdentityInv, UI!TypeOK

LEMMA IdentityLooks ==
    ASSUME UI!IdentityAssumption, IdentityInv, NEW c \in Chat,
           UI!Connects(c) \/ UI!Handshake(c) \/ UI!PutFails(c) \/ UI!Locks(c)
    PROVE  IdentityInv'
<1> USE DEF IdentityInv
<1>1. /\ UNCHANGED <<rows, indexed>>
      /\ holder' = (IF step[c] = "lock" THEN c ELSE holder)
      /\ step[c] = "lock" => holder = None
      /\ step[c] \in {"new", "agent", "put", "lock"}
  BY DEF UI!Connects, UI!Handshake, UI!PutFails, UI!Locks
<1>2. \/ \E u \in rows, p \in {"agent", "bound", "release"} :
            /\ uid' = [uid EXCEPT ![c] = u] /\ step' = [step EXCEPT ![c] = p]
            /\ missed' = missed
            /\ p = "release" <=> step[c] \in {"put", "lock"}
      \/ \E p \in {"lock", "upsert", "reject", "put"} :
            /\ uid' = [uid EXCEPT ![c] = None] /\ step' = [step EXCEPT ![c] = p]
            /\ p = "upsert" => step[c] = "agent" /\ missed' = (missed \/ rows # {})
            /\ p = "put" => step[c] = "lock" /\ missed' = (missed \/ rows # {})
            /\ p \in {"lock", "reject"} => missed' = missed
            /\ p \in {"reject", "put"} <=> step[c] \in {"put", "lock"}
  <2>1. CASE UI!Connects(c)
    BY <2>1 DEF UI!Connects, UI!Lookup, UI!TypeOK
  <2>2. CASE UI!Handshake(c)
    BY <2>2 DEF UI!Handshake, UI!Lookup, UI!TypeOK, UI!Missing
  <2>3. CASE UI!PutFails(c)
    BY <2>3 DEF UI!PutFails, UI!Lookup, UI!TypeOK
  <2>4. CASE UI!Locks(c)
    BY <2>4 DEF UI!Locks, UI!Recheck, UI!Lookup, UI!TypeOK, UI!Missing
  <2> QED
    BY <2>1, <2>2, <2>3, <2>4
<1>3. missed' \in BOOLEAN /\ (missed => missed')
  BY <1>2 DEF UI!TypeOK
<1>4. UI!TypeOK'
  <2>1. /\ step' \in [Chat -> {"new", "lock", "put", "release", "reject", "agent", "upsert", "bound"}]
        /\ uid' \in [Chat -> Case \cup {None}]
    BY <1>2 DEF UI!TypeOK
  <2>2. \A d \in Chat : holder' = d <=> step'[d] \in {"put", "release", "reject"}
    BY <1>1, <1>2 DEF UI!TypeOK, UI!IdentityAssumption
  <2> QED
    BY <1>1, <1>3, <2>1, <2>2 DEF UI!TypeOK
<1>5. \A d \in Chat : step'[d] \in {"agent", "release", "bound", "upsert"} => rows' # {}
  BY <1>1, <1>2 DEF UI!TypeOK
<1>6. ~missed' => \A d \in Chat : uid'[d] # None => uid'[d] \in rows'
  BY <1>1, <1>2, <1>3 DEF UI!TypeOK
<1>7. ~missed' => /\ \A u, v \in rows' : u = v
                  /\ \A d \in Chat : /\ step'[d] # "upsert"
                                     /\ step'[d] = "put" => rows' = {}
  <2>1. ~missed' => step'[c] # "upsert" /\ (step'[c] = "put" => rows = {})
    BY <1>2 DEF UI!TypeOK
  <2>2. \A d \in Chat : d # c => step'[d] = step[d]
    BY <1>2 DEF UI!TypeOK
  <2> QED
    BY <1>1, <1>3, <2>1, <2>2
<1> QED
  BY <1>4, <1>5, <1>6, <1>7

LEMMA IdentityMakes ==
    ASSUME UI!IdentityAssumption, IdentityInv, NEW c \in Chat,
           UI!Provisions(c) \/ UI!AgentProvisions(c)
    PROVE  IdentityInv'
<1> USE DEF IdentityInv
<1>1. PICK u \in Case : u \notin rows /\ rows' = rows \cup {u} /\ uid' = [uid EXCEPT ![c] = u]
  BY DEF UI!Provisions, UI!AgentProvisions, UI!Made, UI!Fresh
<1>2. /\ \/ step[c] = "put" /\ step' = [step EXCEPT ![c] = "release"]
         \/ step[c] = "upsert" /\ step' = [step EXCEPT ![c] = "bound"]
      /\ UNCHANGED <<indexed, holder, missed>>
  BY DEF UI!Provisions, UI!AgentProvisions
<1>3. UI!TypeOK'
  BY <1>1, <1>2 DEF UI!TypeOK
<1>4. ~missed => \A d \in Chat : uid'[d] # None => uid'[d] \in rows'
  BY <1>1 DEF UI!TypeOK
<1>5. ASSUME ~missed
      PROVE  /\ \A w, v \in rows' : w = v
             /\ \A d \in Chat : /\ step'[d] # "upsert"
                                /\ step'[d] # "put"
  <2>1. step[c] = "put" /\ rows = {} /\ holder = c
    BY <1>2, <1>5 DEF UI!TypeOK
  <2>2. \A d \in Chat : step[d] = "put" => d = c
    BY <2>1 DEF UI!TypeOK
  <2> QED
    BY <1>1, <1>2, <1>5, <2>1, <2>2 DEF UI!TypeOK
<1> QED
  BY <1>1, <1>2, <1>3, <1>4, <1>5

LEMMA IdentityStep == UI!IdentityAssumption /\ IdentityInv /\ [UI!Next]_(UI!vars) => IdentityInv'
<1> SUFFICES ASSUME UI!IdentityAssumption, IdentityInv, [UI!Next]_(UI!vars) PROVE IdentityInv'
  OBVIOUS
<1>1. CASE UNCHANGED UI!vars
  BY <1>1 DEF UI!vars, IdentityInv, UI!TypeOK
<1>2. ASSUME NEW c \in Chat, UI!Connects(c) \/ UI!Handshake(c) \/ UI!PutFails(c) \/ UI!Locks(c)
      PROVE  IdentityInv'
  BY <1>2, IdentityLooks
<1>3. ASSUME NEW c \in Chat, UI!Provisions(c) \/ UI!AgentProvisions(c) PROVE IdentityInv'
  BY <1>3, IdentityMakes
<1>4. ASSUME NEW c \in Chat, UI!Unlocks(c) PROVE IdentityInv'
  <2>1. UI!TypeOK'
    BY <1>4 DEF UI!Unlocks, UI!TypeOK, IdentityInv, UI!IdentityAssumption
  <2> QED
    BY <1>4, <2>1 DEF UI!Unlocks, IdentityInv, UI!TypeOK
<1>5. ASSUME NEW c \in Chat, UI!Reconnects(c) PROVE IdentityInv'
  BY <1>5 DEF UI!Reconnects, IdentityInv, UI!TypeOK
<1>6. ASSUME NEW u \in Case, UI!Indexed(u) PROVE IdentityInv'
  BY <1>6 DEF UI!Indexed, IdentityInv, UI!TypeOK
<1>7. ASSUME NEW c \in Chat, UI!UpsertFails(c) PROVE IdentityInv'
  <2>1. /\ step[c] = "upsert" /\ step' = [step EXCEPT ![c] = "bound"]
        /\ \E u \in Case : uid' = [uid EXCEPT ![c] = u]
        /\ UNCHANGED <<rows, indexed, holder, missed>>
    BY <1>7 DEF UI!UpsertFails
  <2>2. missed
    BY <2>1 DEF IdentityInv, UI!TypeOK
  <2>3. UI!TypeOK'
    BY <2>1 DEF IdentityInv, UI!TypeOK
  <2> QED
    BY <2>1, <2>2, <2>3 DEF IdentityInv, UI!TypeOK
<1> QED
  BY <1>1, <1>2, <1>3, <1>4, <1>5, <1>6, <1>7 DEF UI!Next

LEMMA IdentitySafe == IdentityInv => UI!OneIdentity
BY DEF IdentityInv, UI!OneIdentity

IdentityPart == part = "identity" => IdentityInv

LEMMA IdentityPartAlways == Spec => []IdentityPart
<1>0. UI!IdentityAssumption
  BY PartsAssumption DEF PartsAssumption
<1>1. Init => IdentityPart
  BY <1>0, IdentityInit DEF Init, IdentityPart
<1>2. IdentityPart /\ [Next]_<<part, partVars>> => IdentityPart'
  BY <1>0, IdentityStep DEF Next, partVars, identityVars, UI!vars, IdentityPart
<1> QED
  BY <1>1, <1>2, PTL DEF Spec

\* The lock of the sub, the second lookup under it and the row the broker leaves
\* for the agent together make one user, for any number of sockets, as long as no
\* lookup misses a row.
THEOREM ChatOneIdentity == Spec => []OneIdentity
<1>1. IdentityPart => OneIdentity
  BY IdentitySafe DEF IdentityPart, OneIdentity
<1> QED
  BY <1>1, IdentityPartAlways, PTL

-----------------------------------------------------------------------------
(* ClientSocket                                                             *)

ClientPart == part = "client" => CS!ClientInv

LEMMA ClientPartAlways == Spec => []ClientPart
<1>0. CS!SocketAssumption
  BY PartsAssumption DEF PartsAssumption
<1>1. Init => ClientPart
  BY <1>0, CS!ClientInit DEF Init, ClientPart
<1>2. ClientPart /\ [Next]_<<part, partVars>> => ClientPart'
  BY <1>0, CS!ClientStep DEF ClientPart, Next, partVars, clientVars, CS!vars, CS!sockets,
    CS!clocks, CS!flags, CS!intents
<1> QED
  BY <1>1, <1>2, PTL DEF Spec

\* close(), the close handler, the token refresh and the timers pass the duty to
\* reconnect from one to another: none of their orders drops it.
THEOREM ChatNotStranded == Spec => []NotStranded
<1>1. ClientPart => NotStranded
  BY CS!ClientSafe DEF ClientPart, NotStranded
<1> QED
  BY <1>1, ClientPartAlways, PTL

\* An envelope is sent or buffered, and the buffer is emptied when it is sent: over
\* any number of sockets each is handed over once at most.
THEOREM ChatHandedOnce == Spec => []HandedOnce
<1>1. ClientPart => HandedOnce
  BY CS!ClientSafe DEF ClientPart, HandedOnce
<1> QED
  BY <1>1, ClientPartAlways, PTL

\* The close handler compares the socket it was made for with the current one: the
\* close of a replaced socket leaves its successor, the keepalive and the timers.
THEOREM ChatStaleCloseHarmless == Spec => StaleCloseHarmless
<1>1. ClientPart /\ [Next]_<<part, partVars>>
      => [part = "client" => CS!LateCloseLeavesFresh]_clientVars
  BY CS!LateCloseHarmless DEF ClientPart, Next, partVars, clientVars
<1> QED
  BY <1>1, ClientPartAlways, PTL DEF Spec, StaleCloseHarmless

-----------------------------------------------------------------------------
(* All parts                                                                *)

\* Whatever part runs, its state keeps its types, with what TypeOK says of how the
\* parts of the state go together: a turn holds a read exactly while it persists,
\* one that waits has a gate of its own, the handle of a timer stands for one.
THEOREM ChatTypeOK == Spec => []TypeOK
<1>1. ASSUME TurnsPart, LayersPart, RailPart, GatesPart, IdentityPart, ClientPart
      PROVE  TypeOK
  <2>1. part = "turns" => LT!TypeOK
    BY <1>1 DEF TurnsPart, LT!TurnsInv
  <2>2. part = "layers" => CL!TypeOK
    BY <1>1, CL!LayersSafe DEF LayersPart
  <2>3. part = "gates" => PG!TypeOK
    BY <1>1 DEF GatesPart, PG!GateInv
  <2>4. part = "identity" => UI!TypeOK
    BY <1>1 DEF IdentityPart, IdentityInv
  <2>5. part = "client" => CS!TypeOK
    BY <1>1, CS!ClientSafe DEF ClientPart
  <2>6. part = "rail" => CR!TypeOK
    BY <1>1 DEF RailPart, RailInv
  <2> QED
    BY <2>1, <2>2, <2>3, <2>4, <2>5, <2>6 DEF TypeOK
<1> QED
  BY <1>1, TurnsPartAlways, LayersPartAlways, RailPartAlways, GatesPartAlways,
    IdentityPartAlways, ClientPartAlways, PTL
=============================================================================
