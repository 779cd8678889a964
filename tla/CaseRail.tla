------------------------------ MODULE CaseRail ------------------------------
(***************************************************************************)
(* The list of Cases in the left rail of every tab of one session, and the *)
(* digest by which the agent skips a list the session was already sent. A  *)
(* handler awaits the read of the list; the digest is compared and stored, *)
(* and the list sent, after that in one step.                              *)
(***************************************************************************)
EXTENDS Integers, FiniteSets

CONSTANTS
    Tab,         \* the tabs that hold the session id
    Handler,     \* the message loops and turns that are at an emission: a bound
    None,
    MaxVersion,  \* how often the list changes: a bound
    MaxGhosts,   \* dead connections not yet noticed: a bound
    MaxWire,     \* lists sent to a tab until the last one has come: a bound
    Lag          \* by how many changes a read may be behind: 0, or 1 with an index

VARIABLES
    version,  \* the list as it is stored: each change makes a new one
    known,    \* _SESSION_CASE_LIST_HASH of the session
    resumed,  \* the open sockets that sent their first session-resume: the registered ones
    ghosts,   \* how many registered connections are dead and not yet noticed
    job,      \* Handler -> what it is doing for the list, or None
    wire,     \* Tab -> the lists under way to it, each with its place in the order of sending
    rail,     \* Tab -> the list it shows
    astray    \* history: why the last emission may not be what is shown

vars == <<version, known, resumed, ghosts, job, wire, rail, astray>>

\* Each tab has a socket for its map and one for its chat.
Socket == Tab \X {"app", "chat"}

Job == [socket : Socket \cup {None}, loop : BOOLEAN, force : BOOLEAN,
        at : {"turn", "read", "emit"}, list : (0 .. MaxVersion) \cup {None}]

RailAssumption ==
    /\ {MaxVersion, MaxGhosts, MaxWire, Lag} \subseteq Nat
    /\ None \notin Nat \cup Socket \cup Job

Frame == [place : 1 .. MaxWire, socket : Socket, list : 0 .. MaxVersion]

Init ==
    /\ version = 0 /\ known = None
    /\ resumed = {} /\ ghosts = 0
    /\ job = [h \in Handler |-> None]
    /\ wire = [t \in Tab |-> {}]
    /\ rail = [t \in Tab |-> None]
    /\ astray = {}

-----------------------------------------------------------------------------
(* Connections                                                              *)

\* What was under way on these sockets is gone, and so is what their handlers send.
Cut(gone) ==
    /\ resumed' = resumed \ gone
    /\ ghosts' = ghosts + Cardinality(resumed \cap gone)
    /\ ghosts' \in 0 .. MaxGhosts
    /\ job' = [h \in Handler |->
                IF job[h] # None /\ job[h].socket \in gone
                THEN [job[h] EXCEPT !.socket = None] ELSE job[h]]
    /\ wire' = [t \in Tab |-> {frame \in wire[t] : frame.socket \notin gone}]
    /\ UNCHANGED <<version, known, astray>>

Drop(s) ==
    /\ s \in resumed
    /\ Cut({s})
    /\ UNCHANGED rail

Reload(t) ==
    /\ rail[t] # None
    /\ Cut({s \in resumed : s[1] = t})
    /\ rail' = [rail EXCEPT ![t] = None]

\* The connection's finally. The last one of the session takes the digest along.
Notice ==
    /\ ghosts > 0
    /\ ghosts' = ghosts - 1
    /\ known' = IF resumed = {} /\ ghosts' = 0 THEN None ELSE known
    /\ UNCHANGED <<version, resumed, job, wire, rail, astray>>

-----------------------------------------------------------------------------
(* _emit_case_list, and who calls it                                        *)

\* The message loop of a connection takes one envelope at a time.
LoopIsFree(s) == \A h \in Handler : job[h] # None => ~(job[h].loop /\ job[h].socket = s)

Starts(s, loop, force, at) ==
    \E h \in Handler :
        /\ job[h] = None
        /\ job' = [job EXCEPT ![h] =
                    [socket |-> s, loop |-> loop, force |-> force, at |-> at, list |-> None]]

\* Mutant: the first resume of a connection goes through the guard as well.
AlwaysGuarded == FALSE

FirstResumeForces == TRUE

FirstResume(s) ==
    /\ s \notin resumed
    /\ resumed' = resumed \cup {s}
    /\ Starts(s, TRUE, FirstResumeForces, "read")
    /\ UNCHANGED <<version, known, ghosts, wire, rail, astray>>

Keepalive(s) ==
    /\ s \in resumed
    /\ LoopIsFree(s)
    /\ Starts(s, TRUE, FALSE, "read")
    /\ UNCHANGED <<version, known, resumed, ghosts, wire, rail, astray>>

\* case-command create, rename, set-bbox, archive, delete.
Command(s) ==
    /\ s \in resumed
    /\ LoopIsFree(s)
    /\ version < MaxVersion
    /\ version' = version + 1
    /\ Starts(s, TRUE, TRUE, "read")
    /\ UNCHANGED <<known, resumed, ghosts, wire, rail, astray>>

\* A turn that will create or name a Case, on the socket it came from.
StartTurn(s) ==
    /\ s \in resumed
    /\ Starts(s, FALSE, TRUE, "turn")
    /\ UNCHANGED <<version, known, resumed, ghosts, wire, rail, astray>>

TurnNames(h) ==
    /\ job[h] # None /\ job[h].at = "turn"
    /\ version < MaxVersion
    /\ version' = version + 1
    /\ job' = [job EXCEPT ![h].at = "read"]
    /\ UNCHANGED <<known, resumed, ghosts, wire, rail, astray>>

\* list_cases_for_user. DynamoDB answers it from an index or a scan, which lag.
Read(h) ==
    /\ job[h] # None /\ job[h].at = "read"
    /\ \E list \in (version - Lag .. version) \cap Nat :
        job' = [job EXCEPT ![h].at = "emit", ![h].list = list]
    /\ UNCHANGED <<version, known, resumed, ghosts, wire, rail, astray>>

ReadFails(h) ==
    /\ job[h] # None /\ job[h].at = "read"
    /\ astray' = IF job[h].force THEN astray \cup {"unread"} ELSE astray
    /\ job' = [job EXCEPT ![h] = None]
    /\ UNCHANGED <<version, known, resumed, ghosts, wire, rail>>

Guarded(j) == ~j.force /\ known = j.list

Skip(h) ==
    /\ job[h] # None /\ job[h].at = "emit" /\ Guarded(job[h])
    /\ job' = [job EXCEPT ![h] = None]
    /\ UNCHANGED <<version, known, resumed, ghosts, wire, rail, astray>>

\* The place of the next list: after all that are under way.
IsNext(place, frames) ==
    /\ \A frame \in frames : frame.place < place
    /\ place = 1 \/ \E frame \in frames : frame.place = place - 1

\* The digest is stored first. A send on a dead connection raises, or is never received.
Send(h) ==
    /\ job[h] # None /\ job[h].at = "emit" /\ ~Guarded(job[h])
    /\ known' = job[h].list
    /\ LET s == job[h].socket IN
        IF s = None
        THEN astray' = astray \cup {"dead"} /\ UNCHANGED wire
        ELSE \E place \in 1 .. MaxWire :
                /\ IsNext(place, wire[s[1]])
                /\ wire' = [wire EXCEPT ![s[1]] =
                              @ \cup {[place |-> place, socket |-> s, list |-> job[h].list]}]
                /\ astray' = {}
    /\ job' = [job EXCEPT ![h] = None]
    /\ UNCHANGED <<version, resumed, ghosts, rail>>

\* hubBroadcast: a list that came on one socket of a tab is the list of the tab. The
\* order is kept on a socket, not between two.
Deliver(t) ==
    \E frame \in wire[t] :
        LET earlier == {other \in wire[t] : other.place < frame.place} IN
        /\ \A other \in earlier : other.socket # frame.socket
        /\ rail' = [rail EXCEPT ![t] = frame.list]
        /\ wire' = [wire EXCEPT ![t] = @ \ {frame}]
        /\ astray' = IF earlier = {} THEN astray ELSE astray \cup {"overtaken"}
        /\ UNCHANGED <<version, known, resumed, ghosts, job>>

Next ==
    \/ Notice
    \/ \E s \in Socket :
        \/ Drop(s) \/ FirstResume(s) \/ Keepalive(s) \/ Command(s)
        \/ StartTurn(s)
    \/ \E h \in Handler : TurnNames(h) \/ Read(h) \/ ReadFails(h) \/ Skip(h) \/ Send(h)
    \/ \E t \in Tab : Reload(t) \/ Deliver(t)

Spec == Init /\ [][Next]_vars

-----------------------------------------------------------------------------
\* Types. What is on the wire and in the rail are lists that some job has read, and
\* who is about to send one has read it.
TypeOK ==
    /\ version \in 0 .. MaxVersion
    /\ known \in (0 .. MaxVersion) \cup {None}
    /\ resumed \subseteq Socket
    /\ ghosts \in 0 .. MaxGhosts
    /\ job \in [Handler -> Job \cup {None}]
    /\ \A h \in Handler : job[h] # None /\ job[h].at = "emit" => job[h].list # None
    /\ wire \in [Tab -> SUBSET Frame]
    /\ rail \in [Tab -> (0 .. MaxVersion) \cup {None}]
    /\ astray \subseteq {"dead", "unread", "overtaken"}

\* Nothing is under way to a tab whose sockets are all connected.
Settled(t) ==
    /\ \A s \in Socket : s[1] = t => s \in resumed
    /\ \A h \in Handler : job[h] # None => job[h].at = "turn"
    /\ wire[t] = {}

\* With every keepalive skipped, it is the list a tab shows until the next change.
Stuck(t) == Settled(t) /\ known = version /\ rail[t] # version

\* When the only tab shows an old list, then the next keepalive brings it the new one
\* (server.py 5031), whatever changes, reads and reconnects went on at the same time;
\* except when the list that set the digest went astray.
GuardLetsThrough ==
    (\A t, u \in Tab : t = u) /\ astray = {} => \A t \in Tab : ~Stuck(t)

\* What server.py 5016-5019 says of the callers after a change: "pass force=True so the
\* client is never left with a stale list". A turn that outlived its connection forces
\* the list onto the dead one, and the digest keeps it from the others.
NeverLeftStale == astray \subseteq {"dead"} => \A t \in Tab : ~Stuck(t)
=============================================================================
