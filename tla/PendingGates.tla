----------------------------- MODULE PendingGates -----------------------------
(***************************************************************************)
(* The questions a turn asks its user: the payload warning, the code and   *)
(* solver confirmations, the credential request, the region and the        *)
(* spatial picker. Each registers a future, sends a card and waits for the *)
(* answer, a timeout or a cancel. Two turns, of two Cases, share the       *)
(* SessionState of one connection, and with it the memory of decisions.    *)
(***************************************************************************)
EXTENDS Naturals, FiniteSets

CONSTANTS
    Turn,     \* the turns of one connection
    Gate,     \* the fresh ids of the questions they may ask: a bound
    Key,      \* _gate_memory_key: a tool with its bbox
    Owner,    \* the session of the connection
    Stranger, \* another session
    None

Kinds == {"payload", "code", "solver", "credential", "region", "spatial"}
Decisions == {"proceed", "narrow", "cancel"}
Pending == "pending"

VARIABLES
    lane,        \* "cloud": a wait times out; "local": only after 24 h
    pc,          \* Turn -> where the turn is
    wants,       \* Turn -> the key whose solver card it builds, or None
    asks,        \* Turn -> the gate it has open, or None
    card,        \* Gate -> [turn, kind, key, grants, shown], or None
    fut,         \* Gate -> None, "pending", the answer set, or "dropped"
    registered,  \* the keys of the _PENDING_* registries
    memory,      \* gate_decisions_this_turn: Key -> the gate that decided, or None
    said,        \* Gate -> what the owner answered while the gate was registered
    passed,      \* the calls let through: [turn, gate], the gate None when nobody was asked
    before       \* Turn -> the gates acted on before the turn began

vars == <<lane, pc, wants, asks, card, fut, registered, memory, said, passed, before>>


-----------------------------------------------------------------------------
(* A turn and its calls                                                     *)

\* Mutant: the memory is only cleared with the session.
MemoryKept == UNCHANGED memory

\* The synchronous prefix of _stream_gemini_reply.
MemoryReset == memory' = [k \in Key |-> None]

StartTurn(t) ==
    /\ pc[t] = "idle"
    /\ pc' = [pc EXCEPT ![t] = "running"]
    /\ MemoryReset
    /\ before' = [before EXCEPT ![t] = {p.gate : p \in passed} \ {None}]
    /\ UNCHANGED <<lane, wants, asks, card, fut, registered, said, passed>>

\* The decisions that let the call through. A payload over the hard cap takes no
\* "proceed", code no "narrow", and a solver card may or may not offer a choice of
\* resolution. For a credential "proceed" is provided, for the pickers a choice.
Grants(kind) ==
    CASE kind = "payload" -> {{"proceed", "narrow"}, {"narrow"}}
      [] kind = "solver"  -> {{"proceed", "narrow"}, {"proceed"}}
      [] kind = "region"  -> {Decisions}
      [] OTHER            -> {{"proceed"}}

\* Register the future, then await the send of the card.
Opens(t, g, kind, key) ==
    /\ card[g] = None
    /\ \E gs \in Grants(kind) :
          card' = [card EXCEPT ![g] = [turn |-> t, kind |-> kind, key |-> key,
                                       grants |-> gs, shown |-> FALSE]]
    /\ fut' = [fut EXCEPT ![g] = Pending]
    /\ registered' = registered \cup {g}
    /\ asks' = [asks EXCEPT ![t] = g]
    /\ pc' = [pc EXCEPT ![t] = "sending"]
    /\ UNCHANGED <<lane, memory, said, passed, before>>

Ask(t, g, kind) ==
    /\ pc[t] = "running" /\ kind # "solver"
    /\ Opens(t, g, kind, None)
    /\ UNCHANGED wants

\* _gate_with_turn_memory: a key that is remembered is not asked for. The card of
\* a solver is built off the loop, after that look.
Compose(t, key) ==
    /\ pc[t] = "running" /\ memory[key] = None
    /\ \E g \in Gate : card[g] = None
    /\ pc' = [pc EXCEPT ![t] = "composing"]
    /\ wants' = [wants EXCEPT ![t] = key]
    /\ UNCHANGED <<lane, asks, card, fut, registered, memory, said, passed, before>>

Unasked(t) == [turn |-> t, gate |-> None]

\* The gate fails open: when the card cannot be built, or is not worth showing, the
\* tool is dispatched unasked. Nothing is remembered of it.
NoCard(t) ==
    /\ pc[t] = "composing"
    /\ pc' = [pc EXCEPT ![t] = "running"]
    /\ wants' = [wants EXCEPT ![t] = None]
    /\ passed' = passed \cup {Unasked(t)}
    /\ UNCHANGED <<lane, asks, card, fut, registered, memory, said, before>>

\* So does the payload warning, when its estimator is missing, raises or is low.
NoWarning(t) ==
    /\ pc[t] = "running"
    /\ passed' = passed \cup {Unasked(t)}
    /\ UNCHANGED <<lane, pc, wants, asks, card, fut, registered, memory, said, before>>

AskToSolve(t, g) ==
    /\ pc[t] = "composing"
    /\ Opens(t, g, "solver", wants[t])
    /\ wants' = [wants EXCEPT ![t] = None]

FromMemory(t, key) ==
    /\ pc[t] = "running" /\ memory[key] # None
    /\ passed' = passed \cup {[turn |-> t, gate |-> memory[key]]}
    /\ UNCHANGED <<lane, pc, wants, asks, card, fut, registered, memory, said, before>>

\* _session_safe_send: with no live socket of the session the card is dropped.
Sent(t) ==
    /\ pc[t] = "sending"
    /\ \E shown \in BOOLEAN : card' = [card EXCEPT ![asks[t]].shown = shown]
    /\ pc' = [pc EXCEPT ![t] = "waiting"]
    /\ UNCHANGED <<lane, wants, asks, fut, registered, memory, said, passed, before>>

\* The turn leaves the gate, let through or not; the finally pops the entry.
Leaves(t, through) ==
    /\ registered' = registered \ {asks[t]}
    /\ passed' = IF through THEN passed \cup {[turn |-> t, gate |-> asks[t]]} ELSE passed
    /\ asks' = [asks EXCEPT ![t] = None]
    /\ pc' = [pc EXCEPT ![t] = "running"]

Granted(g) == fut[g] \in card[g].grants

\* The answer is set. A solver decision that let the call through is remembered.
Resume(t) ==
    /\ pc[t] = "waiting" /\ fut[asks[t]] \notin {Pending, "dropped"}
    /\ LET g == asks[t]
       IN  /\ Leaves(t, Granted(g))
           /\ memory' = IF card[g].kind = "solver" /\ Granted(g)
                        THEN [memory EXCEPT ![card[g].key] = g] ELSE memory
    /\ UNCHANGED <<lane, wants, card, fut, said, before>>

\* Mutant: no answer is taken for consent.
SilenceIsConsent(g) == TRUE

\* On a timeout the call does not run, or goes on as it was: only the region keeps
\* its default.
AfterTimeout(g) == card[g].kind = "region"

\* wait_for times out. It may also win over an answer that was just set.
TimesOut(t) ==
    /\ lane = "cloud" /\ pc[t] = "waiting"
    /\ Leaves(t, AfterTimeout(asks[t]))
    /\ fut' = [fut EXCEPT ![asks[t]] = IF @ = Pending THEN "dropped" ELSE @]
    /\ UNCHANGED <<lane, wants, card, memory, said, before>>

\* Cancelled while the card is sent: outside the try, so the entry stays.
CancelledSending(t) ==
    /\ pc[t] = "sending"
    /\ pc' = [pc EXCEPT ![t] = "over"]
    /\ UNCHANGED <<lane, wants, asks, card, fut, registered, memory, said, passed, before>>

CancelledWaiting(t) ==
    /\ pc[t] = "waiting"
    /\ pc' = [pc EXCEPT ![t] = "over"]
    /\ registered' = registered \ {asks[t]}
    /\ fut' = [fut EXCEPT ![asks[t]] = IF @ = Pending THEN "dropped" ELSE @]
    /\ UNCHANGED <<lane, wants, asks, card, memory, said, passed, before>>

Finish(t) ==
    /\ pc[t] \in {"running", "composing"}
    /\ pc' = [pc EXCEPT ![t] = "over"]
    /\ wants' = [wants EXCEPT ![t] = None]
    /\ UNCHANGED <<lane, asks, card, fut, registered, memory, said, passed, before>>

-----------------------------------------------------------------------------
(* Answers, on any socket of any session, repeated and late                 *)

\* Mutant: the entry is popped before its owner is compared.
PoppedForAnyone(s, g) == registered' = registered \ {g}

\* A refused answer leaves the entry, any other takes it out.
PoppedBy(s, g) == registered' = IF s = Owner THEN registered \ {g} ELSE registered

Owns(s) == s = Owner

\* _resolve_pending_*: unknown, foreign and second answers have no effect.
Answer(s, g, d) ==
    /\ card[g] # None /\ card[g].shown
    /\ g \in registered
    /\ PoppedBy(s, g)
    /\ fut' = [fut EXCEPT ![g] = IF Owns(s) /\ @ = Pending THEN d ELSE @]
    /\ said' = [said EXCEPT ![g] = IF s = Owner THEN @ \cup {d} ELSE @]
    /\ UNCHANGED <<lane, pc, wants, asks, card, memory, passed, before>>

\* A payload that does not validate: only the spatial picker fails its future.
Malformed(g) ==
    /\ card[g] # None /\ card[g].shown /\ card[g].kind = "spatial"
    /\ g \in registered
    /\ registered' = registered \ {g}
    /\ fut' = [fut EXCEPT ![g] = IF @ = Pending THEN "invalid" ELSE @]
    /\ said' = [said EXCEPT ![g] = @ \cup {"invalid"}]
    /\ UNCHANGED <<lane, pc, wants, asks, card, memory, passed, before>>

-----------------------------------------------------------------------------
Init ==
    /\ lane \in {"cloud", "local"}
    /\ pc = [t \in Turn |-> "idle"]
    /\ wants = [t \in Turn |-> None]
    /\ asks = [t \in Turn |-> None]
    /\ card = [g \in Gate |-> None]
    /\ fut = [g \in Gate |-> None]
    /\ registered = {} /\ passed = {}
    /\ memory = [k \in Key |-> None]
    /\ said = [g \in Gate |-> {}]
    /\ before = [t \in Turn |-> {}]

Next ==
    \/ \E t \in Turn :
          \/ StartTurn(t) \/ Sent(t) \/ Resume(t) \/ TimesOut(t)
          \/ CancelledSending(t) \/ CancelledWaiting(t) \/ Finish(t)
          \/ NoCard(t) \/ NoWarning(t)
          \/ \E g \in Gate : AskToSolve(t, g) \/ \E kind \in Kinds : Ask(t, g, kind)
          \/ \E key \in Key : FromMemory(t, key) \/ Compose(t, key)
    \/ \E g \in Gate : \/ Malformed(g)
                       \/ \E s \in {Owner, Stranger}, d \in Decisions : Answer(s, g, d)

Spec == Init /\ [][Next]_vars

-----------------------------------------------------------------------------
Cards == [turn : Turn, kind : Kinds, key : Key \cup {None}, grants : SUBSET Decisions,
          shown : BOOLEAN]

GateAssumption ==
    /\ Owner # Stranger
    /\ None \notin Gate \cup Key \cup Cards \cup Decisions \cup {Pending, "dropped", "invalid"}

\* Types. A turn that waits has a gate of its own open.
TypeOK ==
    /\ lane \in {"cloud", "local"}
    /\ pc \in [Turn -> {"idle", "running", "composing", "sending", "waiting", "over"}]
    /\ wants \in [Turn -> Key \cup {None}]
    /\ \A t \in Turn : pc[t] = "composing" => wants[t] # None
    /\ asks \in [Turn -> Gate \cup {None}]
    /\ \A t \in Turn : pc[t] \in {"sending", "waiting"}
                       => asks[t] # None /\ card[asks[t]] # None /\ card[asks[t]].turn = t
    /\ card \in [Gate -> Cards \cup {None}]
    /\ fut \in [Gate -> Decisions \cup {None, Pending, "dropped", "invalid"}]
    /\ registered \subseteq {g \in Gate : card[g] # None}
    /\ memory \in [Key -> Gate \cup {None}]
    /\ said \in [Gate -> SUBSET (Decisions \cup {"invalid"})]
    /\ passed \subseteq [turn : Turn, gate : Gate \cup {None}]
    /\ before \in [Turn -> SUBSET Gate]

Allowed(g) == said[g] \cap card[g].grants # {}

\* A gate that builds no card fails open; one that asks fails closed. A call goes
\* through a question only if the owner's session gave it a decision its card offers:
\* a timeout, a stranger's answer, a decision that was not offered, an answer to
\* another gate or a malformed one never count. Nor is anything else remembered: what
\* went unasked spares no later call its question.
AskedFailsClosed ==
    /\ \A p \in passed : p.gate # None => card[p.gate].kind = "region" \/ Allowed(p.gate)
    /\ \A k \in Key : memory[k] # None => Allowed(memory[k])

\* A remembered decision is never one that was acted on before the turn began ("a tool+bbox
\* pair confirmed last turn must gate again this turn").
FreshApproval == \A p \in passed : p.gate \notin before[p.turn]

\* The comment says more: the memory "never leaks across turns [...] or Cases".
ApprovalStaysInTurn == \A p \in passed : p.gate # None => card[p.gate].turn = p.turn

\* A turn that waits unanswered is still in the registry, so that its owner's
\* answer wakes it, whatever strangers, duplicates and malformed frames did before:
\* in the local lane nothing else does for a day.
WaiterIsReachable ==
    \A t \in Turn : pc[t] = "waiting" => (fut[asks[t]] = Pending <=> asks[t] \in registered)
=============================================================================
