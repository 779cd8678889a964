------------------------------ MODULE CaseLayers ------------------------------
(***************************************************************************)
(* The map layers of the Cases of one session. A turn adds the layer it    *)
(* publishes to the emitter of its chat connection and then merges that    *)
(* emitter into the document of a Case. The user edits the same documents  *)
(* through the App connection. Documents are read and written as a whole,  *)
(* and every read and write suspends.                                      *)
(*                                                                         *)
(* Nothing is persisted from the emitter of the App connection: it is left *)
(* out. A layer is named by the turn that publishes it. Some turns publish *)
(* the frame of an animation step, and a newer frame of the step takes the *)
(* place of the older ones.                                                *)
(***************************************************************************)
EXTENDS Naturals

CONSTANTS
    Chat,    \* chat connections
    Case,    \* Cases, existing or yet to be created: a bound
    Turn,    \* turns, each started at most once: a bound
    None,
    Never,   \* _CASE_SYNC_NEVER
    MaxCommands  \* commands of the App connection: a bound

VARIABLES
    doc,      \* Case -> its CaseSummary as stored
    frames,   \* the turns whose layer is a frame, all of one step
    commands, \* commands the App has sent
    active,   \* _SESSION_ACTIVE_CASE of the session
    edit,     \* the edit the App handler has read a document for, or None
    handler,  \* Chat -> where the handler of a user-message is
    loading,  \* Chat -> the Case being loaded into the emitter
    got,      \* Chat -> the document it has read
    emitter,  \* Chat -> the layers in emitter._loaded_layers
    synced,   \* Chat -> state.case_context_synced_to
    pin,      \* Chat -> state.current_turn_case_id
    latch,    \* Chat -> "none", "first" (did_first_resume) or "done" (did_fresh_resume)
    turn,     \* Turn -> where it is
    key,      \* Turn -> the Case it was pinned to when it started
    by,       \* Turn -> its connection
    target,   \* Turn -> turn_case_id of its current dispatch
    merged,   \* Turn -> the document its persist has read, then merged
    stopped,  \* the turns that were superseded
    added,    \* history: the turns whose layer is on the map
    gone,     \* history: the persisted layers the user deleted since they were added
    edited,   \* history: Case -> the title and status the user last gave it
    stale,    \* history: the Cases overwritten from an outdated read, or not written
    crossed   \* history: was a connection re-aimed under a running turn, or did it
              \* take over layers of another Case?

appVars == <<edit, commands>>
chatVars == <<handler, loading, got, emitter, synced, pin, latch>>
turnVars == <<turn, key, by, target, merged, stopped>>
history == <<added, gone, edited, stale, crossed>>
vars == <<doc, active, frames, appVars, chatVars, turnVars, history>>

-----------------------------------------------------------------------------
Live(t) == turn[t] \notin {"new", "done"}

Exists(k) == doc[k].status # "absent"

Outdated(read) == IF read = None THEN None ELSE [read EXCEPT !.fresh = FALSE]

\* update-one is atomic: a lock per document. Reads under way are outdated.
Store(k, d, fresh) ==
    /\ doc' = [doc EXCEPT ![k] = d]
    /\ stale' = IF fresh THEN stale ELSE stale \cup {k}
    /\ merged' = [t \in Turn |-> IF target[t] = k THEN Outdated(merged[t]) ELSE merged[t]]

EditOutdated(k) == IF edit # None /\ edit.case = k THEN Outdated(edit) ELSE edit

-----------------------------------------------------------------------------
(* Taking over what other connections show                                  *)

\* _SESSION_LIVE_TURNS, but for the turns of c itself.
Others(c) == {t \in Turn : Live(t) /\ t \notin stopped /\ by[t] # c}

\* The emitter of c serves another Case than k.
Elsewhere(c, k) ==
    \/ synced[c] \notin {Never, k}
    \/ \E t \in Turn : Live(t) /\ by[t] = c /\ key[t] # k

\* _rebind_live_turns: every running turn of the session, of whatever Case, sends to
\* the socket of c from now on, and merge_loaded_layers_from gives c its layers.
TakeOver(c) ==
    emitter' = [emitter EXCEPT ![c] = @ \cup UNION {emitter[by[t]] : t \in Others(c)}]

TakesForeign(c) == \E t \in Others(c) : Elsewhere(c, key[t])

-----------------------------------------------------------------------------
(* user-message                                                             *)

\* The turn starts, pinned to k. A turn of the same Case is cancelled.
Start(c, k) ==
    /\ \E t \in Turn :
          /\ turn[t] = "new"
          /\ turn' = [turn EXCEPT ![t] = "running"]
          /\ key' = [key EXCEPT ![t] = k]
          /\ by' = [by EXCEPT ![t] = c]
    /\ stopped' = stopped \cup {t \in Turn : Live(t) /\ key[t] = k}
    /\ pin' = [pin EXCEPT ![c] = k]
    /\ TakeOver(c)
    /\ crossed' = (crossed \/ k # synced[c] \/ TakesForeign(c))
    /\ handler' = [handler EXCEPT ![c] = "idle"]
    /\ UNCHANGED <<doc, appVars, loading, got, synced, latch, target, merged, added, gone,
                   edited, stale>>

\* Mutant: the emitter keeps what it holds when the Case changes.
ReseedKept(c, layers) ==
    /\ emitter' = emitter
    /\ crossed' = (crossed \/ \E t \in Turn : Live(t) /\ by[t] = c)

\* reset_loaded_layers. A turn that runs on the connection uses this emitter too.
Reseed(c, layers) ==
    /\ emitter' = [emitter EXCEPT ![c] = layers]
    /\ crossed' = (crossed \/ \E t \in Turn : Live(t) /\ by[t] = c)

\* _sync_case_context up to its first suspension, with k the active Case.
BeginSync(c, k) ==
    \/ /\ k # None /\ synced[c] = k
       /\ Start(c, k)
    \/ /\ k # None /\ synced[c] # k
       /\ synced' = [synced EXCEPT ![c] = k]
       /\ loading' = [loading EXCEPT ![c] = k]
       /\ handler' = [handler EXCEPT ![c] = "reading"]
       /\ UNCHANGED <<doc, appVars, got, emitter, pin, latch, turnVars, history>>
    \/ /\ k = None /\ synced[c] = None
       /\ handler' = [handler EXCEPT ![c] = "creating"]
       /\ UNCHANGED <<doc, appVars, loading, got, emitter, synced, pin, latch, turnVars, history>>
    \/ /\ k = None /\ synced[c] # None
       /\ synced' = [synced EXCEPT ![c] = None]
       /\ Reseed(c, {})
       /\ handler' = [handler EXCEPT ![c] = "creating"]
       /\ UNCHANGED <<doc, appVars, loading, got, pin, latch, turnVars, added, gone, edited,
                      stale>>

\* _prepare_user_turn, step 0. The stamped Case becomes the active one, and
\* the persist of the pointer suspends if it was another one.
AskHere(c) ==
    /\ handler[c] = "idle" /\ \E t \in Turn : turn[t] = "new"
    /\ BeginSync(c, active)
    /\ UNCHANGED active

AskElsewhere(c, k) ==
    /\ handler[c] = "idle" /\ \E t \in Turn : turn[t] = "new"
    /\ Exists(k) /\ active # k
    /\ active' = k
    /\ synced' = [synced EXCEPT ![c] = Never]
    /\ handler' = [handler EXCEPT ![c] = "stamped"]
    /\ UNCHANGED <<doc, appVars, loading, got, emitter, pin, latch, turnVars, history>>

Sync(c) == handler[c] = "stamped" /\ BeginSync(c, active) /\ UNCHANGED active

\* get_session_state, then the emitter is seeded from it. A failed read seeds
\* nothing.
ReadCase(c) ==
    /\ handler[c] = "reading"
    /\ handler' = [handler EXCEPT ![c] = "read"]
    /\ got' = [got EXCEPT ![c] = doc[loading[c]].layers]
    /\ UNCHANGED <<doc, active, appVars, loading, emitter, synced, pin, latch, turnVars,
                   history>>

Loaded(c, layers) ==
    /\ Reseed(c, layers)
    /\ handler' = [handler EXCEPT ![c] = "loaded"]
    /\ loading' = [loading EXCEPT ![c] = None]
    /\ got' = [got EXCEPT ![c] = {}]
    /\ UNCHANGED <<doc, active, appVars, synced, pin, latch, turnVars, added, gone, edited, stale>>

LoadCase(c) == handler[c] = "read" /\ Loaded(c, got[c])

LoadFails(c) == handler[c] = "reading" /\ Loaded(c, {})

\* The rest of _prepare_user_turn reads the active Case again. Without one it
\* creates a Case, if the write succeeds.
Pin(c) ==
    /\ \/ handler[c] = "loaded" /\ active # None
       \/ handler[c] = "created"
    /\ Start(c, active)
    /\ UNCHANGED active

LeftAtRoot(c) ==
    /\ handler[c] = "loaded" /\ active = None
    /\ handler' = [handler EXCEPT ![c] = "creating"]
    /\ UNCHANGED <<doc, active, appVars, loading, got, emitter, synced, pin, latch, turnVars,
                   history>>

AutoCreate(c) ==
    /\ handler[c] = "creating"
    /\ handler' = [handler EXCEPT ![c] = "created"]
    /\ \/ UNCHANGED <<doc, active, appVars, synced, emitter, crossed, edited>>
       \/ \E k \in Case :
             /\ ~Exists(k)
             /\ doc' = [doc EXCEPT ![k].status = "active"]
             /\ edited' = [edited EXCEPT ![k].status = "active"]
             /\ active' = k
             /\ synced' = [synced EXCEPT ![c] = k]
             /\ Reseed(c, {})
             /\ UNCHANGED appVars
    /\ UNCHANGED <<loading, got, pin, latch, turnVars, added, gone, stale>>

-----------------------------------------------------------------------------
(* session-resume, first on a new socket and then every 25 s                *)

\* Only the first one may move the session to the Case the client is in. One that
\* would find nothing to do is left out.
Resume(c) ==
    /\ handler[c] = "idle" /\ (latch[c] # "done" \/ Others(c) # {})
    /\ handler' = [handler EXCEPT ![c] = "resuming"]
    /\ latch' = [latch EXCEPT ![c] = IF @ = "none" THEN "first" ELSE @]
    /\ \/ UNCHANGED <<active, synced>>
       \/ /\ latch[c] = "none"
          /\ \E k \in Case \ {active} : Exists(k) /\ active' = k
          /\ synced' = [synced EXCEPT ![c] = Never]
    /\ UNCHANGED <<doc, appVars, loading, got, emitter, pin, turnVars, history>>

\* With turns of other sockets to take over, the replay is left to a later resume.
Rebind(c) ==
    /\ handler[c] = "resuming"
    /\ TakeOver(c)
    /\ crossed' = (crossed \/ TakesForeign(c))
    /\ IF Others(c) = {} /\ latch[c] = "first" /\ active # None
       THEN /\ handler' = [handler EXCEPT ![c] = "replaying"]
            /\ loading' = [loading EXCEPT ![c] = active]
       ELSE handler' = [handler EXCEPT ![c] = "idle"] /\ UNCHANGED loading
    /\ latch' = [latch EXCEPT ![c] = IF Others(c) = {} THEN "done" ELSE @]
    /\ UNCHANGED <<doc, active, appVars, got, synced, pin, turnVars, added, gone, edited, stale>>

\* _replay_active_case_layers: get_session_state ...
ReplayRead(c) ==
    /\ handler[c] = "replaying"
    /\ handler' = [handler EXCEPT ![c] = "replayed"]
    /\ got' = [got EXCEPT ![c] = doc[loading[c]].layers]
    /\ UNCHANGED <<doc, active, appVars, loading, emitter, synced, pin, latch, turnVars,
                   history>>

Resumed(c) ==
    /\ handler' = [handler EXCEPT ![c] = "idle"]
    /\ loading' = [loading EXCEPT ![c] = None]
    /\ got' = [got EXCEPT ![c] = {}]
    /\ UNCHANGED <<doc, active, appVars, synced, pin, latch, turnVars, added, gone, edited, stale>>

\* ... then reset_loaded_layers, which leaves case_context_synced_to as it was.
Replay(c) ==
    /\ handler[c] = "replayed"
    /\ emitter' = [emitter EXCEPT ![c] = got[c]]
    /\ crossed' = \/ crossed \/ synced[c] \notin {Never, loading[c]}
                  \/ \E t \in Turn : Live(t) /\ by[t] = c
    /\ Resumed(c)

ReplayFails(c) ==
    /\ handler[c] = "replaying"
    /\ Resumed(c)
    /\ UNCHANGED <<emitter, crossed>>

-----------------------------------------------------------------------------
(* Turns                                                                    *)

\* _turn_case_id: the pin is the connection's, not the turn's.
TurnCase(c) == IF pin[c] # None THEN pin[c] ELSE active

\* A tool call. It captures its Case once, up front.
DispatchTool(t) ==
    /\ turn[t] = "running" /\ t \notin stopped
    /\ turn' = [turn EXCEPT ![t] = "tool"]
    /\ target' = [target EXCEPT ![t] = TurnCase(by[t])]
    /\ UNCHANGED <<doc, active, appVars, chatVars, key, by, merged, stopped, history>>

\* What an emitter may hold with the layer of t: a frame takes the place of the first
\* one of its step.
Adding(t, held) ==
    IF t \in frames /\ held \cap frames # {}
    THEN {(held \ {x}) \cup {t} : x \in held \cap frames}
    ELSE {held \cup {t}}

\* add_loaded_layer appends or replaces before it emits; a persist follows every add.
AddLayer(t) ==
    /\ turn[t] = "tool" /\ t \notin stopped
    /\ \E held \in Adding(t, emitter[by[t]]) : emitter' = [emitter EXCEPT ![by[t]] = held]
    /\ turn' = [turn EXCEPT ![t] = "persist"]
    /\ added' = added \cup {t}
    /\ gone' = gone \ ({t} \ frames)
    /\ UNCHANGED <<doc, active, appVars, handler, loading, got, synced, pin, latch, key, by,
                   target, merged, stopped, edited, stale, crossed>>

\* The tool returns no layer, fails or is cancelled: its finally persists too.
NoLayer(t) ==
    /\ turn[t] = "tool"
    /\ turn' = [turn EXCEPT ![t] = "persist"]
    /\ UNCHANGED <<doc, active, appVars, chatVars, key, by, target, merged, stopped, history>>

\* _persist_case_loaded_layers, shielded from a cancel: get_case ...
PersistRead(t) ==
    /\ turn[t] = "persist"
    /\ IF target[t] = None \/ ~Exists(target[t])
       THEN turn' = [turn EXCEPT ![t] = "running"] /\ UNCHANGED merged
       ELSE /\ turn' = [turn EXCEPT ![t] = "merge"]
            /\ merged' = [merged EXCEPT ![t] = [new |-> doc[target[t]], fresh |-> TRUE]]
    /\ UNCHANGED <<doc, active, appVars, chatVars, key, by, target, stopped, history>>

\* Mutant: the emitter replaces what the document holds.
Replacing(stored, held) == held

\* A frame in the emitter supersedes every stored one.
Union(stored, held) ==
    held \cup IF held \cap frames = {} THEN stored ELSE stored \ frames

DropRead(t) == [merged EXCEPT ![t] = None]

\* ... then the layers of the emitter are merged in; nothing new, no write ...
PersistMerge(t) ==
    /\ turn[t] = "merge"
    /\ LET d == [merged[t].new EXCEPT !.layers = Union(@, emitter[by[t]])]
       IN IF d = merged[t].new
          THEN /\ turn' = [turn EXCEPT ![t] = "running"]
               /\ merged' = DropRead(t)
          ELSE /\ turn' = [turn EXCEPT ![t] = "write"]
               /\ merged' = [merged EXCEPT ![t].new = d]
    /\ UNCHANGED <<doc, active, appVars, chatVars, key, by, target, stopped, history>>

\* Mutant: the stored row gets the status a fresh CaseSummary has.
UpsertActive(d) == [d EXCEPT !.status = "active"]

Upsert(d) == d

\* ... then the whole CaseSummary is written back.
PersistWrite(t) ==
    /\ turn[t] = "write"
    /\ LET d == Upsert(merged[t].new)
       IN /\ doc' = [doc EXCEPT ![target[t]] = d]
          /\ stale' = IF merged[t].fresh THEN stale ELSE stale \cup {target[t]}
    /\ merged' = [u \in Turn |-> IF u = t THEN None
                                 ELSE IF target[u] = target[t] THEN Outdated(merged[u])
                                 ELSE merged[u]]
    /\ edit' = EditOutdated(target[t])
    /\ turn' = [turn EXCEPT ![t] = "running"]
    /\ UNCHANGED <<commands, active, chatVars, key, by, target, stopped, added, gone, edited,
                   crossed>>

\* The write fails: it is logged, and the turn goes on.
PersistFails(t) ==
    /\ turn[t] = "write"
    /\ turn' = [turn EXCEPT ![t] = "running"]
    /\ merged' = DropRead(t)
    /\ stale' = stale \cup {target[t]}
    /\ UNCHANGED <<doc, active, appVars, chatVars, key, by, target, stopped, added, gone, edited,
                   crossed>>

EndTurn(t) ==
    /\ turn[t] = "running"
    /\ turn' = [turn EXCEPT ![t] = "done"]
    /\ UNCHANGED <<doc, active, appVars, chatVars, key, by, target, merged, stopped, history>>

-----------------------------------------------------------------------------
(* The App connection                                                       *)

\* The App handler takes one message at a time.
Command == edit = None /\ commands < MaxCommands /\ commands' = commands + 1

\* case-command(select): the App's own context is all it loads.
SelectCase(k) ==
    /\ Command /\ Exists(k) /\ active # k
    /\ active' = k
    /\ UNCHANGED <<doc, edit, chatVars, turnVars, history>>

\* case-command(deselect)
Deselect ==
    /\ Command /\ active # None
    /\ active' = None
    /\ UNCHANGED <<doc, edit, chatVars, turnVars, history>>

\* case-command(delete): only the status is written.
DeleteCase(k) ==
    /\ Command /\ doc[k].status = "active"
    /\ Store(k, [doc[k] EXCEPT !.status = "deleted"], TRUE)
    /\ edited' = [edited EXCEPT ![k].status = "deleted"]
    /\ active' = IF active = k THEN None ELSE active
    /\ UNCHANGED <<edit, chatVars, turn, key, by, target, stopped, added, gone, crossed>>

\* case-command(rename), as set-bbox and the auto-name: get_case ...
RenameRead(k) ==
    /\ Command /\ Exists(k) /\ doc[k].title = "old"
    /\ edit' = [case |-> k, new |-> [doc[k] EXCEPT !.title = "new"], named |-> {"new"},
                dropped |-> {}, fresh |-> TRUE]
    /\ UNCHANGED <<doc, active, chatVars, turnVars, history>>

\* layer-delete in the Case on view: get_case; without the layer, no write ...
DeleteLayerRead(l) ==
    /\ Command /\ active # None /\ l \in doc[active].layers
    /\ edit' = [case |-> active, new |-> [doc[active] EXCEPT !.layers = @ \ {l}],
                named |-> {}, dropped |-> {l}, fresh |-> TRUE]
    /\ UNCHANGED <<doc, active, chatVars, turnVars, history>>

\* ... then the whole CaseSummary is written back.
EditWrite ==
    /\ edit # None
    /\ Store(edit.case, edit.new, edit.fresh)
    /\ edit' = None
    /\ gone' = gone \cup edit.dropped
    /\ edited' = IF edit.named = {} THEN edited
                 ELSE [edited EXCEPT ![edit.case].title = "new"]
    /\ UNCHANGED <<commands, active, chatVars, turn, key, by, target, stopped, added, crossed>>

\* The write fails: the user gets an error, or it is only logged.
EditFails ==
    /\ edit # None
    /\ edit' = None
    /\ UNCHANGED <<doc, commands, active, chatVars, turnVars, history>>

-----------------------------------------------------------------------------
Init ==
    /\ \E existing \in SUBSET Case :
          doc = [k \in Case |-> [status |-> IF k \in existing THEN "active" ELSE "absent",
                                 title |-> "old", layers |-> {}]]
    /\ active = None
    /\ frames \in SUBSET Turn
    /\ edit = None /\ commands = 0
    /\ handler = [c \in Chat |-> "idle"]
    /\ loading = [c \in Chat |-> None]
    /\ got = [c \in Chat |-> {}]
    /\ emitter = [c \in Chat |-> {}]
    /\ synced = [c \in Chat |-> Never]
    /\ pin = [c \in Chat |-> None]
    /\ latch = [c \in Chat |-> "none"]
    /\ turn = [t \in Turn |-> "new"]
    /\ key = [t \in Turn |-> None]
    /\ by = [t \in Turn |-> None]
    /\ target = [t \in Turn |-> None]
    /\ merged = [t \in Turn |-> None]
    /\ stopped = {} /\ added = {} /\ gone = {} /\ stale = {}
    /\ edited = [k \in Case |-> [status |-> doc[k].status, title |-> "old"]]
    /\ crossed = FALSE

Next ==
    /\ \/ \E c \in Chat : \/ AskHere(c) \/ Sync(c) \/ ReadCase(c) \/ LoadCase(c) \/ LoadFails(c)
                          \/ Pin(c) \/ LeftAtRoot(c) \/ AutoCreate(c)
                          \/ Resume(c) \/ Rebind(c) \/ ReplayRead(c) \/ Replay(c)
                          \/ ReplayFails(c)
                          \/ \E k \in Case : AskElsewhere(c, k)
       \/ \E t \in Turn : \/ DispatchTool(t) \/ AddLayer(t) \/ NoLayer(t)
                          \/ PersistRead(t) \/ PersistMerge(t) \/ PersistWrite(t)
                          \/ PersistFails(t) \/ EndTurn(t) \/ DeleteLayerRead(t)
       \/ \E k \in Case : SelectCase(k) \/ DeleteCase(k) \/ RenameRead(k)
       \/ Deselect \/ EditWrite \/ EditFails
    /\ UNCHANGED frames

Spec == Init /\ [][Next]_vars

-----------------------------------------------------------------------------
Summary == [status : {"absent", "active", "deleted"}, title : {"old", "new"},
            layers : SUBSET Turn]

\* What a persist, and what an edit of the user, has read and means to write.
Merge == [new : Summary, fresh : BOOLEAN]
Edit == [case : Case, new : Summary, named : SUBSET {"new"}, dropped : SUBSET Turn,
         fresh : BOOLEAN]

CaseAssumption ==
    /\ MaxCommands \in Nat
    /\ None \notin Case \cup Merge \cup Edit /\ Never \notin Case \cup {None}

\* The turns whose layers belong in k. One that was left at the root, because no
\* Case could be created, follows the Case on view.
PinnedTo(k) == {t \in Turn : key[t] \in {k, None}}

\* Types. A persist is between its read and its write exactly while it has read
\* something.
TypeOK ==
    /\ doc \in [Case -> Summary]
    /\ active \in Case \cup {None}
    /\ commands \in 0..MaxCommands
    /\ handler \in [Chat -> {"idle", "stamped", "reading", "read", "loaded", "creating",
                             "created", "resuming", "replaying", "replayed"}]
    /\ latch \in [Chat -> {"none", "first", "done"}]
    /\ emitter \in [Chat -> SUBSET Turn]
    /\ synced \in [Chat -> Case \cup {None, Never}]
    /\ pin \in [Chat -> Case \cup {None}]
    /\ \A t \in Turn : /\ turn[t] \in {"merge", "write"} <=> merged[t] # None
                       /\ target[t] \in Case \cup {None}
    /\ stopped \cup added \cup gone \cup frames \subseteq Turn
    /\ \A c \in Chat : handler[c] \in {"reading", "read", "replaying", "replayed"}
                         <=> loading[c] # None

\* The layers k may hold by now.
Belongs(k) == {t \in PinnedTo(k) : turn[t] # "new"}

\* The layer of t, or for a frame those of its Case that may have superseded it.
Versions(t) == IF t \in frames THEN frames \cap Belongs(key[t]) ELSE {t}

\* A layer that was persisted stays in the document of its Case until the user
\* deletes it, failed loads, renames, deleted Cases and later turns
\* notwithstanding, unless two writers of the document overlapped, a write failed,
\* or a connection was re-aimed under a running turn or took over layers of another
\* Case ("union semantics lose nothing"). A frame may be superseded by another of
\* its step: until the user deletes one of them, one of them is there.
PublishedIsKept ==
    crossed \/ \A t \in added :
        turn[t] \in {"running", "done"} /\ key[t] # None
        => Versions(t) \cap (doc[key[t]].layers \cup gone) # {} \/ key[t] \in stale

\* As long as no connection is re-aimed under a running turn, or takes over the layers
\* of a turn or a Case other than its own, a document holds no layer of another Case,
\* whatever Cases the user visits in between, whatever loads fail and whatever
\* sockets take over the turns of their own Case (the reset of the emitter in
\* _sync_case_context).
NoForeignLayer ==
    crossed \/ \A k \in Case : doc[k].layers \subseteq PinnedTo(k)

\* What the user last said of a Case, its name or that it is deleted, is undone
\* only by a writer whose read is older ("no surprise resurrection of a
\* tombstoned Case via this side-channel").
EditsKept ==
    \A k \in Case \ stale : /\ doc[k].status = edited[k].status
                            /\ doc[k].title = edited[k].title

\* A turn's layers are persisted in the Case it was pinned to when it started
\* ("a concurrent turn cannot re-aim").
LayersFollowPin == \A k \in Case : doc[k].layers \subseteq PinnedTo(k)

\* A layer the user deleted, other than a frame, does not come back unless it is
\* published again, even if no writers ever overlap ("cannot RESURRECT on the next
\* turn or on a Case reopen").
DeletedStaysDeleted ==
    crossed \/ \A k \in Case \ stale : gone \cap doc[k].layers \subseteq frames
=============================================================================
