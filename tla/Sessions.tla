------------------------------ MODULE Sessions ------------------------------
(***************************************************************************)
(* The broker's session store and the tasks that share it.                 *)
(*                                                                         *)
(* One tokio task per accepted client connection (Server::handle_connection)*)
(* registers a session, serves the socket and unregisters it; one task per *)
(* control connection switches the active session and changes what the     *)
(* sessions capture.  They share `Sessions` (an RwLock around the store,   *)
(* and mutexes for the spy config) and `Controls` (the upstream switches). *)
(* A write guard is kept across every send to a client's socket, so the    *)
(* guard is a variable here; a step that takes and drops it without a send *)
(* in between is one action.                                               *)
(***************************************************************************)
EXTENDS Naturals, FiniteSets

CONSTANTS
    Conns,       \* accepted client connections, each with its own SessionId
    Controls,    \* control connections
    Configs,     \* spy configurations
    InitSpy,     \* SpyConfig::default()
    Upstreams,   \* the switchable upstreams
    NoSession,   \* `None` in the watched current id
    Free         \* no task holds the write guard

ASSUME SessionsAssumption ==
    /\ NoSession \notin Conns
    /\ Free \notin Conns \cup Controls
    /\ Conns \cap Controls = {}
    /\ InitSpy \in Configs

VARIABLES
    pc,         \* pc[c]: where connection c's task is
    link,       \* link[c]: c's socket: "up", "stalled" (peer not draining), "down"
    store,      \* SessionsHolder.store
    current,    \* SessionsHolder.current
    lock,       \* who holds the write guard across an await
    announced,  \* ids broadcast as added and not yet as removed
    spy,        \* Sessions.spy
    armCfg,     \* armCfg[c]: the config c's task read before it pushes it
    told,       \* told[c]: the last spy config sent to c, {} when none was
    tracked,    \* the connections whose SessionGuard is alive
    sessions,   \* Wanted.sessions
    wanted,     \* wanted[u]: Wanted.verde, Wanted.luau_lsp
    gate,       \* gate[u]: the switch an upstream's task watches
    ctl,        \* ctl[k]: where control k's SetSpy handler is
    ctlCfg,     \* ctlCfg[k]: the config k is pushing
    ctlIds,     \* ctlIds[k]: the listed ids k has still to push to
    ctlTo       \* ctlTo[k]: the id k is sending to

taskVars  == <<pc, link>>
storeVars == <<store, current, announced>>
spyVars   == <<spy, armCfg, told>>
gateVars  == <<tracked, sessions, wanted, gate>>
ctlVars   == <<ctl, ctlCfg, ctlIds, ctlTo>>
vars == <<pc, link, storeVars, lock, spyVars, gateVars, ctlVars>>

\* The states of a connection's task; those of Sending hold the write guard.
PCs == {"absent", "hello", "insert", "announce", "arm", "arming", "track",
        "serve", "pong", "reply", "activate", "remove", "retract", "untrack",
        "gone"}
Sending == {"arming", "pong", "reply"}
\* From the insertion until the removal.
Registered == {"announce", "arm", "track", "serve", "activate", "remove"} \cup Sending
\* Registered, and past the first spy push.
Armed == {"track", "serve", "pong", "reply", "activate"}

(***************************************************************************)
(* Sockets.  A peer may stop draining and start again; a closed socket     *)
(* stays closed.  A send to a stalled socket waits; one to a closed socket *)
(* may still be buffered, or fails.                                        *)
(***************************************************************************)
Stall(c)  == /\ link[c] = "up"
             /\ link' = [link EXCEPT ![c] = "stalled"]
             /\ UNCHANGED <<pc, storeVars, lock, spyVars, gateVars, ctlVars>>
Resume(c) == /\ link[c] = "stalled"
             /\ link' = [link EXCEPT ![c] = "up"]
             /\ UNCHANGED <<pc, storeVars, lock, spyVars, gateVars, ctlVars>>
Close(c)  == /\ link[c] # "down" /\ pc[c] # "absent"
             /\ link' = [link EXCEPT ![c] = "down"]
             /\ UNCHANGED <<pc, storeVars, lock, spyVars, gateVars, ctlVars>>

Delivers(c) == link[c] # "stalled"
Fails(c)    == link[c] = "down"

(***************************************************************************)
(* SessionsHolder.                                                         *)
(***************************************************************************)
\* Mutant: an id that is not stored is taken too.
SetCurrent_AnyId(id) == current' = id

SetCurrent(id) == current' = IF id \in store THEN id ELSE current

InsertSession(c) ==
    /\ store' = store \cup {c}
    /\ current' = IF store = {} THEN c ELSE current

\* Mutant: the active session's exit leaves the slot alone.
RemoveSession_KeepsCurrent(c) ==
    /\ store' = store \ {c}
    /\ current' = current

RemoveSession(c) ==
    /\ store' = store \ {c}
    /\ current' = IF current = c THEN NoSession ELSE current

(***************************************************************************)
(* Controls: the upstream switches, each `wanted && has sessions`.         *)
(***************************************************************************)
Apply(n, w) == /\ sessions' = n
               /\ wanted' = w
               /\ gate' = [u \in Upstreams |-> n > 0 /\ w[u]]

ControlsSet(u, enabled) == Apply(sessions, [wanted EXCEPT ![u] = enabled])

TrackSession(c) == /\ tracked' = tracked \cup {c}
                   /\ Apply(sessions + 1, wanted)

\* Mutant: the count drops, the switches are not applied.
DropGuard_NoApply(c) == /\ tracked' = tracked \ {c}
                        /\ sessions' = sessions - 1
                        /\ UNCHANGED <<wanted, gate>>

DropGuard(c) == /\ tracked' = tracked \ {c}
                /\ Apply(sessions - 1, wanted)

(***************************************************************************)
(* A client connection's task, in program order.                           *)
(***************************************************************************)
Goto(c, l) == pc' = [pc EXCEPT ![c] = l]

\* The handshake is done: the task exists and has its halves of the socket.
Accept(c) ==
    /\ pc[c] = "absent"
    /\ Goto(c, "hello")
    /\ UNCHANGED <<link, storeVars, lock, spyVars, gateVars, ctlVars>>

\* session.send(Hello).await?, before the session is shared.
Hello(c) ==
    /\ pc[c] = "hello" /\ Delivers(c)
    /\ \/ Goto(c, "insert")
       \/ Fails(c) /\ Goto(c, "gone")
    /\ UNCHANGED <<link, storeVars, lock, spyVars, gateVars, ctlVars>>

Insert(c) ==
    /\ pc[c] = "insert" /\ lock = Free
    /\ InsertSession(c)
    /\ Goto(c, "announce")
    /\ UNCHANGED <<link, announced, lock, spyVars, gateVars, ctlVars>>

\* on_session_added.send, after the guard is dropped.
Announce(c) ==
    /\ pc[c] = "announce"
    /\ announced' = announced \cup {c}
    /\ Goto(c, "arm")
    /\ UNCHANGED <<link, store, current, lock, spyVars, gateVars, ctlVars>>

\* The guard first, then the config, then the push under the guard.
Arm(c) ==
    /\ pc[c] = "arm" /\ lock = Free
    /\ armCfg' = [armCfg EXCEPT ![c] = spy]
    /\ IF c \in store
       THEN lock' = c /\ Goto(c, "arming")
       ELSE lock' = lock /\ Goto(c, "track")
    /\ UNCHANGED <<link, storeVars, spy, told, gateVars, ctlVars>>

\* Mutant: `?` on the push, past the removal at the end of the function.
ArmSent_ReturnsEarly(c) ==
    /\ pc[c] = "arming" /\ Delivers(c)
    /\ lock' = Free
    /\ \/ /\ told' = [told EXCEPT ![c] = {armCfg[c]}]
          /\ Goto(c, "track")
       \/ /\ Fails(c) /\ told' = told
          /\ Goto(c, "gone")
    /\ UNCHANGED <<link, storeVars, spy, armCfg, gateVars, ctlVars>>

ArmSent(c) ==
    /\ pc[c] = "arming" /\ Delivers(c)
    /\ lock' = Free
    /\ \/ /\ told' = [told EXCEPT ![c] = {armCfg[c]}]
          /\ Goto(c, "track")
       \/ /\ Fails(c) /\ told' = told
          /\ Goto(c, "remove")
    /\ UNCHANGED <<link, storeVars, spy, armCfg, gateVars, ctlVars>>

Track(c) ==
    /\ pc[c] = "track"
    /\ TrackSession(c)
    /\ Goto(c, "serve")
    /\ UNCHANGED <<link, storeVars, lock, spyVars, ctlVars>>

\* A frame or a relay whose handler sends to the socket under the guard.
Respond(c, l) ==
    /\ pc[c] = "serve" /\ lock = Free
    /\ IF c \in store
       THEN lock' = c /\ Goto(c, l)
       ELSE lock' = lock /\ Goto(c, "remove")
    /\ UNCHANGED <<link, storeVars, spyVars, ctlVars>>

OnPing(c)  == Respond(c, "pong") /\ UNCHANGED gateVars
\* op_rx or dom_rx: dispatch_operation, handle_dom_request.
OnRelay(c) == Respond(c, "reply") /\ UNCHANGED gateVars
\* handle: controls.set, then the UpstreamChanged answer (a task that serves is stored,
\* so the session is found).
OnSetUpstream(c, u, enabled) ==
    /\ Respond(c, "reply")
    /\ ControlsSet(u, enabled) /\ UNCHANGED tracked

\* A failed pong is ignored; any other failed send ends the loop.
PongSent(c) ==
    /\ pc[c] = "pong" /\ Delivers(c)
    /\ lock' = Free /\ Goto(c, "serve")
    /\ UNCHANGED <<link, storeVars, spyVars, gateVars, ctlVars>>
ReplySent(c) ==
    /\ pc[c] = "reply" /\ Delivers(c)
    /\ lock' = Free
    /\ \/ Goto(c, "serve")
       \/ Fails(c) /\ Goto(c, "remove")
    /\ UNCHANGED <<link, storeVars, spyVars, gateVars, ctlVars>>

\* Mutant: set_current awaited inside handle, under the guard.
OnRequestActive_KeepsGuard(c) ==
    /\ pc[c] = "serve" /\ lock = Free
    /\ lock' = c
    /\ Goto(c, "activate")
    /\ UNCHANGED <<link, storeVars, spyVars, gateVars, ctlVars>>

\* handle answers PostHandle::Activate and the guard is dropped.
OnRequestActive(c) ==
    /\ pc[c] = "serve" /\ lock = Free
    /\ Goto(c, IF c \in store THEN "activate" ELSE "remove")
    /\ UNCHANGED <<link, storeVars, lock, spyVars, gateVars, ctlVars>>

\* Mutant: the slot is only taken when it is free.
Activate_OnlyIfFree(c) ==
    /\ pc[c] = "activate" /\ lock = Free
    /\ current' = IF current = NoSession THEN c ELSE current
    /\ Goto(c, "serve")
    /\ UNCHANGED <<link, store, announced, lock, spyVars, gateVars, ctlVars>>

\* The deferred set_current, which takes the guard again.
Activate(c) ==
    /\ pc[c] = "activate" /\ lock = Free
    /\ SetCurrent(c)
    /\ Goto(c, "serve")
    /\ UNCHANGED <<link, store, announced, lock, spyVars, gateVars, ctlVars>>

\* read_next: a close frame, the end of the stream or a read error.
SeeClose(c) ==
    /\ pc[c] = "serve" /\ link[c] = "down"
    /\ Goto(c, "remove")
    /\ UNCHANGED <<link, storeVars, lock, spyVars, gateVars, ctlVars>>

\* read_next: a binary frame that does not decode is an error too, on a live socket.
BadFrame(c) ==
    /\ pc[c] = "serve"
    /\ Goto(c, "remove")
    /\ UNCHANGED <<link, storeVars, lock, spyVars, gateVars, ctlVars>>

Remove(c) ==
    /\ pc[c] = "remove" /\ lock = Free
    /\ RemoveSession(c)
    /\ Goto(c, "retract")
    /\ UNCHANGED <<link, announced, lock, spyVars, gateVars, ctlVars>>

\* Mutant: the guard is taken for granted on every exit.
Retract_AlwaysUntracks(c) ==
    /\ pc[c] = "retract"
    /\ announced' = announced \ {c}
    /\ Goto(c, "untrack")
    /\ UNCHANGED <<link, store, current, lock, spyVars, gateVars, ctlVars>>

\* on_session_removed.send, after the guard is dropped.
Retract(c) ==
    /\ pc[c] = "retract"
    /\ announced' = announced \ {c}
    /\ Goto(c, IF c \in tracked THEN "untrack" ELSE "gone")
    /\ UNCHANGED <<link, store, current, lock, spyVars, gateVars, ctlVars>>

Untrack(c) ==
    /\ pc[c] = "untrack"
    /\ DropGuard(c)
    /\ Goto(c, "gone")
    /\ UNCHANGED <<link, storeVars, lock, spyVars, ctlVars>>

(***************************************************************************)
(* A control connection's SwapActive and SetSpy.                           *)
(***************************************************************************)
SwapActive(k, id) ==
    /\ ctl[k] = "idle" /\ lock = Free
    /\ SetCurrent(id)
    /\ UNCHANGED <<taskVars, store, announced, lock, spyVars, gateVars, ctlVars>>

SetSpy(k, config) ==
    /\ ctl[k] = "idle"
    /\ spy' = config
    /\ ctl' = [ctl EXCEPT ![k] = "list"]
    /\ ctlCfg' = [ctlCfg EXCEPT ![k] = config]
    /\ UNCHANGED <<taskVars, storeVars, lock, armCfg, told, gateVars, ctlIds, ctlTo>>

\* Mutant: only the sessions already served are listed.
ListIds_OnlyServed(k) ==
    /\ ctl[k] = "list" /\ lock = Free
    /\ ctlIds' = [ctlIds EXCEPT ![k] = store \cap tracked]
    /\ ctl' = [ctl EXCEPT ![k] = "push"]
    /\ UNCHANGED <<taskVars, storeVars, lock, spyVars, gateVars, ctlCfg, ctlTo>>

\* The read guard, dropped with the ids collected.
ListIds(k) ==
    /\ ctl[k] = "list" /\ lock = Free
    /\ ctlIds' = [ctlIds EXCEPT ![k] = store]
    /\ ctl' = [ctl EXCEPT ![k] = "push"]
    /\ UNCHANGED <<taskVars, storeVars, lock, spyVars, gateVars, ctlCfg, ctlTo>>

\* Mutant: an id that left is waited for instead of skipped.
PushNext_Waits(k, id) ==
    /\ ctl[k] = "push" /\ id \in ctlIds[k] \cap store /\ lock = Free
    /\ ctlIds' = [ctlIds EXCEPT ![k] = @ \ {id}]
    /\ lock' = k
    /\ ctl' = [ctl EXCEPT ![k] = "send"]
    /\ ctlTo' = [ctlTo EXCEPT ![k] = id]
    /\ UNCHANGED <<taskVars, storeVars, spyVars, gateVars, ctlCfg>>

\* One write guard per listed id; an id that left since is skipped.
PushNext(k, id) ==
    /\ ctl[k] = "push" /\ id \in ctlIds[k] /\ lock = Free
    /\ ctlIds' = [ctlIds EXCEPT ![k] = @ \ {id}]
    /\ IF id \in store
       THEN /\ lock' = k
            /\ ctl' = [ctl EXCEPT ![k] = "send"]
            /\ ctlTo' = [ctlTo EXCEPT ![k] = id]
       ELSE UNCHANGED <<lock, ctl, ctlTo>>
    /\ UNCHANGED <<taskVars, storeVars, spyVars, gateVars, ctlCfg>>

\* Mutant: a push to a closed socket never returns.
PushSent_NoFailure(k) ==
    /\ ctl[k] = "send" /\ link[ctlTo[k]] = "up"
    /\ lock' = Free
    /\ ctl' = [ctl EXCEPT ![k] = "push"]
    /\ told' = [told EXCEPT ![ctlTo[k]] = {ctlCfg[k]}]
    /\ UNCHANGED <<taskVars, storeVars, spy, armCfg, gateVars, ctlCfg, ctlIds, ctlTo>>

\* A failed push is only logged.
PushSent(k) ==
    /\ ctl[k] = "send" /\ Delivers(ctlTo[k])
    /\ lock' = Free
    /\ ctl' = [ctl EXCEPT ![k] = "push"]
    /\ \/ told' = [told EXCEPT ![ctlTo[k]] = {ctlCfg[k]}]
       \/ Fails(ctlTo[k]) /\ told' = told
    /\ UNCHANGED <<taskVars, storeVars, spy, armCfg, gateVars, ctlCfg, ctlIds, ctlTo>>

PushDone(k) ==
    /\ ctl[k] = "push" /\ ctlIds[k] = {}
    /\ ctl' = [ctl EXCEPT ![k] = "idle"]
    /\ UNCHANGED <<taskVars, storeVars, lock, spyVars, gateVars, ctlCfg, ctlIds, ctlTo>>

-----------------------------------------------------------------------------
Init ==
    /\ pc = [c \in Conns |-> "absent"]
    /\ link = [c \in Conns |-> "up"]
    /\ store = {} /\ current = NoSession /\ announced = {}
    /\ lock = Free
    /\ spy = InitSpy
    /\ armCfg = [c \in Conns |-> InitSpy]
    /\ told = [c \in Conns |-> {}]
    /\ tracked = {} /\ sessions = 0
    /\ wanted \in [Upstreams -> BOOLEAN]
    /\ gate = [u \in Upstreams |-> FALSE]
    /\ ctl = [k \in Controls |-> "idle"]
    /\ ctlCfg = [k \in Controls |-> InitSpy]
    /\ ctlIds = [k \in Controls |-> {}]
    /\ ctlTo = [k \in Controls |-> NoSession]

Register(c)   == Accept(c) \/ Hello(c) \/ Insert(c) \/ Announce(c) \/ Arm(c)
                   \/ ArmSent(c) \/ Track(c)
Serve(c)      == \/ OnPing(c) \/ OnRelay(c) \/ PongSent(c) \/ ReplySent(c)
                 \/ \E u \in Upstreams, on \in BOOLEAN : OnSetUpstream(c, u, on)
                 \/ OnRequestActive(c) \/ Activate(c) \/ SeeClose(c) \/ BadFrame(c)
Unregister(c) == Remove(c) \/ Retract(c) \/ Untrack(c)
Socket(c)     == Stall(c) \/ Resume(c) \/ Close(c)
Command(k)    == \/ \E id \in Conns : SwapActive(k, id) \/ PushNext(k, id)
                 \/ \E config \in Configs : SetSpy(k, config)
                 \/ ListIds(k) \/ PushSent(k) \/ PushDone(k)

Next == \/ \E c \in Conns : Register(c) \/ Serve(c) \/ Unregister(c) \/ Socket(c)
        \/ \E k \in Controls : Command(k)

Spec == Init /\ [][Next]_vars

(***************************************************************************)
(* Fairness.  Each task has one step it must take next, so a condition on  *)
(* all of them is one on each.  A spawned task keeps being polled; tokio's *)
(* RwLock queues its waiters, so a step that waits for the guard is        *)
(* strongly fair; a select arm that is ready again and again is            *)
(* picked in the end (SF on SeeClose).  A send waits while its peer does   *)
(* not drain and ends if the peer drains again and again (SF); that a      *)
(* stalled peer does so is PeersDrain, an assumption about the peer: the   *)
(* broker has no timeout.                                                  *)
(***************************************************************************)
Proceed(c) == Hello(c) \/ Insert(c) \/ Announce(c) \/ Arm(c) \/ ArmSent(c) \/ Track(c)
                \/ PongSent(c) \/ ReplySent(c) \/ Activate(c) \/ Unregister(c)
Push(k) == ListIds(k) \/ PushSent(k) \/ PushDone(k) \/ \E id \in Conns : PushNext(k, id)

Fairness ==
    /\ \A c \in Conns : SF_vars(Proceed(c)) /\ SF_vars(SeeClose(c))
    /\ \A k \in Controls : SF_vars(Push(k))

PeersDrain == \A c \in Conns : WF_vars(Resume(c))

LiveSpec == Spec /\ Fairness /\ PeersDrain

-----------------------------------------------------------------------------
(***************************************************************************)
(* Properties.                                                             *)
(***************************************************************************)

\* The variables of the store, the tasks, the switches and the handlers keep
\* their types.
TypeOK ==
    /\ pc \in [Conns -> PCs]
    /\ link \in [Conns -> {"up", "stalled", "down"}]
    /\ store \subseteq Conns
    /\ current \in Conns \cup {NoSession}
    /\ announced \subseteq Conns
    /\ lock \in {Free} \cup Conns \cup Controls
    /\ spy \in Configs
    /\ armCfg \in [Conns -> Configs]
    /\ told \in [Conns -> SUBSET Configs]
    /\ tracked \subseteq Conns
    /\ sessions \in Nat
    /\ wanted \in [Upstreams -> BOOLEAN]
    /\ gate \in [Upstreams -> BOOLEAN]
    /\ ctl \in [Controls -> {"idle", "list", "push", "send"}]
    /\ ctlCfg \in [Controls -> Configs]
    /\ ctlIds \in [Controls -> SUBSET Conns]
    /\ ctlTo \in [Controls -> Conns \cup {NoSession}]

\* The watched id always names a registered session, however joins, leaves,
\* swaps and deferred activations interleave: `SessionsHolder::current` never
\* answers a dangling id.
CurrentIsStored == current # NoSession => current \in store

\* A connection is in the store exactly while its task is between insert and
\* remove, so `info(id).expect("the session we just inserted")` cannot panic and
\* no handler sees its own session missing; and a task that ended, whichever way
\* it failed, left nothing behind: no stored session, no announcement without its
\* retraction, no counted guard.
NothingLeaks ==
    /\ store = {c \in Conns : pc[c] \in Registered}
    /\ \A c \in Conns : pc[c] = "gone" => c \notin announced \cup tracked

\* The write guard is held by a task that is sending, and by nobody else: a
\* deferred activation, an exit or a failed send never keeps it.
GuardHasSender ==
    /\ \A c \in Conns : lock = c <=> pc[c] \in Sending
    /\ \A k \in Controls : lock = k <=> ctl[k] = "send"

\* Each upstream's switch is on exactly while it is wanted and a guard of a served
\* session is alive (the doc of Controls), and the count is that of the guards, so
\* it can neither wrap below zero nor stay up after the last session.
SwitchesReflectSessions ==
    /\ sessions = Cardinality(tracked)
    /\ \A u \in Upstreams : gate[u] <=> wanted[u] /\ tracked # {}

\* Once no SetSpy is in progress, every served session was last told what
\* `Sessions::spy` says ("What sessions are currently told to capture"): a session
\* that joins while the config changes misses neither the listing nor the read
\* under the guard.
SpySettled ==
    (\A k \in Controls : ctl[k] = "idle") =>
        \A c \in Conns : pc[c] \in Armed /\ link[c] # "down" => told[c] = {spy}

\* A join or a leave moves the active slot only as documented: the first session
\* of an empty store takes it, the active session's own exit empties it, nothing
\* else touches it.
MembershipKeepsActive ==
    [][store' # store =>
         \/ store = {} /\ current' \in store'
         \/ store # {} /\ current' = IF current \in store' THEN current ELSE NoSession]_vars

\* The store, the active id and the switches change only as the upstream tasks
\* expect; the guard, the broadcasts and the spy pushes are invisible to them.
Slot == INSTANCE SessionSlot WITH served <- tracked
ImplementsSlot == Slot!SlotSpec

\* A session that asked for the active slot gets it, although its handler runs
\* under the guard that set_current needs.
ActivationLands == \A c \in Conns : pc[c] = "activate" ~> current = c

\* A closed socket is noticed and its session unregistered, uncounted and
\* retracted, whatever its task was doing and whoever held the guard.
DeadClientLeaves ==
    \A c \in Conns : link[c] = "down" ~> pc[c] = "gone"

\* A SetSpy always ends, whatever its listed sessions do meanwhile; with SpySettled
\* this is "for the ones connected now and any later" (the doc of `set_spy`).
PushEnds == \A k \in Controls : ctl[k] = "list" ~> ctl[k] = "idle"

=============================================================================
