# Verification of roprobe

roprobe shows the instance tree of running Roblox games in an editor and runs
operations and scripts in them. Its **client** (Luau) runs inside the game, its
**broker** (Rust, tokio) accepts clients and control connections, keeps one mirror
of the DataModel per client and connects to the local tool **Verde**, and its
**extension** (TypeScript, VS Code) is a control connection with views.

    game --events--> client ==ws==> broker task --mirror feed--> Verde task ==ws==> Verde
                     client <==ws== broker task <-op/dom queues- Verde task, control tasks
                                     session store, switches, spy config, histories
                                    control tasks ==ws==> extension, command line

## Inventory

| component | state | operations | what is hard |
|---|---|---|---|
| session store and connection tasks (`broker/src/server/{mod,manager,session}.rs`, `upstream/mod.rs`) | `SessionsHolder` (store, watched current id) behind an async RwLock, spy config, histories, broadcasts, `Controls` | join, arm, serve, request active, leave; swap, list, spy, security, run, clear | one task per connection; the write guard is held across socket sends; failure at every await; deferred work |
| operation relay (`session.rs`, `verde/mod.rs`, client `broker/init.luau`) | bounded queue, `pending`, `next_op_id` per session | dispatch, answer, time out, abandon | answers out of order, late, after a reconnect; replies dropped with the session |
| broker mirror (`server/dom.rs`, `mirror.rs`) | tree, id maps, deferred moves | apply a patch, subscribe, wait | moves whose parent is missing or inside the moving subtree; HashMap order |
| client mirror (`DomSync.luau`, `DomWatch.luau`) | ids, remembered parents | upsert, children, nodes, search, snapshot, remove | moves raise no event; both halves decide alone what a subtree is |
| Verde connector (`verde/connector.rs`, `connection.rs`) | socket, tree state, feed, running operations | dial, greet, serve, resync, switch | several reads of "the current session"; a watched id; cancellation anywhere |
| Verde tree state (`verde/tree_state.rs`, `serialize.rs`) | known and loaded nodes, buffered deltas | translate, reveal, seed, flush | a change is translated against a later tree; lag |
| Verde translation (`verde/translate.rs`, `api.rs`) | none | parse operations, render values | cases of values, wide integers |
| control feed (`server/mod.rs`, `manager.rs`, extension `sessions.ts`, `remotes.ts`) | histories, broadcast channels, registries | replay, clear, broadcast | order between channels, lag |
| client link (`broker/init.luau`, `WebSocketClient.luau`) | `_ws`, reconnect thread, troves | attempt, hello, disconnect, destroy | connecting yields |
| client operations (`operations/init.luau`) | none of its own | rename, move, create, set, read, run | errors at every call into the game |
| remote spy, console relay (`remoteSpy.luau`, `consoleRelay.luau`, `captureValues.luau`, hooks) | capped queues, budgets, injected actors | capture, flush, configure, inject | caps, re-entrancy |
| extension manager (`manager.ts`) | socket, child, pending runs, timer | start, connect, receive, restart, dispose | every step is entered again while it awaits |
| lockfile, command line (`lockfile.rs`, `main.rs`, `commands/`) | one file | write, read, remove | two brokers, a killed broker |
| wire protocol (`protocol/`, `message/`, `lib/Messages`) | none | encode and decode in three languages | agreement of the three |

What makes them correct, in the order of what is at stake: the store, the active slot
and the switches agree and nothing outlives its connection; Verde shows and drives one
session; an answer reaches its request and no request waits for nothing; the mirror is
a tree, agrees with the client and, once fresh, with the game; Verde's tree agrees with
the mirror; every control connection shows the same sessions and history; there is one
connection and at most one spawned broker per window (this last is not modelled).
`PROJECT.json` lists the hazards by line, each with the properties that would catch it or
why none does.

## Modules

| module | models | kind |
|---|---|---|
| `SessionSlot` | what the store promises the upstream tasks: sessions, one active, a switch per upstream | abstract specification |
| `Sessions` | connection tasks, control handlers, store, guard, switches, spy config | implements `SessionSlot` |
| `VerdeFollow` | the Verde task over **any** behaviour of `SessionSlot` | composition |
| `OpRelay` | requesters, session queues and tasks, client threads, sockets over reconnects | component |
| `SessionDom` | `SessionDom::apply`, given any patches | component |
| `DomSync` | client mirror, game and wire, over `SessionDom` | composition |
| `Trees` | trees as functions, subtrees, forests | operators |
| `VerdeTree` | the mirror's summaries and feed, `TreeState`, Verde's table and requests | component, composed with its peer |
| `ControlFeed` | broadcasts, histories, a control connection's task, the window's registries and runs | composition |
| `VerdeValues` | how a value is shown and how its JSON is read back | pure operators |
| `VerdeOps` | Verde's operations and searches through broker, client and game, over `VerdeValues` and `Trees` | composition |
| `MC*` | small instances | model checking |
| `*Proofs` | theorems | proofs |

### Sessions

`pc[c]` is the await at which connection `c`'s task stands, in the order of
`handle_connection`; `lock` is the write guard where it is kept across a send. A step
that takes and drops the guard without a send is one action, guarded by `lock = Free`.
The store's mutexes (spy config, switches) are never held across an await, so each use
is part of one action. `OnPing`, `OnRelay`, `OnSetUpstream` are the frames whose handler
sends; a frame that only reads or updates the session's own mirror changes nothing here.
`BadFrame` ends the loop on a live socket, `SeeClose` on a dead one. Sockets stall and
resume, close for good, and a send to a closed one may still be buffered.
`SwapActive`, `SetSpy`, `ListIds`, `PushNext`, `PushSent`, `PushDone` are the control
handler; `SetSpy` is five of its steps because other tasks run between them.

`SessionId`s are taken to be distinct (the code draws 32 random bits). The shutdown, the
security level (in `VerdeOps`) and the histories (in `ControlFeed`) are left out.

### VerdeFollow

`vpc` follows `start`, `connect_loop`, `run_connection` and the exits of `serve`. The
store is `SessionSlot`'s next-state relation, one `StoreStep` at a time, and `unseen` is
the watch channel's "changed since it was marked seen". `Disable` may happen at every
state: the select drops the connect loop wherever it is.

### OpRelay

A session's numbers, `pending` and queue are functions of the session; the client has one
socket `ws` and a set of running operations, each a thread that may end in any order and
answers on the `ws` of that moment. `Abandon` drops Verde's futures (greeting another
session, a lost connection). The bound `Ids` stands for 2^32 numbers and is never
reached, so wrapping is not modelled. A `pending` entry whose requester is gone stays, as
in the code.

### SessionDom and DomSync

A tree is a partial function from nodes to parents. `apply` is several actions (`Upsert`,
`Queue`, `Reparent`, `Finish`) only so that the order of the HashMap is a choice; nobody
sees the tree in between (the mutex), and `phase` says so. `Reparent(i)` is one entry of
one pass that is transferred or discarded; `Finish` is the pass that makes no progress,
with the removals. A `Ref` is never given out twice, so a queued move whose `Ref` is gone
can never be made; the code drops it at the next pass, the model with the removal.

`DomSync` adds the game (`live`), what the client remembers (`parents`; its domain is
`_ids`) and the patches on their way (`wire`). `Mirrored` is `_mirror` with its
unmirrored ancestors, `RemoveEach` is `Remove` called for a list, and the order of a table
is a choice of the order in `SyncSnapshot`. Lists of nodes are sent ancestors first: the
broker's moves are a map, so the order of a patch's records only matters for new nodes,
whose ancestors the client always sends before them. An instance outside the game has no
parent and no children in the model; a snapshot of part of the scope is left out (the
broker only asks for the whole one, `connection.rs:324`), as is a service whose
descendants cannot be listed.

### VerdeTree

`mirror`, `flags` and `names` are what the broker knows per id; `Patch` is `Mirror::apply`,
with the `DomChange` it broadcasts (`Summary`) into a feed of `Capacity` places whose oldest
change gives way (`lagged`). `Recv` takes a change, and `TranslateAdded` (one instance at a
time) and `TranslateRest` are `TreeState::translate`, **against the mirror of that moment**:
the summaries hold ids only. `known`, `loaded` and `buf` are the `TreeState`; `Flush` is the
debounce, `FullResync` the answer to a lag, `RequestSnapshot`, `RequestChildren` and
`ReleaseSubtree` the frames of Verde, `Reveal` the path that an operation's result names.
`shown` is Verde's flat table, external: it stores what it is sent (`Effect`).

A message arrives at Verde when it is sent. What Verde asks may wait (`asked`), so a release
or an expansion can be older than what Verde holds; the answers cannot, as Verde does
nothing with its table but show it. Instances may move, be lazily listed, be renamed, be
released or come back under their old id, in the combinations of `Worlds`.

### ControlFeed

The broker's half: `Join`/`Announce` and `Leave`/`Retract` are two steps each, because the
store's guard is dropped before the broadcast; `Capture`/`Relay` and `Clear`/`TellCleared`
likewise for the histories. Each kind of broadcast has its own channel, whose oldest
message gives way (`lost` remembers that it did). `Forward` is a branch of the select of
`handle_control_connection`, `Serve*` its request handlers; `Free` says that the handler of
`ClearRemotes` is not between its two steps. A run is a task of its own (`tasks`), whose
answer comes back over `results`.

The window's half: `OnNewSession` ... `OnRunResult` are what `BrokerManager`,
`SessionRegistry`, `RemoteRegistry` and the execution channels do on a message, in the order
the manager hands it on; `Targets` is `settleTarget`; `Disconnect` is the close handler and
`Connect` the reconnection with its requests. What the window does before the socket opens
is not modelled. The ghosts `overtaken` and `masked` name the calls that were on their way
when the history was cleared: `RowsAreReplayable` and `HistoryIsShown` except them, because
the code gives no order between a clearing and a batch, and nothing else.

### VerdeValues and VerdeOps

`describe` is what Verde is shown of a `DomValue`, `FromJson` what an edited JSON is taken
to be; the code has one by variant and the other by shape, the first that fits
(`Precedence`). Numbers are integers in units that make a thousandth and a colour's level
whole, and `Huge` is whatever JSON cannot hold.

`VerdeOps` carries an operation through: `RunOperation` lowers it and resolves class and
properties against the mirror of that moment; the client's actions are the handlers of
`operations/init.luau`, each with the patches it sends ahead of its result; `ReceivePatch`
and `ReceiveResult` are the session's frames, `ToOutcome` and `Timeout` the end of
`run_operation`. `Leave` and `Enter` are the game's own doing. A search asks for a snapshot
and runs over the mirror as it is after any change or none (`RunSearch`); `Include` is
`include_with_ancestors`, one `IncludeNode` per node of the chain, which stops in the middle of
one at the limit. `GameAssumption` says what the game may start with: trees, values of the
kinds they claim to be, enums with items, references to instances that are there.
`view` and `made` are what a property looks at: the last read that was shown, with what was
resolved, and the last edit that was applied.

## Runs

| run | instance | states | shows |
|---|---|---|---|
| `SessionsStore` | 3 connections, 1 control, 1 upstream, 1 config | 3.8 M | store, slot, guard, switches; refinement of `SessionSlot` |
| `SessionsSpy` | 2 connections, 1 control, 2 configs | 0.9 M | the spy config settles |
| `SessionsSpyRace` | 2 connections, 2 controls, 2 configs | violation | it does not with two controls |
| `SessionsLive` | 2 connections, 1 control | 75 k | activation lands, dead clients leave, a push ends |
| `VerdeFollow` | 3 sessions, 1 upstream | 65 k | one session at a time, no lost wake-up, follows the active one, off is off |
| `OpRelay` | 1 timed and 2 untimed requests, 2 sessions, queue of 1 | 0.4 M | no orphan, truthful errors, paired answers, Verde's operation ends |
| `OpRelayReconnect` | the same | violation | an answer crosses a reconnect |
| `DomSync` | 3 instances, 1 patch on its way, 2 asked for at once | 0.43 M | forest, deferred moves, agreement, exactness, termination |
| `DomSyncPrune` | 3 instances that move and leave | violation | the halves prune different subtrees |
| `VerdeTree` | 3 instances, 2 names, feed of 2, 3 patches (2 with renames), 1 request | 1.3 M | no ghosts, Verde's tree follows the mirror through lag and resync |
| `ControlFeed` | 2 sessions, channels of 1 or 2, histories of 2, 3 items, 1 clearing, 1 run, 1 reconnection | 0.45 M | list, target, console, calls and runs of the window |
| `VerdeOps` | 4 instances of 3 classes, some 50 attribute values, 3 or 4 requests | 1.8 M | links, threshold, edits, searches |

Why these bounds are enough to meet the cases: three connections make an active one, a
second that asks for the slot and a third that leaves; two suffice for every pair of
steps around a push. One queue place makes a sender wait; two sessions are one
reconnect, after which numbers repeat; three requests let one be pending, one queued and
one late. Three nodes hold every shape of a deferred move: a chain that is reversed, two
that swap, a parent that comes later. One patch on its way lets the game move on between
sending and merging. Connections and controls are interchangeable (symmetry in the safety
runs only). `MCDomSync`'s action constraint `ApplyGoesOn` explores merges that are not
interleaved with the game and the client: they share no variable, so the steps commute.
The `Worlds` of a run bound which of moving, leaving, referring and eager watching happen
together: `DomSync` runs moving alone, and leaving with references or with an eager watch;
moving *and* leaving is `DomSyncPrune`, where agreement fails.

`VerdeTree` overflows its feed with three patches, before or after a change has been read;
three nodes make a moved subtree with an unknown parent. `ControlFeed` overflows each
channel and each history once, and a clearing can fall before, between and after the calls;
its worlds bound what goes on beside what: a session's coming and going with a lost socket,
with a run, a run with a lost socket, and the two histories alone (only a clearing
interferes with them). `VerdeOps` has a property above the threshold in a class and in its
superclass, a class the dump lacks, values on both sides of a rounding, and a limit of two
nodes that a chain of three crosses. Two action constraints are reductions:
`TranslationGoesOn` lets a translation run to its end (the mirror's mutex is held, Verde's
steps touch nothing it does), `OneSpeaks` lets one session make all calls and lines.

`OpRelay`, `VerdeTree`, `ControlFeed` and `VerdeOps` run without the deadlock check: once
the bounded requests, patches and sessions are used up and everything was delivered there is
nothing left to do. All other runs check deadlock.

### Fairness

`Sessions`: a spawned task is polled, and tokio's RwLock serves its waiters in order, so
the one step a task can take next is strongly fair; a ready arm of a select is picked in
the end. That a stalled peer drains again (`PeersDrain`) is assumed: the broker has no
timeout on a send, and without it nothing about liveness holds. `VerdeFollow`: the task is
polled; Verde answers a dial in the end and its socket does not always die before the
snapshot is out. `OpRelay`: tasks are polled and a full queue's senders are served in
turn; the client owes nobody an answer. `DomSync`: `apply` is synchronous code.
`ControlFeed`: tasks run, the select picks every branch that stays ready, an open socket
delivers and the window reconnects (`manager.ts` re-arms its timer); sessions need not
leave, and clients need not answer. `VerdeTree` and `VerdeOps` check safety only.

## What the violations show

* **Two controls' spy configs.** Each `SetSpy` stores its config, lists the ids and pushes
  its own copy session by session. Two of them interleave, and the last config a session is
  told is not the one `spy()` returns ("What sessions are currently told to capture.",
  `manager.rs:319`). With one control connection it cannot happen (`SessionsSpy`, and
  theorem `SpyCorrect`).
* **An answer across a reconnect.** An operation that yields while the client reconnects
  answers on the new socket; the new session's numbers start from 0, so the stale answer
  may resolve another request (`protocol/server.rs:25` says the id correlates the answer).
  Within one session the pairing holds (`AnswersStayPaired`).
* **Pruning.** The client forgets what is under a removed instance by the parents it last
  sent, the broker destroys what is under it in its own tree. While a move is deferred the
  two differ, and a node the client forgot stays in the broker's mirror: its own removal
  event finds no id (`DomWatch.luau:44`: "prune the mirror as instances leave the subtree").

## Proofs

All for every value of the constants, from the named assumptions of the modules.

* `SessionsProofs`. The inductive invariant `IInv` is the conjunction of the type
  invariant, `Places` (which `pc` a stored, announced or guarded connection may have),
  `CurrentIsStored`, `GuardHasSender` and `Counted` (the guards are finite and counted).
  `Places` is what makes the others inductive: that the current id is stored survives a
  removal only because a connection is removed once, from the one place its task is at. From
  it follow `TypeCorrect`, `CurrentCorrect`, `ExitCorrect`, `GuardCorrect`,
  `SwitchesCorrect`, `MembershipCorrect` and the refinement `StoreImplementsSlot`, whose
  step proof maps each action to one of the slot's or to a stutter. `SpyCorrect` assumes one
  control connection and adds `SpyInv`: whoever is behind the stored config, or about to be
  told an older one, is owed a push by the running handler.
* `VerdeFollowProofs`. `ReadsAreCurrent`: what a read established holds until the id
  changes, and then the change is unseen, because the task marks it seen only where it holds
  no read. `TypeCorrect`, `OneSession`, `WakesUp`.
* `OpRelayProofs`. `Targeted`, `Placed` and `Settled` say that what a session holds was
  given to it and that numbers in `pending` are below the counter, so a dispatch replaces no
  reply. `TypeCorrect`, `NothingOrphaned`, `EndedCorrect`. `PairedCorrect` adds `Paired`: what
  is on a wire or in a client's thread, of whatever session, has a number below its session's
  counter, and `pending` knows no other request by it, so a late answer of a timed-out
  request resolves nobody.
* `DomSyncProofs`, the broker's half. `Forest` is stated over sets (every non-empty set of
  nodes has one whose parent is outside), which avoids induction over paths: a move under `p`
  keeps it because the set that would be closed by the new edge would make `p` reach the moved
  node. `TypeCorrect`, `ForestCorrect`, `DeferredCorrect`, for any patches, not only the
  client's. `MirrorImplements` then shows that the composed specification is one of these (its
  patches are well formed: `WireInv`), in every world, and `MirrorCorrect` follows.
* `DomSyncProofs`, both halves. The inductive invariant `HalvesInv` is the broker's `DomInv`,
  `ClientInv` (the game is a forest, what the client remembers has its parents remembered),
  `QueueInv` (which moves a merge under way still has to try) and `Promise`. The mirror is
  behind the client, so neither tree says anything about the other; what does is the *plan*:
  the mirror with its deferred moves made, and what a merge under way has not done yet. `Promise`
  says that the patches on the wire, merged one after the other, take the plan to what the
  client remembers (`Chain`), each fitting what the one before left: it names no node whose
  parent is unknown. Sending appends a link, receiving takes the first, and the merge keeps the
  plan: an upsert that is refused a move queues it, a queued move that is made leaves the queue.
  Once nothing is under way, the plan is what is remembered: `HalvesAgreeCorrect`. For
  `FreshIsExactCorrect` no move may wait: were one to, the plan (now the game's tree, a forest)
  would make the waiting nodes reach each other in a circle (`NoneWaits`). Both assume that every
  world is `Calm`: where instances move, none leave or are referred to from outside. This is
  what the code needs and not a convenience of the proof: `DomSyncPrune` is the counterexample.
  What `Mirrored`, `MirrorList` and `RemoveEach` compute, for any tree and any list, comes from
  `RecursionFacts`.

* `VerdeTreeProofs`. The inductive invariant of `TypeCorrect` and `GhostsCorrect` is the type
  invariant, `GhostsAreAnnounced` and `IdleHasNone` (between two translations nothing is left
  to translate). A node goes from the mirror only by a patch, whose summary names every node
  it destroys; a change goes from the feed by being read, which empties `known` of what it
  names, or by a lag, which reseeds `known`.
  `SentInv` adds what was sent: `Sent` is Verde's table once the buffer is flushed, `KnownSent`
  compares its nodes with `known`, and `NodesFresh` says of each that it has the place, the name
  and the child flag of the mirror, or that a change still to be read or translated names it
  under that heading. A translation reads the mirror of its own moment, so a node may be sent
  *ahead* of a change that names it: this is why the invariant says "or is pending" and never
  "as of the change". `KnownCorrect`, `ShownCorrect` and `ExpandableCorrect` follow.
  `AttachedCorrect` needs more, in worlds where nothing moves: that the mirror is a forest
  (`IsForest`), that every sent node's parent was sent (`Rooted`), that what
  a change removed is not mirrored again (`Lasting`) and that a node is removed by no later
  change than its parent is (`GoTogether`), so that no removal leaves a child behind.
* `ControlFeedProofs`. `IInv` (types, `Unheard`, `Staying`, `RunsHeld`) carries `RunsCorrect`
  and `TargetCorrect`. The first needs the types only: each step hands a run from one holder
  to the next. The second needs that nothing under way takes a stored session from the window
  (`Staying`): no removal of it is sent, and a list without it is older than all the window
  hears of it, because joins follow the store's change and requests are served one at a time.
  `Unheard` (nothing is heard of a session before it joins) starts it off. `Bounded` completes
  the types and says that no call has two rows, which goes through the fold of a batch.
  The theorems about a drained window all have the same argument: the invariant names, for
  each thing the window must end with, everywhere it can be on the way there, and when nothing
  is under way only the last place is left.
  `ListInv` (`ListCorrect`): a session that is there is known, or brought by the wire, or a
  list is ahead (`Coming`); one that has gone and is known will be taken, and nothing brings it
  after that (`Going`). `CallsInv` (`RowsCorrect`, and the calls of `HistoryCorrect`): a call shown or on its way is
  in the history, was overtaken by a clearing, made room for others, or has a clearing behind
  it (`RowsBacked`); a call of the history is captured, in the channel, on the wire with no
  clearing behind it, on screen, masked, or a replay is asked for (`KeptIsAccounted`). It needs
  that calls are numbered as they are captured (`Numbered`) and that one is captured at a time
  (`OneCaptured`). `LinesInv` (the lines of `HistoryCorrect`): a connected window knows the sessions when it has
  heard all that is under way, or it asks for the lines after it asks for the sessions; each
  line is shown, or heard after a list, or will be sent so.
* `RecursionFacts`. The library's recursion theorems are out of reach, so what a recursive
  definition computes is established by hand, once, for any operator. `FoldLeft` of the
  community modules passes through its sequence element by element (`FoldSteps`): a set of
  indices to which the claim does not extend would have a least one. A function that recurs
  from a node to its parent exists wherever the way up ends (`ClimbExists`): two partial
  solutions agree where both are defined (`ClimbsAgree`), and the nodes without one would be a
  set from which no edge leads out. `VerdeTreeProofs` instantiates it with `Effect`,
  `ControlFeedProofs` with `Show`, `DomSyncProofs` with `Append`, `MirrorNext` and `RemoveNext`,
  `VerdeOpsProofs` with `Joined`, `Append`, `IncludeNode` and `Include`.
* `VerdeOpsProofs`. `EditsRoundTrip` goes through the kinds of value: the numbers shown
  are as near as rounding makes them, the edited JSON has the fields of one shape, and no
  shape before it fits. The exception, a `Vector3` without a finite Z whose X or Y is set, is
  part of the statement: its JSON reads as a `Vector2`. `ShownWithin`: the list made when Verde
  asked (`AsksWithin`) bounds the reads on the wire (`AnswersWithin`) and those handed to the
  operation (`ResultsWithin`), as numbers are never reused (`Numbered`). It rests on
  `VerdeOpsAssumption`: the list of a class of the dump is never empty, since an empty one
  makes the client list everything.
  `EditsKept` has an invariant of its own, `VInv`. An edit is made of what Verde is *shown*,
  and assigned to what is there *then*, several reads, creations and edits later; what joins
  the two is that a property never changes its kind, an enum its family nor a reference what
  it refers to (`Like`), from the new instance on, in the game, on the wire, with the task and
  in the view (`ValuesFit`, `AnswersFit`, `ResultsFit`, `ViewFits`). So the edit on its way
  (`AsksFit`) is of a value like the one it replaces: `EditsRoundTrip` gives the value read
  back, and the client's check of the type does the rest. For an enum it is that items have
  names of their own.
  `LinksCorrect` adds `LInv`: of each read on the wire, what it refers to is mirrored by the
  broker, was removed while the operation was on, or is upserted by a patch *ahead* of it
  (`AnswersResolve`). Sending establishes it, since what is refreshed for one reference is at
  least the instance itself (`MirroredFacts`), and a merge moves an instance from the last of
  the three to the first, or from the first to the second. It needs that a reference names an
  instance that is there (`GameFits`, with `Refs` of `Initial` in `GameAssumption`).
  `FoundCorrect` adds `FInv`, about a mirror that is always behind: the messages on the wire,
  merged one after the other, take the broker's mirror to the client's, and each leaves a tree
  (`Leads`). The client's is one because its parents are the game's or the root (`Behind`), and
  what it prunes is closed downwards (`GoneFacts`), so that the broker, pruning what is under
  each removed instance in its own mirror, removes the same. The rest is about two folds, over
  the matches (`SearchListed`) and up the chain of each (`IncludeListed`). It assumes that Verde
  does not search in a world where it changes the tree (`Separate`): `VerdeOps` leaves out
  the deferral of impossible moves (it is `SessionDom`'s, where the forest is proved for any
  patches), and without it, when a detached instance leaves its parent (which
  nothing mirrors) and the parent is moved under it, the two are mirrored above each other.

`MembershipCorrect` (what a join or leave does to the active slot) is proved and not run:
`ImplementsSlot` implies it.

Only model-checked: everything temporal beyond safety (`ActivationLands`,
`DeadClientLeaves`, `PushEnds`, `FollowsActive`, `OffPauses`, `VerdeSettles`, `ApplyEnds`,
`RunsEnd`), since liveness under fairness and ENABLED are out of the prover's reach. Every
invariant that a run checks is a theorem too, some of them for the worlds named above.

## Met on the way

Behaviour of the code that no run refutes a quoted line with, but a reader should know:

* A node Verde has that moves under one it does not is moved there all the same
  (`tree_state.rs:79`): `Attached` holds only while nothing moves or is released. It also
  needs that nothing comes back: an instance that left and returned under its id, with a new
  child, loses that child's parent when the old removal is read at last.
* A console line may be forwarded before the `NewSession` of its session: both wait in
  channels of their own. The window has no console for it then and drops it
  (`execution_channel_handler.ts:128`),
  until it reconnects. `HistoryIsShown` asks for the lines of sessions that stay.
* The extension sends `SetUpstream` on its control connection (`manager.ts:176`); the
  broker handles it for game clients only (`session.rs:156`) and logs it as unexpected here.
* An attribute that is edited comes back as the variant its JSON looks like: a `BrickColor`
  as a number, a `Vector3` whose Z is infinite as a `Vector2`. `EditsRoundTrip` says which.
* Renaming an attribute whose old name is gone removes the new name (`init.luau:337`).
* A session that joined before the window connected is never told the window's security
  level: `SetSecurity` follows `NewSession` only (`manager.ts:454`).
* A clearing of the remote calls may wipe calls that came after it or leave some that came
  before: their channels have no order between them.

## Not modelled

* **Spawning, attaching and restarting a broker** (`manager.ts:162-395`), **the lockfile and
  the command line**: they race with other processes, ports and the file system, of which
  the repository holds neither a model nor a handler to check against; the hazards are
  listed at their lines.
* **The attempts of the client's link to connect** (`init.luau:191`) and **the hooks, queues
  and budgets of the remote spy and the console relay**: the executor's socket and threads
  decide what they meet.
* **The byte encoding of messages**: the repository's conformance tests compare the three
  implementations byte for byte.
* **The properties, tags and attributes inside mirrored nodes**, the metadata that goes with
  a read, the inside of fonts and sequences (Verde cannot edit them): data that no decision of
  the code depends on.
* **Presentation** in the extension, temporary files, the luau-lsp upstream (a port
  constant in this commit), the shutdown of the broker, and the build tooling.
