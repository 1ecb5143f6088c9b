---------------------------- MODULE ControlFeed ----------------------------
(***************************************************************************)
(* A control connection: what the broker tells an editor window of its     *)
(* sessions, their console and their remote calls, what the window asks,   *)
(* and the registries the window keeps of it.                              *)
(*                                                                         *)
(* The broker changes its store or a history under a lock, drops it, and   *)
(* only then broadcasts.  Each kind of broadcast has a bounded channel of  *)
(* its own, and the connection's task reads a random ready one, or a       *)
(* request, and writes to the socket.  The order of a history, of its      *)
(* broadcast, of the other broadcasts and of a replay is free but for that.*)
(*                                                                         *)
(* Reductions.  The socket opens and the task subscribes in one step: the  *)
(* window hears of nothing in between.  A batch holds one item, and a      *)
(* replay is one frame.  SetSpy and SwapActive are those of module         *)
(* Sessions.  The calls all crossed one remote.                            *)
(***************************************************************************)
EXTENDS Naturals, Sequences, FiniteSets, SequencesExt

CONSTANTS
    Ids,          \* sessions
    NoId,
    ChannelCap,   \* LOG_BUFFER, REMOTE_BUFFER, 16: places of a channel, per kind
    HistoryCap,   \* LOG_HISTORY, REMOTE_HISTORY
    CallsPerRemote,
    Worlds,       \* what happens: a set of subsets of {"sessions", "log", "remotes",
                  \*   "clear", "runs", "drop"}
    MaxItems, MaxClears, MaxRuns, MaxDrops   \* bounds

Channels == {"added", "removed", "log", "remotes", "cleared"}

ASSUME ControlFeedAssumption ==
    /\ NoId \notin Ids
    /\ ChannelCap \in [Channels -> Nat \ {0}]
    /\ HistoryCap \in [{"log", "remotes"} -> Nat \ {0}]
    /\ CallsPerRemote \in Nat \ {0}
    /\ MaxItems \in Nat /\ MaxRuns \in Nat

VARIABLES
    world,
    phase, store,              \* each session's task, and SessionsHolder.store
    history, capturing,        \* log and remote history; what is pushed but not yet sent
    clearing,                  \* who has cleared the remote history and not yet said so
    feed, lost,                \* the connection's channels, and which of them lagged
    tasks, results,            \* RunCode: awaited answers, and answers to forward
    inbox, wire,               \* the socket, both ways
    up, registry, target,      \* the window: ws, sessions, targetId
    lines, rows, pending,      \*   console lines, calls newest first, pendingRuns
    pulled,                    \* sessions set to the window's security level
    overtaken, masked,         \* calls that a RemotesCleared overtook, or came too late for
    items, clears, runs, drops \* the bounds' counters

sessionVars == <<phase, store, pulled>>
relayVars == <<history, capturing, clearing, overtaken>>
channelVars == <<feed, lost>>
runVars == <<tasks, results, pending>>
viewVars == <<registry, target, lines, rows>>
counters == <<items, clears, runs, drops>>
vars == <<world, sessionVars, relayVars, channelVars, runVars, inbox, wire, up, viewVars,
          masked, counters>>

Quiet == [c \in Channels |-> <<>>]

\* Mutant: a channel keeps what its reader is too slow for.
Publish_Unbounded(c, m) ==
    /\ feed' = IF up THEN [feed EXCEPT ![c] = Append(@, m)] ELSE feed
    /\ lost' = lost

\* broadcast::Sender::send: the oldest unread message gives way; nobody listens when down.
Publish(c, m) ==
    LET full == Len(feed[c]) = ChannelCap[c]
    IN  /\ feed' = IF up THEN [feed EXCEPT ![c] = Append(IF full THEN Tail(@) ELSE @, m)]
                         ELSE feed
        /\ lost' = IF up /\ full THEN lost \cup {c} ELSE lost

(***************************************************************************)
(* Sessions come and go.                                                   *)
(***************************************************************************)
Join(i) ==
    /\ phase[i] = "new"
    /\ phase' = [phase EXCEPT ![i] = "stored"]
    /\ store' = store \cup {i}
    /\ UNCHANGED <<world, pulled, relayVars, channelVars, runVars, inbox, wire, up, viewVars,
                   masked, counters>>

Announce(i) ==
    /\ phase[i] = "stored"
    /\ phase' = [phase EXCEPT ![i] = "live"]
    /\ Publish("added", i)
    /\ UNCHANGED <<world, store, pulled, relayVars, runVars, inbox, wire, up, viewVars, masked,
                   counters>>

Leave(i) ==
    /\ phase[i] = "live" /\ world \cap {"sessions", "runs"} # {}
    /\ phase' = [phase EXCEPT ![i] = "removed"]
    /\ store' = store \ {i}
    /\ UNCHANGED <<world, pulled, relayVars, channelVars, runVars, inbox, wire, up, viewVars,
                   masked, counters>>

Retract(i) ==
    /\ phase[i] = "removed"
    /\ phase' = [phase EXCEPT ![i] = "gone"]
    /\ Publish("removed", i)
    /\ UNCHANGED <<world, store, pulled, relayVars, runVars, inbox, wire, up, viewVars, masked,
                   counters>>

(***************************************************************************)
(* Console lines and remote calls, and a clearing of the calls.            *)
(***************************************************************************)
\* broadcast_log, broadcast_remotes: into the history under its lock...  The session's
\* handler holds the store, so there is one at a time.
Capture(k, i) ==
    /\ k \in world /\ items < MaxItems /\ capturing = {} /\ phase[i] = "live"
    /\ items' = items + 1
    /\ LET new == [n |-> items + 1, from |-> i]
           old == history[k]
       IN  /\ history' = [history EXCEPT ![k] =
                            Append(IF Len(old) = HistoryCap[k] THEN Tail(old) ELSE old, new)]
           /\ capturing' = {[type |-> k, call |-> new]}
    /\ UNCHANGED <<world, sessionVars, clearing, overtaken, channelVars, runVars, inbox, wire,
                   up, viewVars, masked, clears, runs, drops>>

\* ... and then to whoever listens.
Relay ==
    /\ \E m \in capturing : Publish(m.type, m.call)
    /\ capturing' = {}
    /\ UNCHANGED <<world, sessionVars, history, clearing, overtaken, runVars, inbox, wire, up,
                   viewVars, masked, counters>>

\* Calls of the history that are not yet on the wire.
UnderWay == {m.call : m \in {x \in capturing : x.type = "remotes"}} \cup ToSet(feed["remotes"])

\* clear_remotes, for the connection itself or for another one.
Clear(who) ==
    /\ history' = [history EXCEPT !["remotes"] = <<>>]
    /\ clearing' = clearing \cup {who}
    /\ overtaken' = overtaken \cup UnderWay

ClearElsewhere ==
    /\ "clear" \in world /\ clears < MaxClears /\ "other" \notin clearing
    /\ clears' = clears + 1
    /\ Clear("other")
    /\ UNCHANGED <<world, sessionVars, capturing, channelVars, runVars, inbox, wire, up,
                   viewVars, masked, items, runs, drops>>

\* Mutant: only the connection that asked is told.
TellCleared_Answers(who) ==
    /\ who \in clearing
    /\ clearing' = clearing \ {who}
    /\ IF who = "own" THEN Publish("cleared", NoId) ELSE UNCHANGED channelVars
    /\ UNCHANGED <<world, sessionVars, history, capturing, overtaken, runVars, inbox, wire, up,
                   viewVars, masked, counters>>

\* broadcast_remotes_cleared
TellCleared(who) ==
    /\ who \in clearing
    /\ clearing' = clearing \ {who}
    /\ Publish("cleared", NoId)
    /\ UNCHANGED <<world, sessionVars, history, capturing, overtaken, runVars, inbox, wire, up,
                   viewVars, masked, counters>>

(***************************************************************************)
(* The connection's task: one branch of its select at a time.              *)
(***************************************************************************)
Free == up /\ "own" \notin clearing

Reply(m) == wire' = Append(wire, m)

\* on_session_added, on_session_removed, on_log, on_remotes; a lag is logged and passed by.
Forward(c) ==
    /\ Free /\ feed[c] # <<>>
    /\ Reply(CASE c \in {"added", "removed"} -> [type |-> c, id |-> Head(feed[c])]
               [] c \in {"log", "remotes"}   -> [type |-> c, batch |-> <<Head(feed[c])>>]
               [] c = "cleared"              -> [type |-> c])
    /\ feed' = [feed EXCEPT ![c] = Tail(@)]
    /\ masked' = IF c = "cleared" THEN ToSet(history["remotes"]) \ UnderWay ELSE masked
    /\ UNCHANGED <<world, sessionVars, relayVars, lost, runVars, inbox, up, viewVars, counters>>

\* A run's answer, from its task.
ForwardResult(r) ==
    /\ Free /\ r \in results
    /\ Reply([type |-> "result", request |-> r])
    /\ results' = results \ {r}
    /\ UNCHANGED <<world, sessionVars, relayVars, channelVars, tasks, pending, inbox, up,
                   viewVars, masked, counters>>

Asks(type) == Free /\ inbox # <<>> /\ Head(inbox).type = type /\ inbox' = Tail(inbox)

ServeList ==
    /\ Asks("list")
    /\ Reply([type |-> "sessions", list |-> store])
    /\ UNCHANGED <<world, sessionVars, relayVars, channelVars, runVars, up, viewVars, masked,
                   counters>>

\* RequestLogs, RequestRemotes
ServeHistory(k) ==
    /\ Asks("replay") /\ Head(inbox).kind = k
    /\ IF history[k] = <<>> THEN UNCHANGED wire
                            ELSE Reply([type |-> k, batch |-> history[k]])
    /\ UNCHANGED <<world, sessionVars, relayVars, channelVars, runVars, up, viewVars, masked,
                   counters>>

\* ClearRemotes; TellCleared("own") ends it.
ServeClear ==
    /\ Asks("clear")
    /\ Clear("own")
    /\ UNCHANGED <<world, sessionVars, capturing, channelVars, runVars, wire, up, viewVars,
                   masked, counters>>

ServeSecurity ==
    /\ Asks("security")
    /\ pulled' = pulled \cup ({Head(inbox).id} \cap store)
    /\ UNCHANGED <<world, phase, store, relayVars, channelVars, runVars, wire, up, viewVars,
                   masked, counters>>

\* Mutant: the run of a session that has left is dropped.
ServeRun_Drops ==
    /\ Asks("run")
    /\ LET run == Head(inbox).run
       IN  tasks' = IF run.on \in store THEN tasks \cup {run} ELSE tasks
    /\ UNCHANGED <<world, sessionVars, relayVars, channelVars, results, pending, wire, up,
                   viewVars, masked, counters>>

\* RunCode: a task awaits the answer, unless the session is not there to give one.
ServeRun ==
    /\ Asks("run")
    /\ LET run == Head(inbox).run
       IN  IF run.on \in store
             THEN tasks' = tasks \cup {run} /\ UNCHANGED wire
             ELSE Reply([type |-> "result", request |-> run.request]) /\ UNCHANGED tasks
    /\ UNCHANGED <<world, sessionVars, relayVars, channelVars, results, pending, up, viewVars,
                   masked, counters>>

Finish(run) ==
    /\ run \in tasks
    /\ tasks' = tasks \ {run} /\ results' = results \cup {run.request}
    /\ UNCHANGED <<world, sessionVars, relayVars, channelVars, pending, inbox, wire, up,
                   viewVars, masked, counters>>

\* Mutant: a dropped request is awaited like any other.
Dropped_Waits(run) == phase[run.on] = "live" /\ Finish(run)

\* The client answers, or need not; a session that ends drops what it was asked.
Answered(run) == phase[run.on] = "live" /\ Finish(run)
Dropped(run) == phase[run.on] \in {"removed", "gone"} /\ Finish(run)

(***************************************************************************)
(* The window.                                                             *)
(***************************************************************************)
Send(messages) == inbox' = inbox \o messages

ListSessions == [type |-> "list"]
Replay(k) == [type |-> "replay", kind |-> k]
SetSecurity(i) == [type |-> "security", id |-> i]

\* Mutant: the logs are asked for before the sessions.
Connect_LogsFirst ==
    /\ ~ up
    /\ up' = TRUE
    /\ Send(<<Replay("log"), ListSessions, Replay("remotes")>>)
    /\ UNCHANGED <<world, sessionVars, relayVars, channelVars, runVars, wire, viewVars, masked,
                   counters>>

\* connect, then start's requests.
Connect ==
    /\ ~ up
    /\ up' = TRUE
    /\ Send(<<ListSessions, Replay("log"), Replay("remotes")>>)
    /\ UNCHANGED <<world, sessionVars, relayVars, channelVars, runVars, wire, viewVars, masked,
                   counters>>

\* The socket closes: the registries forget, and in-flight runs fail.
Disconnect ==
    /\ up /\ "own" \notin clearing /\ "drop" \in world /\ drops < MaxDrops
    /\ drops' = drops + 1
    /\ up' = FALSE
    /\ feed' = Quiet /\ lost' = {} /\ inbox' = <<>> /\ wire' = <<>>
    /\ tasks' = {} /\ results' = {} /\ pending' = {}
    /\ registry' = {} /\ target' = NoId /\ lines' = {} /\ rows' = <<>>
    /\ overtaken' = overtaken \cap {m.call : m \in capturing} /\ masked' = {}
    /\ UNCHANGED <<world, sessionVars, history, capturing, clearing, items, clears, runs>>

\* Mutant: the target is chosen anew each time.
Targets_Anew(known) == IF known = {} THEN {NoId} ELSE known

\* settleTarget: where it is while that client is known; else on the first, which may be any.
Targets(known) ==
    CASE target \in known                  -> {target}
      [] target \notin known /\ known # {} -> known
      [] known = {}                        -> {NoId}

\* The registry becomes `known`; a client that is gone takes its console with it.
Adopt(known) ==
    /\ registry' = known
    /\ target' \in Targets(known)
    /\ lines' = {x \in lines : x.from \in known}

Hears(type) == up /\ wire # <<>> /\ Head(wire).type = type /\ wire' = Tail(wire)

\* Mutant: a new session is remembered, and the list not asked for.
OnNewSession_Trusts ==
    /\ Hears("added")
    /\ LET i == Head(wire).id
       IN  /\ Adopt(registry \cup {i})
           /\ Send(<<SetSecurity(i)>>)
    /\ UNCHANGED <<world, sessionVars, relayVars, channelVars, runVars, up, rows, masked,
                   counters>>

OnNewSession ==
    /\ Hears("added")
    /\ LET i == Head(wire).id
       IN  /\ Adopt(registry \cup {i})
           /\ Send(<<SetSecurity(i), ListSessions>>)
    /\ UNCHANGED <<world, sessionVars, relayVars, channelVars, runVars, up, rows, masked,
                   counters>>

OnRemoveSession ==
    /\ Hears("removed")
    /\ LET i == Head(wire).id
       IN  IF i \in registry THEN Adopt(registry \ {i})
                             ELSE UNCHANGED <<registry, target, lines>>
    /\ UNCHANGED <<world, sessionVars, relayVars, channelVars, runVars, inbox, up, rows, masked,
                   counters>>

\* replace: sessions that are not listed are forgotten.
OnSessions ==
    /\ Hears("sessions")
    /\ Adopt(Head(wire).list)
    /\ UNCHANGED <<world, sessionVars, relayVars, channelVars, runVars, inbox, up, rows, masked,
                   counters>>

\* A line is appended to its session's channel, if the registry has made one.
OnSessionLog ==
    /\ Hears("log")
    /\ lines' = lines \cup {x \in ToSet(Head(wire).batch) : x.from \in registry}
    /\ UNCHANGED <<world, sessionVars, relayVars, channelVars, runVars, inbox, up, registry,
                   target, rows, masked, counters>>

\* RemoteRegistry.remember: a call already among the rows is skipped, the oldest give way.
Show(shown, call) ==
    IF call \in ToSet(shown) THEN shown
    ELSE LET all == <<call>> \o shown
         IN  SubSeq(all, 1, IF Len(all) < CallsPerRemote THEN Len(all) ELSE CallsPerRemote)

OnSessionRemotes ==
    /\ Hears("remotes")
    /\ rows' = FoldLeft(Show, rows, Head(wire).batch)
    /\ UNCHANGED <<world, sessionVars, relayVars, channelVars, runVars, inbox, up, registry,
                   target, lines, masked, counters>>

OnRemotesCleared ==
    /\ Hears("cleared")
    /\ rows' = <<>>
    /\ UNCHANGED <<world, sessionVars, relayVars, channelVars, runVars, inbox, up, registry,
                   target, lines, masked, counters>>

OnRunResult ==
    /\ Hears("result")
    /\ pending' = pending \ {Head(wire).request}
    /\ UNCHANGED <<world, sessionVars, relayVars, channelVars, tasks, results, inbox, up,
                   viewVars, masked, counters>>

\* The user aims at a client, clears the calls, or runs code on the target.
SetTarget(i) ==
    /\ i \in registry \ {target}
    /\ target' = i
    /\ UNCHANGED <<world, sessionVars, relayVars, channelVars, runVars, inbox, wire, up,
                   registry, lines, rows, masked, counters>>

ClearRemotes ==
    /\ up /\ "clear" \in world /\ clears < MaxClears
    /\ clears' = clears + 1
    /\ Send(<<[type |-> "clear"]>>)
    /\ UNCHANGED <<world, sessionVars, relayVars, channelVars, runVars, wire, up, viewVars,
                   masked, items, runs, drops>>

RunCode ==
    /\ up /\ "runs" \in world /\ runs < MaxRuns /\ target # NoId
    /\ runs' = runs + 1
    /\ pending' = pending \cup {runs + 1}
    /\ Send(<<[type |-> "run", run |-> [request |-> runs + 1, on |-> target]]>>)
    /\ UNCHANGED <<world, sessionVars, relayVars, channelVars, tasks, results, wire, up,
                   viewVars, masked, items, clears, drops>>

(***************************************************************************)
(* The specification.                                                      *)
(***************************************************************************)
\* Where sessions do not come and go, they have joined before.
Init ==
    /\ world \in Worlds
    /\ phase = [i \in Ids |-> IF "sessions" \in world THEN "new" ELSE "live"]
    /\ store = IF "sessions" \in world THEN {} ELSE Ids
    /\ pulled = {}
    /\ history = [k \in {"log", "remotes"} |-> <<>>]
    /\ capturing = {} /\ clearing = {}
    /\ feed = Quiet /\ lost = {} /\ tasks = {} /\ results = {} /\ inbox = <<>> /\ wire = <<>>
    /\ up = FALSE /\ registry = {} /\ target = NoId /\ lines = {} /\ rows = <<>>
    /\ pending = {} /\ overtaken = {} /\ masked = {}
    /\ items = 0 /\ clears = 0 /\ runs = 0 /\ drops = 0

Membership == \E i \in Ids : Join(i) \/ Announce(i) \/ Leave(i) \/ Retract(i)

History ==
    \/ \E k \in {"log", "remotes"}, i \in Ids : Capture(k, i)
    \/ Relay
    \/ ClearElsewhere
    \/ \E who \in {"own", "other"} : TellCleared(who)

Forwards == (\E c \in Channels : Forward(c)) \/ (\E r \in results : ForwardResult(r))

Serve ==
    \/ ServeList
    \/ \E k \in {"log", "remotes"} : ServeHistory(k)
    \/ ServeClear
    \/ ServeSecurity
    \/ ServeRun

Hear ==
    \/ OnNewSession \/ OnRemoveSession \/ OnSessions \/ OnSessionLog \/ OnSessionRemotes
    \/ OnRemotesCleared \/ OnRunResult

User == (\E i \in Ids : SetTarget(i)) \/ ClearRemotes \/ RunCode

Next ==
    \/ Membership \/ History \/ Forwards \/ Serve \/ Hear \/ User
    \/ \E run \in tasks : Answered(run) \/ Dropped(run)
    \/ Connect \/ Disconnect

\* Tasks run, the select picks every branch that stays ready, sockets deliver, and the
\* window reconnects; a session need not leave, a client need not answer.
Fairness ==
    /\ \A i \in Ids : WF_vars(Announce(i)) /\ WF_vars(Retract(i))
    /\ WF_vars(Relay)
    /\ \A who \in {"own", "other"} : WF_vars(TellCleared(who))
    /\ \A c \in Channels : WF_vars(Forward(c))
    /\ WF_vars(\E r \in results : ForwardResult(r))
    /\ WF_vars(\E run \in tasks : Dropped(run))
    /\ WF_vars(Serve)
    /\ WF_vars(Hear)
    /\ WF_vars(Connect)

Spec == Init /\ [][Next]_vars /\ Fairness

(***************************************************************************)
(* Properties.                                                             *)
(***************************************************************************)
Item == [n : 1..MaxItems, from : Ids]

Run == [request : 1..MaxRuns, on : Ids]

ToWindow ==
    [type : {"added", "removed"}, id : Ids] \cup [type : {"cleared"}]
      \cup [type : {"log", "remotes"}, batch : Seq(Item)]
      \cup [type : {"sessions"}, list : SUBSET Ids] \cup [type : {"result"}, request : 1..MaxRuns]

ToBroker ==
    [type : {"list", "clear"}] \cup [type : {"security"}, id : Ids]
      \cup [type : {"replay"}, kind : {"log", "remotes"}] \cup [type : {"run"}, run : Run]

\* The values of the variables.
TypeOK ==
    /\ world \in Worlds /\ up \in BOOLEAN
    /\ phase \in [Ids -> {"new", "stored", "live", "removed", "gone"}]
    /\ store \subseteq Ids /\ pulled \subseteq Ids
    /\ history \in [{"log", "remotes"} -> Seq(Item)]
    /\ capturing \subseteq [type : {"log", "remotes"}, call : Item]
    /\ clearing \subseteq {"own", "other"}
    /\ DOMAIN feed = Channels
    /\ feed["added"] \in Seq(Ids) /\ feed["removed"] \in Seq(Ids)
    /\ feed["log"] \in Seq(Item) /\ feed["remotes"] \in Seq(Item)
    /\ feed["cleared"] \in Seq({NoId})
    /\ \A c \in Channels : Len(feed[c]) <= ChannelCap[c]
    /\ lost \subseteq Channels
    /\ tasks \subseteq Run /\ results \subseteq 1..MaxRuns /\ pending \subseteq 1..MaxRuns
    /\ inbox \in Seq(ToBroker) /\ wire \in Seq(ToWindow)
    /\ registry \subseteq Ids /\ target \in Ids \cup {NoId}
    /\ lines \subseteq Item /\ rows \in Seq(Item)
    /\ overtaken \subseteq Item /\ masked \subseteq Item

\* All that was changed has been sent and read, and no answer is under way.
Drained ==
    /\ up /\ feed = Quiet /\ inbox = <<>> /\ wire = <<>>
    /\ capturing = {} /\ clearing = {}
    /\ \A i \in Ids : phase[i] \notin {"stored", "removed"}

\* Whatever order joins, leaves and lists came in, the window ends with the sessions of
\* the store; only a leave that the channel lost escapes it.
ListAgrees ==
    Drained /\ "removed" \notin lost => registry = store

\* The calls that the broker can replay are on screen, while there is room, but for those
\* that a RemotesCleared followed to the wire.
CallsAreShown ==
    "remotes" \notin lost =>
        \/ Len(rows) = CallsPerRemote
        \/ ToSet(history["remotes"]) \subseteq ToSet(rows) \cup masked

\* So are the lines of the known sessions, where these do not come and go: a line may be
\* forwarded before the join of its session, and the window drops it then.
LinesAreShown ==
    "log" \notin lost /\ world \cap {"sessions", "runs"} = {} =>
        \A x \in ToSet(history["log"]) : x.from \in registry => x \in lines

\* What the broker can replay is on screen, whenever the window connected.
HistoryIsShown == Drained => CallsAreShown /\ LinesAreShown

\* Each call on screen, once, is one the broker can replay, but for calls whose broadcast
\* was still to be forwarded when the history was cleared, or that made room for others.
RowsAreReplayable ==
    LET kept == history["remotes"]
    IN  /\ Cardinality(ToSet(rows)) = Len(rows)
        /\ Drained =>
             \A x \in ToSet(rows) \ (ToSet(kept) \cup overtaken) :
                Len(kept) = HistoryCap["remotes"] /\ x.n < Head(kept).n

\* A target whose client is connected is changed by nobody but the user.
TargetKept ==
    [][(target \in store /\ up') => (target' = target \/ \E i \in Ids : SetTarget(i))]_vars

\* A run that the window awaits is on its way, awaited by a task, or answered; none is
\* left that nobody will answer.
RunsHeld ==
    \A r \in pending :
        \/ \E k \in DOMAIN inbox : inbox[k].type = "run" /\ inbox[k].run.request = r
        \/ \E run \in tasks : run.request = r
        \/ r \in results
        \/ \E k \in DOMAIN wire : wire[k] = [type |-> "result", request |-> r]

\* A run whose session has left ends.
RunsEnd ==
    \A r \in 1..MaxRuns : (r \in pending /\ store = {}) ~> r \notin pending

=============================================================================
