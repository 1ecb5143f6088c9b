------------------------- MODULE ControlFeedProofs -------------------------
(***************************************************************************)
(* Proofs about the control connection, for any sessions, any capacity of  *)
(* the channels and any number of calls, runs and reconnections.           *)
(*                                                                         *)
(* IInv is the inductive invariant of the sessions and the runs.  Bounded  *)
(* adds what TypeOK says of the rest; ListInv, CallsInv and LinesInv say,  *)
(* of each thing that a drained window must show, where it is on its way   *)
(* there: each is inductive given those before it.                         *)
(***************************************************************************)
EXTENDS ControlFeed, SequenceTheorems, FiniteSetTheorems, TLAPS

F == INSTANCE RecursionFacts WITH Op <- Show

(***************************************************************************)
(* The inductive invariant.                                                *)
(***************************************************************************)
Phases == {"new", "stored", "live", "removed", "gone"}

FeedOK ==
    /\ DOMAIN feed = Channels
    /\ feed["added"] \in Seq(Ids) /\ feed["removed"] \in Seq(Ids)
    /\ feed["log"] \in Seq(Item) /\ feed["remotes"] \in Seq(Item)
    /\ feed["cleared"] \in Seq({NoId})

\* What is sent and kept is typed; the store is what the sessions' tasks have put there.
Typed ==
    /\ phase \in [Ids -> Phases] /\ store = {i \in Ids : phase[i] \in {"stored", "live"}}
    /\ history \in [{"log", "remotes"} -> Seq(Item)]
    /\ capturing \subseteq [type : {"log", "remotes"}, call : Item]
    /\ FeedOK
    /\ tasks \subseteq Run /\ results \subseteq 1..MaxRuns /\ pending \subseteq 1..MaxRuns
    /\ inbox \in Seq(ToBroker) /\ wire \in Seq(ToWindow)
    /\ registry \subseteq Ids /\ target \in registry \cup {NoId}
    /\ items \in Nat /\ runs \in Nat

\* What a message does to the window's knowledge of a session.
Brings(m, i) == \/ m.type = "added" /\ m.id = i
                \/ m.type = "sessions" /\ i \in m.list
Takes(m, i) == m.type = "removed" /\ m.id = i
Lacks(m, i) == m.type = "sessions" /\ i \notin m.list

\* Nothing is heard of a session before it joins.
Unheard ==
    \A i \in Ids : phase[i] = "new" =>
        /\ i \notin registry
        /\ i \notin ToSet(feed["added"]) \cup ToSet(feed["removed"])
        /\ \A k \in 1..Len(wire) : ~ Brings(wire[k], i) /\ ~ Takes(wire[k], i)

\* Nothing under way takes a session of the store from the window: no removal of it is
\* sent, and a list without it is older than all that the window hears of it.
Staying ==
    \A i \in store :
        /\ i \notin ToSet(feed["removed"])
        /\ \A k \in 1..Len(wire) :
              /\ ~ Takes(wire[k], i)
              /\ Lacks(wire[k], i) => /\ i \notin registry
                                      /\ \A j \in 1..k-1 : ~ Brings(wire[j], i)

IInv == Typed /\ Unheard /\ Staying /\ RunsHeld

(***************************************************************************)
(* Lemmas.                                                                 *)
(***************************************************************************)
LEMMA Messages ==
    /\ \A i \in Ids : /\ [type |-> "added", id |-> i] \in ToWindow
                      /\ [type |-> "removed", id |-> i] \in ToWindow
                      /\ SetSecurity(i) \in ToBroker
    /\ [type |-> "cleared"] \in ToWindow
    /\ \A b \in Seq(Item) : /\ [type |-> "log", batch |-> b] \in ToWindow
                            /\ [type |-> "remotes", batch |-> b] \in ToWindow
    /\ \A S \in SUBSET Ids : [type |-> "sessions", list |-> S] \in ToWindow
    /\ \A r \in 1..MaxRuns : [type |-> "result", request |-> r] \in ToWindow
    /\ ListSessions \in ToBroker /\ [type |-> "clear"] \in ToBroker
    /\ \A k \in {"log", "remotes"} : Replay(k) \in ToBroker
    /\ \A run \in Run : [type |-> "run", run |-> run] \in ToBroker
BY DEF ToWindow, ToBroker, ListSessions, Replay, SetSecurity

LEMMA Fields ==
    /\ \A m \in ToWindow : /\ m.type \in {"added", "removed"} => m.id \in Ids
                           /\ m.type = "sessions" => m.list \in SUBSET Ids
                           /\ m.type = "result" => /\ m.request \in 1..MaxRuns
                                                   /\ m = [type |-> "result", request |-> m.request]
    /\ \A m \in ToBroker : /\ m.type = "run" => m.run \in Run
                           /\ m.type = "replay" => m.kind \in {"log", "remotes"}
BY DEF ToWindow, ToBroker

\* What is published is typed, and new is only the message.
LEMMA Published ==
    ASSUME FeedOK, NEW c \in Channels, NEW m, Publish(c, m),
           c \in {"added", "removed"} => m \in Ids,
           c \in {"log", "remotes"} => m \in Item,
           c = "cleared" => m = NoId
    PROVE  /\ FeedOK'
           /\ \A d \in Channels : ToSet(feed'[d]) \subseteq
                                    ToSet(feed[d]) \cup (IF d = c THEN {m} ELSE {})
<1>. DEFINE Next1(s) == Append(IF Len(s) = ChannelCap[c] THEN Tail(s) ELSE s, m)
<1>1. \A T : \A s \in Seq(T) : m \in T =>
         Next1(s) \in Seq(T) /\ ToSet(Next1(s)) \subseteq ToSet(s) \cup {m}
  <2>. SUFFICES ASSUME NEW T, NEW s \in Seq(T), m \in T
                PROVE  Next1(s) \in Seq(T) /\ ToSet(Next1(s)) \subseteq ToSet(s) \cup {m}
    OBVIOUS
  <2>1. ChannelCap[c] \in Nat \ {0}
    BY ControlFeedAssumption
  <2>2. CASE Len(s) = ChannelCap[c]
    <3>1. Tail(s) \in Seq(T) /\ Len(Tail(s)) = Len(s) - 1
          /\ \A k \in 1..Len(s)-1 : Tail(s)[k] = s[k+1]
      BY <2>1, <2>2
    <3>. QED
      BY <3>1, <2>1, <2>2 DEF ToSet
  <2>3. CASE Len(s) # ChannelCap[c]
    BY <2>3 DEF ToSet
  <2>. QED
    BY <2>2, <2>3
<1>2. CASE up
  <2>1. feed' = [feed EXCEPT ![c] = Next1(feed[c])]
    BY <1>2 DEF Publish
  <2>. HIDE DEF Next1
  <2>2. FeedOK'
    BY <1>1, <2>1 DEF FeedOK, Channels
  <2>3. \A d \in Channels : d # c => feed'[d] = feed[d]
    BY <2>1 DEF FeedOK
  <2>4. ToSet(feed'[c]) \subseteq ToSet(feed[c]) \cup {m}
    BY <1>1, <2>1 DEF FeedOK, Channels
  <2>. QED
    BY <2>2, <2>3, <2>4
<1>3. CASE ~ up
  BY <1>3 DEF Publish, FeedOK
<1>. QED
  BY <1>2, <1>3

\* A message that brings no session that is new, and takes none of the store.
LEMMA Replied ==
    ASSUME IInv, NEW m \in ToWindow, Reply(m),
           \A i \in Ids : phase[i] = "new" => ~ Brings(m, i) /\ ~ Takes(m, i),
           \A i \in store : ~ Takes(m, i) /\ ~ Lacks(m, i),
           UNCHANGED <<phase, store, registry>>, FeedOK',
           \A d \in Channels : ToSet(feed'[d]) \subseteq ToSet(feed[d])
    PROVE  wire' \in Seq(ToWindow) /\ Unheard' /\ Staying'
<1>1. /\ wire' \in Seq(ToWindow) /\ Len(wire') = Len(wire) + 1
      /\ \A k \in 1..Len(wire) : wire'[k] = wire[k]
      /\ wire'[Len(wire) + 1] = m /\ Len(wire) \in Nat
  BY DEF IInv, Typed, Reply
<1>2. Unheard'
  BY <1>1 DEF IInv, Unheard, Channels
<1>3. Staying'
  BY <1>1 DEF IInv, Staying, Unheard, Channels, Lacks, Takes, Brings
<1>. QED
  BY <1>1, <1>2, <1>3

\* The window hears a message.
LEMMA Heard ==
    ASSUME IInv, wire # <<>>, wire' = Tail(wire), UNCHANGED <<phase, store, feed>>,
           registry' \subseteq registry \cup {i \in Ids : Brings(Head(wire), i)}
    PROVE  wire' \in Seq(ToWindow) /\ Unheard' /\ Staying'
<1>1. /\ wire' \in Seq(ToWindow) /\ Len(wire') = Len(wire) - 1 /\ Len(wire) \in Nat \ {0}
      /\ \A k \in 1..Len(wire)-1 : wire'[k] = wire[k+1]
      /\ Head(wire) = wire[1] /\ Head(wire) \in ToWindow
  BY DEF IInv, Typed
<1>2. Unheard'
  BY <1>1 DEF IInv, Unheard
<1>3. Staying'
  <2>. SUFFICES ASSUME NEW i \in store
                PROVE  /\ i \notin ToSet(feed["removed"])
                       /\ \A k \in 1..Len(wire') :
                            /\ ~ Takes(wire'[k], i)
                            /\ Lacks(wire'[k], i) => /\ i \notin registry'
                                                     /\ \A j \in 1..k-1 : ~ Brings(wire'[j], i)
    BY DEF Staying
  <2>1. i \notin ToSet(feed["removed"])
    BY DEF IInv, Staying
  <2>2. ASSUME NEW k \in 1..Len(wire')
        PROVE  /\ ~ Takes(wire'[k], i)
               /\ Lacks(wire'[k], i) => /\ i \notin registry'
                                        /\ \A j \in 1..k-1 : ~ Brings(wire'[j], i)
    <3>1. k+1 \in 1..Len(wire) /\ wire'[k] = wire[k+1] /\ 1 \in 1..(k+1)-1
      BY <1>1
    <3>2. /\ ~ Takes(wire[k+1], i)
          /\ Lacks(wire[k+1], i) => /\ i \notin registry
                                    /\ \A j \in 1..(k+1)-1 : ~ Brings(wire[j], i)
      BY <3>1 DEF IInv, Staying
    <3>3. \A j \in 1..k-1 : wire'[j] = wire[j+1] /\ j+1 \in 1..(k+1)-1
      BY <1>1
    <3>. QED
      BY <1>1, <3>1, <3>2, <3>3
  <2>. QED
    BY <2>1, <2>2
<1>. QED
  BY <1>1, <1>2, <1>3

\* A step that leaves the sessions and what is heard of them alone.
LEMMA Elsewhere ==
    ASSUME IInv, UNCHANGED <<phase, store, registry, wire>>, FeedOK',
           \A d \in {"added", "removed"} : feed'[d] = feed[d]
    PROVE  Unheard' /\ Staying'
BY DEF IInv, Unheard, Staying

\* Runs are held by what is appended to either way of the socket, and by what stays there.
LEMMA StillHeld ==
    ASSUME IInv, pending' \subseteq pending, results \subseteq results', tasks \subseteq tasks',
           \/ UNCHANGED inbox
           \/ inbox # <<>> /\ Head(inbox).type # "run" /\ inbox' = Tail(inbox)
           \/ \E more \in Seq(ToBroker) : inbox' = inbox \o more,
           \/ UNCHANGED wire
           \/ wire # <<>> /\ inbox' = inbox /\ wire' = Tail(wire)
              /\ (Head(wire).type = "result" => Head(wire).request \notin pending')
           \/ wire # <<>> /\ wire' = Tail(wire) /\ Head(wire).type # "result"
           \/ \E m \in ToWindow : wire' = Append(wire, m)
    PROVE  RunsHeld'
<1>. SUFFICES ASSUME NEW r \in pending' PROVE RunsHeld!(r)'
  BY DEF RunsHeld
<1>1. RunsHeld!(r)
  BY DEF IInv, RunsHeld
<1>2. inbox \in Seq(ToBroker) /\ wire \in Seq(ToWindow)
  BY DEF IInv, Typed
<1>3. ASSUME NEW k \in DOMAIN inbox, inbox[k].type = "run", inbox[k].run.request = r
      PROVE  \E j \in DOMAIN inbox' : inbox'[j].type = "run" /\ inbox'[j].run.request = r
  <2>1. CASE UNCHANGED inbox
    BY <1>3, <2>1
  <2>2. CASE inbox # <<>> /\ Head(inbox).type # "run" /\ inbox' = Tail(inbox)
    <3>1. k \in 2..Len(inbox)
      BY <1>2, <1>3, <2>2
    <3>2. k-1 \in DOMAIN inbox' /\ inbox'[k-1] = inbox[k]
      BY <1>2, <2>2, <3>1
    <3>. QED
      BY <1>3, <3>2
  <2>3. CASE \E more \in Seq(ToBroker) : inbox' = inbox \o more
    <3>1. k \in DOMAIN inbox' /\ inbox'[k] = inbox[k]
      BY <1>2, <2>3
    <3>. QED
      BY <1>3, <3>1
  <2>. QED
    BY <2>1, <2>2, <2>3
<1>4. ASSUME NEW k \in DOMAIN wire, wire[k] = [type |-> "result", request |-> r]
      PROVE  \E j \in DOMAIN wire' : wire'[j] = [type |-> "result", request |-> r]
  <2>1. CASE UNCHANGED wire
    BY <1>4, <2>1
  <2>2. CASE /\ wire # <<>> /\ wire' = Tail(wire)
             /\ Head(wire).type = "result" => Head(wire).request \notin pending'
    <3>1. k \in 2..Len(wire)
      BY <1>2, <1>4, <2>2
    <3>2. k-1 \in DOMAIN wire' /\ wire'[k-1] = wire[k]
      BY <1>2, <2>2, <3>1
    <3>. QED
      BY <1>4, <3>2
  <2>3. CASE \E m \in ToWindow : wire' = Append(wire, m)
    <3>1. k \in DOMAIN wire' /\ wire'[k] = wire[k]
      BY <1>2, <1>4, <2>3
    <3>. QED
      BY <1>4, <3>1
  <2>. QED
    BY <2>1, <2>2, <2>3
<1>. QED
  BY <1>1, <1>3, <1>4

(***************************************************************************)
(* The steps.                                                              *)
(***************************************************************************)
LEMMA InitInv == Init => IInv
<1>. SUFFICES ASSUME Init PROVE IInv
  OBVIOUS
<1>1. Typed
  BY DEF Init, Typed, FeedOK, Quiet, Channels, Phases
<1>2. Unheard /\ Staying
  BY DEF Init, Unheard, Staying, Quiet, Channels, ToSet
<1>. QED
  BY <1>1, <1>2 DEF Init, IInv, RunsHeld

LEMMA MembershipStep == IInv /\ Membership => IInv'
<1>. SUFFICES ASSUME IInv, NEW i \in Ids, Join(i) \/ Announce(i) \/ Leave(i) \/ Retract(i)
              PROVE  IInv'
  BY DEF Membership
<1>1. CASE Join(i)
  <2>. USE <1>1 DEF Join, channelVars, runVars, viewVars, relayVars, counters
  <2>1. Typed'
    BY DEF IInv, Typed, FeedOK, Phases
  <2>2. Unheard'
    BY DEF IInv, Typed, Unheard
  <2>3. Staying'
    BY DEF IInv, Typed, Unheard, Staying
  <2>. QED
    BY <2>1, <2>2, <2>3 DEF IInv, RunsHeld
<1>2. CASE Announce(i)
  <2>. USE <1>2 DEF Announce, runVars, viewVars, relayVars, counters
  <2>1. FeedOK' /\ \A d \in Channels : ToSet(feed'[d]) \subseteq
                                   ToSet(feed[d]) \cup (IF d = "added" THEN {i} ELSE {})
    BY Published DEF IInv, Typed, Channels
  <2>2. Typed'
    BY <2>1 DEF IInv, Typed, Phases
  <2>3. Unheard'
    BY <2>1 DEF IInv, Typed, Unheard, Channels
  <2>4. Staying'
    BY <2>1 DEF IInv, Typed, Staying, Channels
  <2>. QED
    BY <2>2, <2>3, <2>4 DEF IInv, RunsHeld
<1>3. CASE Leave(i)
  <2>. USE <1>3 DEF Leave, channelVars, runVars, viewVars, relayVars, counters
  <2>1. Typed'
    BY DEF IInv, Typed, FeedOK, Phases
  <2>2. Unheard' /\ Staying'
    BY DEF IInv, Typed, Unheard, Staying
  <2>. QED
    BY <2>1, <2>2 DEF IInv, RunsHeld
<1>4. CASE Retract(i)
  <2>. USE <1>4 DEF Retract, runVars, viewVars, relayVars, counters
  <2>1. FeedOK' /\ \A d \in Channels : ToSet(feed'[d]) \subseteq
                                   ToSet(feed[d]) \cup (IF d = "removed" THEN {i} ELSE {})
    BY Published DEF IInv, Typed, Channels
  <2>2. Typed'
    BY <2>1 DEF IInv, Typed, Phases
  <2>3. Unheard'
    BY <2>1 DEF IInv, Typed, Unheard, Channels
  <2>4. i \notin store
    BY DEF IInv, Typed
  <2>5. Staying'
    BY <2>1, <2>4 DEF IInv, Typed, Staying, Channels
  <2>. QED
    BY <2>2, <2>3, <2>5 DEF IInv, RunsHeld
<1>. QED
  BY <1>1, <1>2, <1>3, <1>4

LEMMA HistoryStep == IInv /\ History => IInv'
<1>. USE DEF sessionVars, runVars, viewVars, channelVars, counters
<1>1. ASSUME IInv, NEW k \in {"log", "remotes"}, NEW i \in Ids, Capture(k, i) PROVE IInv'
  <2>. DEFINE new == [n |-> items + 1, from |-> i]
              old == history[k]
              keep == IF Len(old) = HistoryCap[k] THEN Tail(old) ELSE old
  <2>1. new \in Item /\ items' \in Nat
    BY <1>1, ControlFeedAssumption DEF Capture, IInv, Typed, Item
  <2>2. old \in Seq(Item) /\ HistoryCap[k] \in Nat \ {0}
    BY <1>1, ControlFeedAssumption DEF IInv, Typed
  <2>3. Append(keep, new) \in Seq(Item)
    BY <2>1, <2>2
  <2>4. history' = [history EXCEPT ![k] = Append(keep, new)]
        /\ capturing' = {[type |-> k, call |-> new]}
    BY <1>1 DEF Capture
  <2>. HIDE DEF new, old, keep
  <2>5. history' \in [{"log", "remotes"} -> Seq(Item)]
        /\ capturing' \subseteq [type : {"log", "remotes"}, call : Item]
    BY <1>1, <2>1, <2>3, <2>4 DEF IInv, Typed
  <2>6. Typed'
    BY <1>1, <2>1, <2>5 DEF Capture, IInv, Typed, FeedOK
  <2>7. Unheard' /\ Staying'
    BY <1>1, Elsewhere DEF Capture, IInv, Typed, FeedOK
  <2>. QED
    BY <1>1, <2>6, <2>7 DEF Capture, IInv, RunsHeld
<1>2. ASSUME IInv, Relay PROVE IInv'
  <2>. USE <1>2 DEF Relay
  <2>1. PICK m \in capturing : Publish(m.type, m.call)
    OBVIOUS
  <2>2. m.type \in {"log", "remotes"} /\ m.call \in Item
    BY DEF IInv, Typed
  <2>3. FeedOK'
    BY <2>1, <2>2, Published DEF IInv, Typed, Channels
  <2>4. \A d \in {"added", "removed"} : feed'[d] = feed[d]
    BY <2>1, <2>2 DEF Publish, IInv, Typed, FeedOK, Channels
  <2>5. Typed'
    BY <2>3 DEF IInv, Typed
  <2>6. Unheard' /\ Staying'
    BY <2>3, <2>4, Elsewhere
  <2>. QED
    BY <2>5, <2>6 DEF IInv, RunsHeld
<1>3. ASSUME IInv, ClearElsewhere PROVE IInv'
  <2>. USE <1>3 DEF ClearElsewhere, Clear
  <2>1. Typed'
    BY DEF IInv, Typed, FeedOK
  <2>2. Unheard' /\ Staying'
    BY Elsewhere DEF IInv, Typed, FeedOK
  <2>. QED
    BY <2>1, <2>2 DEF IInv, RunsHeld
<1>4. ASSUME IInv, NEW who, TellCleared(who) PROVE IInv'
  <2>. USE <1>4 DEF TellCleared
  <2>1. FeedOK'
    BY Published DEF IInv, Typed, Channels
  <2>2. \A d \in {"added", "removed"} : feed'[d] = feed[d]
    BY DEF Publish, IInv, Typed, FeedOK, Channels
  <2>3. Typed'
    BY <2>1 DEF IInv, Typed, counters
  <2>4. Unheard' /\ Staying'
    BY <2>1, <2>2, Elsewhere
  <2>. QED
    BY <2>3, <2>4 DEF IInv, RunsHeld
<1>. QED
  BY <1>1, <1>2, <1>3, <1>4 DEF History

\* A forwarded message says what was published.
LEMMA ForwardStep ==
    ASSUME IInv, NEW c \in Channels, Forward(c)
    PROVE  IInv'
<1>. USE DEF Forward, sessionVars, relayVars, runVars, viewVars, counters
<1>. DEFINE m == CASE c \in {"added", "removed"} -> [type |-> c, id |-> Head(feed[c])]
                   [] c \in {"log", "remotes"}   -> [type |-> c, batch |-> <<Head(feed[c])>>]
                   [] c = "cleared"              -> [type |-> c]
<1>1. feed[c] # <<>> /\ feed' = [feed EXCEPT ![c] = Tail(@)] /\ FeedOK
  BY DEF IInv, Typed
<1>2. /\ FeedOK'
      /\ \A d \in Channels : ToSet(feed'[d]) \subseteq ToSet(feed[d])
      /\ Head(feed[c]) \in ToSet(feed[c])
      /\ c \in {"added", "removed"} => Head(feed[c]) \in Ids
      /\ c \in {"log", "remotes"} => <<Head(feed[c])>> \in Seq(Item)
  <2>1. \A T : \A s \in Seq(T) : s # <<>> => /\ Tail(s) \in Seq(T) /\ Head(s) \in T
                                           /\ ToSet(Tail(s)) \subseteq ToSet(s)
                                           /\ Head(s) \in ToSet(s)
    <3>. SUFFICES ASSUME NEW T, NEW s \in Seq(T), s # <<>>
                  PROVE  /\ Tail(s) \in Seq(T) /\ Head(s) \in T
                         /\ ToSet(Tail(s)) \subseteq ToSet(s)
                         /\ Head(s) \in ToSet(s)
      OBVIOUS
    <3>1. /\ Tail(s) \in Seq(T) /\ Len(Tail(s)) = Len(s) - 1 /\ Len(s) \in Nat \ {0}
          /\ \A k \in 1..Len(s)-1 : Tail(s)[k] = s[k+1]
          /\ Head(s) = s[1]
      OBVIOUS
    <3>. QED
      BY <3>1 DEF ToSet
  <2>2. FeedOK' /\ \A d \in Channels : d # c => feed'[d] = feed[d]
    BY <1>1, <2>1 DEF FeedOK, Channels
  <2>3. ToSet(feed'[c]) \subseteq ToSet(feed[c]) /\ Head(feed[c]) \in ToSet(feed[c])
    BY <1>1, <2>1 DEF FeedOK, Channels
  <2>4. c \in {"added", "removed"} => Head(feed[c]) \in Ids
    BY <1>1, <2>1 DEF FeedOK, Channels
  <2>5. c \in {"log", "remotes"} => <<Head(feed[c])>> \in Seq(Item)
    BY <1>1, <2>1 DEF FeedOK, Channels
  <2>. QED
    BY <2>2, <2>3, <2>4, <2>5
<1>3. m \in ToWindow /\ Reply(m)
  <2>1. m \in ToWindow
    BY <1>2, Messages DEF Channels
  <2>. QED
    BY <2>1
<1>4. /\ \A i \in Ids : phase[i] = "new" => ~ Brings(m, i) /\ ~ Takes(m, i)
      /\ \A i \in store : ~ Takes(m, i) /\ ~ Lacks(m, i)
  BY <1>2 DEF IInv, Unheard, Staying, Brings, Takes, Lacks, Channels
<1>. HIDE DEF m
<1>5. wire' \in Seq(ToWindow) /\ Unheard' /\ Staying'
  BY <1>2, <1>3, <1>4, Replied
<1>6. Typed'
  BY <1>2, <1>5 DEF IInv, Typed
<1>7. RunsHeld'
  BY <1>3, StillHeld DEF Reply
<1>. QED
  BY <1>5, <1>6, <1>7 DEF IInv

LEMMA ForwardsStep == IInv /\ Forwards => IInv'
<1>1. ASSUME IInv, NEW r \in results, ForwardResult(r) PROVE IInv'
  <2>. USE <1>1 DEF ForwardResult, sessionVars, relayVars, channelVars, viewVars, counters
  <2>. DEFINE m == [type |-> "result", request |-> r]
  <2>1. m \in ToWindow /\ Reply(m) /\ wire \in Seq(ToWindow)
    BY Messages DEF IInv, Typed
  <2>2. /\ \A i \in Ids : ~ Brings(m, i) /\ ~ Takes(m, i) /\ ~ Lacks(m, i)
        /\ store \subseteq Ids /\ FeedOK'
    BY DEF Brings, Takes, Lacks, IInv, Typed, FeedOK
  <2>3. m.type = "result" /\ m.request = r
    OBVIOUS
  <2>4. wire' = Append(wire, m)
    BY <2>1 DEF Reply
  <2>. HIDE DEF m
  <2>5. wire' \in Seq(ToWindow) /\ Unheard' /\ Staying'
    BY <2>1, <2>2, Replied
  <2>6. Typed'
    BY <2>2, <2>5 DEF IInv, Typed
  <2>7. RunsHeld'
    <3>1. /\ Len(wire) + 1 \in DOMAIN wire' /\ wire'[Len(wire) + 1] = m
          /\ \A k \in DOMAIN wire : k \in DOMAIN wire' /\ wire'[k] = wire[k]
      BY <2>1, <2>4
    <3>. QED
      BY <3>1 DEF IInv, RunsHeld, m
  <2>. QED
    BY <2>5, <2>6, <2>7 DEF IInv
<1>. QED
  BY <1>1, ForwardStep DEF Forwards

LEMMA ServeStep == IInv /\ Serve => IInv'
<1>. USE DEF sessionVars, relayVars, channelVars, runVars, viewVars, counters
<1>. DEFINE Asked == inbox # <<>> /\ inbox' = Tail(inbox) /\ Head(inbox) \in ToBroker
                     /\ inbox' \in Seq(ToBroker)
<1>1. ASSUME NEW type, IInv, Asks(type) PROVE Asked
  BY <1>1 DEF Asks, IInv, Typed
<1>2. ASSUME IInv, ServeList PROVE IInv'
  <2>. USE <1>2 DEF ServeList
  <2>. DEFINE m == [type |-> "sessions", list |-> store]
  <2>1. Asked /\ Head(inbox).type = "list" /\ m \in ToWindow /\ FeedOK'
    BY <1>1, Messages DEF Asks, IInv, Typed, FeedOK
  <2>2. /\ \A i \in Ids : phase[i] = "new" => ~ Brings(m, i) /\ ~ Takes(m, i)
        /\ \A i \in store : ~ Takes(m, i) /\ ~ Lacks(m, i)
    BY DEF IInv, Typed, Brings, Takes, Lacks
  <2>3. Reply(m)
    OBVIOUS
  <2>. HIDE DEF m
  <2>4. wire' \in Seq(ToWindow) /\ Unheard' /\ Staying'
    BY <2>1, <2>2, <2>3, Replied
  <2>5. Typed'
    BY <2>1, <2>4 DEF IInv, Typed
  <2>6. RunsHeld'
    BY <2>1, <2>3, StillHeld DEF Reply
  <2>. QED
    BY <2>4, <2>5, <2>6 DEF IInv
<1>3. ASSUME IInv, NEW k \in {"log", "remotes"}, ServeHistory(k) PROVE IInv'
  <2>. USE <1>3 DEF ServeHistory
  <2>. DEFINE m == [type |-> k, batch |-> history[k]]
  <2>1. Asked /\ Head(inbox).type = "replay" /\ m \in ToWindow /\ FeedOK'
    BY <1>1, Messages DEF Asks, IInv, Typed, FeedOK
  <2>2. /\ \A i \in Ids : ~ Brings(m, i) /\ ~ Takes(m, i) /\ ~ Lacks(m, i)
        /\ store \subseteq Ids
    BY DEF IInv, Typed, Brings, Takes, Lacks
  <2>3. UNCHANGED wire \/ Reply(m)
    OBVIOUS
  <2>. HIDE DEF m
  <2>4. wire' \in Seq(ToWindow) /\ Unheard' /\ Staying'
    <3>1. CASE UNCHANGED wire
      BY <2>1, <3>1, Elsewhere DEF IInv, Typed, FeedOK
    <3>2. CASE Reply(m)
      BY <2>1, <2>2, <3>2, Replied
    <3>. QED
      BY <2>3, <3>1, <3>2
  <2>5. Typed'
    BY <2>1, <2>4 DEF IInv, Typed
  <2>6. RunsHeld'
    BY <2>1, <2>3, StillHeld DEF Reply
  <2>. QED
    BY <2>4, <2>5, <2>6 DEF IInv
<1>4. ASSUME IInv, ServeClear PROVE IInv'
  <2>. USE <1>4 DEF ServeClear, Clear
  <2>1. Asked /\ Head(inbox).type = "clear" /\ FeedOK'
    BY <1>1 DEF Asks, IInv, Typed, FeedOK
  <2>2. Unheard' /\ Staying'
    BY <2>1, Elsewhere DEF IInv, Typed, FeedOK
  <2>3. Typed'
    BY <2>1 DEF IInv, Typed
  <2>4. RunsHeld'
    BY <2>1, StillHeld
  <2>. QED
    BY <2>2, <2>3, <2>4 DEF IInv
<1>5. ASSUME IInv, ServeSecurity PROVE IInv'
  <2>. USE <1>5 DEF ServeSecurity
  <2>1. Asked /\ Head(inbox).type = "security" /\ FeedOK'
    BY <1>1 DEF Asks, IInv, Typed, FeedOK
  <2>2. Unheard' /\ Staying'
    BY <2>1, Elsewhere DEF IInv, Typed, FeedOK
  <2>3. Typed'
    BY <2>1 DEF IInv, Typed
  <2>4. RunsHeld'
    BY <2>1, StillHeld
  <2>. QED
    BY <2>2, <2>3, <2>4 DEF IInv
<1>6. ASSUME IInv, ServeRun PROVE IInv'
  <2>. USE <1>6 DEF ServeRun
  <2>. DEFINE run == Head(inbox).run
              m == [type |-> "result", request |-> run.request]
  <2>1. Asked /\ Head(inbox).type = "run" /\ FeedOK'
    BY <1>1 DEF Asks, IInv, Typed, FeedOK
  <2>2. run \in Run /\ run.request \in 1..MaxRuns
    BY <2>1, Fields DEF Run
  <2>3. /\ m \in ToWindow /\ store \subseteq Ids
        /\ \A i \in Ids : ~ Brings(m, i) /\ ~ Takes(m, i) /\ ~ Lacks(m, i)
    BY <2>2, Messages DEF IInv, Typed, Brings, Takes, Lacks
  <2>4. \/ UNCHANGED wire /\ tasks' = tasks \cup {run}
        \/ Reply(m) /\ UNCHANGED tasks
    OBVIOUS
  <2>5. wire' \in Seq(ToWindow) /\ Unheard' /\ Staying'
    <3>. HIDE DEF m
    <3>1. CASE UNCHANGED wire
      BY <2>1, <3>1, Elsewhere DEF IInv, Typed, FeedOK
    <3>2. CASE Reply(m)
      BY <2>1, <2>3, <3>2, Replied
    <3>. QED
      BY <2>4, <3>1, <3>2
  <2>6. Typed'
    BY <2>1, <2>2, <2>4, <2>5 DEF IInv, Typed
  <2>7. RunsHeld'
    <3>. SUFFICES ASSUME NEW r \in pending PROVE RunsHeld!(r)'
      BY DEF RunsHeld
    <3>1. inbox \in Seq(ToBroker) /\ wire \in Seq(ToWindow) /\ RunsHeld!(r)
      BY DEF IInv, Typed, RunsHeld
    <3>2. \A k \in DOMAIN inbox \ {1} : k-1 \in DOMAIN inbox' /\ inbox'[k-1] = inbox[k]
      BY <2>1, <3>1
    <3>3. Head(inbox) = inbox[1]
      BY <2>1, <3>1
    <3>4. /\ \A k \in DOMAIN wire : k \in DOMAIN wire' /\ wire'[k] = wire[k]
          /\ Reply(m) => Len(wire) + 1 \in DOMAIN wire' /\ wire'[Len(wire) + 1] = m
      <4>1. UNCHANGED wire \/ wire' = Append(wire, m)
        BY <2>4 DEF Reply
      <4>2. m \in ToWindow
        BY <2>3
      <4>. HIDE DEF m
      <4>3. CASE wire' = Append(wire, m)
        BY <3>1, <4>2, <4>3
      <4>4. CASE UNCHANGED wire /\ wire' # Append(wire, m)
        BY <3>1, <4>4 DEF Reply
      <4>. QED
        BY <4>1, <4>3, <4>4
    <3>6. CASE \E k \in DOMAIN inbox \ {1} : inbox[k].type = "run" /\ inbox[k].run.request = r
      BY <3>2, <3>6
    <3>7. CASE inbox[1].run.request = r
      BY <2>4, <3>3, <3>4, <3>7
    <3>8. CASE \E k \in DOMAIN wire : wire[k] = [type |-> "result", request |-> r]
      BY <3>4, <3>8
    <3>9. CASE (\E task \in tasks : task.request = r) \/ r \in results
      BY <2>4, <3>9
    <3>. QED
      BY <3>1, <3>6, <3>7, <3>8, <3>9
  <2>. QED
    BY <2>5, <2>6, <2>7 DEF IInv
<1>. QED
  BY <1>2, <1>3, <1>4, <1>5, <1>6 DEF Serve

\* Messages appended to a sequence of messages.
LEMMA Appended ==
    ASSUME NEW T, NEW a \in T, NEW b \in T
    PROVE  <<a, b>> \in Seq(T) /\ \A s, t \in Seq(T) : s \o t \in Seq(T)
OBVIOUS

\* A target whose client stays known stays; else it is a known client, or none.
LEMMA Adopted ==
    ASSUME NEW known, Adopt(known)
    PROVE  /\ registry' = known /\ target' \in known \cup {NoId}
           /\ target \in known => target' = target
BY DEF Adopt, Targets

LEMMA HearStep == IInv /\ Hear => IInv'
<1>. USE DEF sessionVars, relayVars, channelVars, runVars, viewVars, counters
<1>. DEFINE Hd == Head(wire)
            Is(type) == wire # <<>> /\ wire' = Tail(wire) /\ Hd \in ToWindow /\ Hd.type = type
<1>1. ASSUME NEW type, IInv, Hears(type) PROVE Is(type)
  BY <1>1 DEF Hears, IInv, Typed
<1>2. ASSUME IInv, OnNewSession PROVE IInv'
  <2>. USE <1>2 DEF OnNewSession, Send
  <2>. DEFINE more == <<SetSecurity(Hd.id), ListSessions>>
  <2>1. Is("added") /\ Hd.id \in Ids /\ Brings(Hd, Hd.id)
    BY <1>1, Fields DEF Brings
  <2>2. Adopt(registry \cup {Hd.id}) /\ FeedOK'
    BY DEF IInv, Typed, FeedOK
  <2>3. registry' = registry \cup {Hd.id} /\ target' \in registry' \cup {NoId}
    BY <2>2, Adopted
  <2>4. more \in Seq(ToBroker) /\ inbox' = inbox \o more
    <3>1. SetSecurity(Hd.id) \in ToBroker /\ ListSessions \in ToBroker
      BY <2>1, Messages
    <3>. QED
      BY <3>1, Appended
  <2>5. wire' \in Seq(ToWindow) /\ Unheard' /\ Staying'
    BY <2>1, <2>3, Heard
  <2>6. inbox' \in Seq(ToBroker)
    BY <2>4 DEF IInv, Typed
  <2>. HIDE DEF more
  <2>7. Typed'
    BY <2>1, <2>2, <2>3, <2>5, <2>6 DEF IInv, Typed
  <2>8. RunsHeld'
    BY <2>1, <2>4, StillHeld
  <2>. QED
    BY <2>5, <2>7, <2>8 DEF IInv
<1>3. ASSUME IInv, OnRemoveSession PROVE IInv'
  <2>. USE <1>3 DEF OnRemoveSession
  <2>1. Is("removed") /\ FeedOK'
    BY <1>1 DEF IInv, Typed, FeedOK
  <2>2. registry' \subseteq registry /\ target' \in registry' \cup {NoId}
    BY Adopted DEF IInv, Typed
  <2>3. wire' \in Seq(ToWindow) /\ Unheard' /\ Staying'
    BY <2>1, <2>2, Heard
  <2>4. Typed'
    BY <2>1, <2>2, <2>3 DEF IInv, Typed
  <2>5. RunsHeld'
    BY <2>1, StillHeld
  <2>. QED
    BY <2>3, <2>4, <2>5 DEF IInv
<1>4. ASSUME IInv, OnSessions PROVE IInv'
  <2>. USE <1>4 DEF OnSessions
  <2>1. Is("sessions") /\ FeedOK' /\ Hd.list \in SUBSET Ids
    BY <1>1, Fields DEF IInv, Typed, FeedOK
  <2>2. registry' = Hd.list /\ target' \in registry' \cup {NoId}
    BY Adopted
  <2>3. registry' \subseteq {i \in Ids : Brings(Hd, i)}
    BY <2>1, <2>2 DEF Brings
  <2>4. wire' \in Seq(ToWindow) /\ Unheard' /\ Staying'
    BY <2>1, <2>3, Heard
  <2>5. Typed'
    BY <2>1, <2>2, <2>4 DEF IInv, Typed
  <2>6. RunsHeld'
    BY <2>1, StillHeld
  <2>. QED
    BY <2>4, <2>5, <2>6 DEF IInv
<1>5. ASSUME IInv, OnSessionLog \/ OnSessionRemotes \/ OnRemotesCleared PROVE IInv'
  <2>. USE <1>5 DEF OnSessionLog, OnSessionRemotes, OnRemotesCleared
  <2>1. Is("log") \/ Is("remotes") \/ Is("cleared")
    BY <1>1
  <2>2. FeedOK' /\ UNCHANGED registry
    BY DEF IInv, Typed, FeedOK
  <2>3. wire' \in Seq(ToWindow) /\ Unheard' /\ Staying'
    BY <2>1, <2>2, Heard
  <2>4. Typed'
    BY <2>2, <2>3 DEF IInv, Typed
  <2>5. RunsHeld'
    BY <2>1, StillHeld
  <2>. QED
    BY <2>3, <2>4, <2>5 DEF IInv
<1>6. ASSUME IInv, OnRunResult PROVE IInv'
  <2>. USE <1>6 DEF OnRunResult
  <2>1. Is("result") /\ FeedOK' /\ UNCHANGED registry
    BY <1>1 DEF IInv, Typed, FeedOK
  <2>2. wire' \in Seq(ToWindow) /\ Unheard' /\ Staying'
    BY <2>1, Heard
  <2>3. Typed'
    BY <2>1, <2>2 DEF IInv, Typed
  <2>4. RunsHeld'
    BY <2>1, StillHeld
  <2>. QED
    BY <2>2, <2>3, <2>4 DEF IInv
<1>. QED
  BY <1>2, <1>3, <1>4, <1>5, <1>6 DEF Hear

LEMMA UserStep == IInv /\ User => IInv'
<1>. USE DEF sessionVars, relayVars, channelVars, runVars, viewVars, counters
<1>1. ASSUME IInv, NEW i \in Ids, SetTarget(i) PROVE IInv'
  <2>. USE <1>1 DEF SetTarget
  <2>1. Typed' /\ FeedOK'
    BY DEF IInv, Typed, FeedOK
  <2>2. Unheard' /\ Staying'
    BY <2>1, Elsewhere
  <2>. QED
    BY <2>1, <2>2 DEF IInv, RunsHeld
<1>2. ASSUME IInv, ClearRemotes PROVE IInv'
  <2>. USE <1>2 DEF ClearRemotes, Send
  <2>. DEFINE more == <<[type |-> "clear"]>>
  <2>1. more \in Seq(ToBroker) /\ inbox' = inbox \o more
    BY Messages
  <2>. HIDE DEF more
  <2>2. FeedOK' /\ inbox' \in Seq(ToBroker)
    <3>1. inbox \in Seq(ToBroker) /\ FeedOK'
      BY DEF IInv, Typed, FeedOK
    <3>. QED
      BY <2>1, <3>1, Appended
  <2>3. Typed'
    BY <2>2 DEF IInv, Typed
  <2>4. Unheard' /\ Staying'
    BY <2>2, Elsewhere
  <2>5. RunsHeld'
    BY <2>1, StillHeld
  <2>. QED
    BY <2>3, <2>4, <2>5 DEF IInv
<1>3. ASSUME IInv, RunCode PROVE IInv'
  <2>. USE <1>3 DEF RunCode, Send
  <2>. DEFINE run == [request |-> runs + 1, on |-> target]
              ask == [type |-> "run", run |-> run]
  <2>1. runs + 1 \in 1..MaxRuns /\ run \in Run
    BY ControlFeedAssumption DEF IInv, Typed, Run
  <2>2. <<ask>> \in Seq(ToBroker) /\ inbox' = inbox \o <<ask>>
    BY <2>1, Messages
  <2>3. FeedOK' /\ inbox' \in Seq(ToBroker)
    BY <2>2 DEF IInv, Typed, FeedOK
  <2>4. pending' = pending \cup {runs + 1} /\ runs' = runs + 1
    OBVIOUS
  <2>5. Typed'
    BY <2>1, <2>3, <2>4 DEF IInv, Typed
  <2>6. Unheard' /\ Staying'
    BY <2>3, Elsewhere
  <2>7. /\ Len(inbox) + 1 \in DOMAIN inbox' /\ inbox'[Len(inbox) + 1] = ask
        /\ \A k \in DOMAIN inbox : k \in DOMAIN inbox' /\ inbox'[k] = inbox[k]
    BY <2>2 DEF IInv, Typed
  <2>8. ask.type = "run" /\ ask.run.request = runs + 1
    OBVIOUS
  <2>. HIDE DEF ask
  <2>9. RunsHeld'
    BY <2>4, <2>7, <2>8 DEF IInv, RunsHeld
  <2>. QED
    BY <2>5, <2>6, <2>9 DEF IInv
<1>. QED
  BY <1>1, <1>2, <1>3 DEF User

LEMMA TaskStep == IInv /\ (\E run \in tasks : Answered(run) \/ Dropped(run)) => IInv'
<1>. SUFFICES ASSUME IInv, NEW run \in tasks, Finish(run) PROVE IInv'
  BY DEF Answered, Dropped
<1>. USE DEF Finish, sessionVars, relayVars, channelVars, viewVars, counters
<1>1. FeedOK' /\ run.request \in 1..MaxRuns
  BY DEF IInv, Typed, FeedOK, Run
<1>2. Typed'
  BY <1>1 DEF IInv, Typed
<1>3. Unheard' /\ Staying'
  BY <1>1, Elsewhere
<1>4. RunsHeld'
  BY DEF IInv, RunsHeld
<1>. QED
  BY <1>2, <1>3, <1>4 DEF IInv

LEMMA SocketStep == IInv /\ (Connect \/ Disconnect) => IInv'
<1>. USE DEF sessionVars, relayVars, channelVars, runVars, viewVars, counters
<1>1. ASSUME IInv, Connect PROVE IInv'
  <2>. USE <1>1 DEF Connect, Send
  <2>. DEFINE more == <<ListSessions, Replay("log"), Replay("remotes")>>
  <2>1. more \in Seq(ToBroker) /\ inbox' = inbox \o more
    <3>1. \A a, b, c \in ToBroker : <<a, b, c>> \in Seq(ToBroker)
      OBVIOUS
    <3>2. ListSessions \in ToBroker /\ Replay("log") \in ToBroker /\ Replay("remotes") \in ToBroker
      BY Messages
    <3>. QED
      BY <3>1, <3>2
  <2>. HIDE DEF more
  <2>2. FeedOK' /\ inbox' \in Seq(ToBroker)
    <3>1. inbox \in Seq(ToBroker) /\ FeedOK'
      BY DEF IInv, Typed, FeedOK
    <3>. QED
      BY <2>1, <3>1, Appended
  <2>3. Typed'
    BY <2>2 DEF IInv, Typed
  <2>4. Unheard' /\ Staying'
    BY <2>2, Elsewhere
  <2>5. RunsHeld'
    BY <2>1, StillHeld
  <2>. QED
    BY <2>3, <2>4, <2>5 DEF IInv
<1>2. ASSUME IInv, Disconnect PROVE IInv'
  <2>. USE <1>2 DEF Disconnect
  <2>1. FeedOK' /\ \A c \in Channels : ToSet(feed'[c]) = {}
    BY DEF FeedOK, Quiet, Channels, ToSet
  <2>2. Typed'
    BY <2>1 DEF IInv, Typed
  <2>3. Unheard' /\ Staying'
    BY <2>1 DEF Unheard, Staying, Channels
  <2>. QED
    BY <2>2, <2>3 DEF IInv, RunsHeld
<1>. QED
  BY <1>1, <1>2

LEMMA StepInv == IInv /\ [Next]_vars => IInv'
<1>1. CASE UNCHANGED vars
  BY <1>1 DEF vars, sessionVars, relayVars, channelVars, runVars, viewVars, counters, IInv, Typed,
     FeedOK, Unheard, Staying, RunsHeld
<1>. QED
  BY <1>1, MembershipStep, HistoryStep, ForwardsStep, ServeStep, HearStep, UserStep, TaskStep,
     SocketStep DEF Next

(***************************************************************************)
(* The theorems.                                                           *)
(***************************************************************************)
LEMMA Invariance == Spec => []IInv
<1>. QED
  BY InitInv, StepInv, PTL DEF Spec

\* mod.rs, the RunCode handler: a run the window awaits is never left without a holder.
THEOREM RunsCorrect == Spec => []RunsHeld
<1>1. IInv => RunsHeld
  BY DEF IInv
<1>. QED
  BY <1>1, Invariance, PTL

\* sessions.ts, settleTarget: nothing the broker sends moves the target off a client that is
\* connected, in whatever order joins, leaves and lists arrive.
THEOREM TargetCorrect == Spec => TargetKept
<1>1. IInv /\ [Next]_vars =>
        [(target \in store /\ up') => (target' = target \/ \E i \in Ids : SetTarget(i))]_vars
  <2>. USE DEF sessionVars, relayVars, channelVars, runVars, viewVars, counters
  <2>. SUFFICES ASSUME IInv, Next, target \in store, up', ~ \E i \in Ids : SetTarget(i)
                PROVE  target' = target
    OBVIOUS
  <2>1. target \in registry /\ target \in Ids
    BY ControlFeedAssumption DEF IInv, Typed
  <2>2. CASE Membership
    BY <2>2 DEF Membership, Join, Announce, Leave, Retract
  <2>3. CASE History
    BY <2>3 DEF History, Capture, Relay, ClearElsewhere, TellCleared
  <2>4. CASE Forwards \/ Serve
    BY <2>4 DEF Forwards, Forward, ForwardResult, Serve, ServeList, ServeHistory, ServeClear,
       ServeSecurity, ServeRun
  <2>5. CASE Hear
    <3>1. CASE OnNewSession
      BY <2>1, <3>1, Adopted DEF OnNewSession
    <3>2. CASE OnRemoveSession
      <4>1. wire # <<>> /\ Head(wire).type = "removed"
        BY <3>2 DEF OnRemoveSession, Hears
      <4>2. 1 \in 1..Len(wire) /\ Head(wire) = wire[1]
        BY <4>1 DEF IInv, Typed
      <4>3. Head(wire).id # target
        BY <4>1, <4>2 DEF IInv, Staying, Takes
      <4>. QED
        BY <2>1, <3>2, <4>3, Adopted DEF OnRemoveSession
    <3>3. CASE OnSessions
      <4>1. wire # <<>> /\ Head(wire).type = "sessions"
        BY <3>3 DEF OnSessions, Hears
      <4>2. 1 \in 1..Len(wire) /\ Head(wire) = wire[1]
        BY <4>1 DEF IInv, Typed
      <4>3. target \in Head(wire).list
        BY <2>1, <4>1, <4>2 DEF IInv, Staying, Lacks
      <4>. QED
        BY <3>3, <4>3, Adopted DEF OnSessions
    <3>4. CASE OnSessionLog \/ OnSessionRemotes \/ OnRemotesCleared \/ OnRunResult
      BY <3>4 DEF OnSessionLog, OnSessionRemotes, OnRemotesCleared, OnRunResult
    <3>. QED
      BY <2>5, <3>1, <3>2, <3>3, <3>4 DEF Hear
  <2>6. CASE User
    BY <2>6 DEF User, ClearRemotes, RunCode
  <2>7. CASE Connect \/ Disconnect \/ \E run \in tasks : Answered(run) \/ Dropped(run)
    BY <2>7 DEF Connect, Disconnect, Answered, Dropped, Finish
  <2>. QED
    BY <2>2, <2>3, <2>4, <2>5, <2>6, <2>7 DEF Next
<1>. QED
  BY <1>1, Invariance, PTL DEF Spec, TargetKept

(***************************************************************************)
(* The channels, the rows and the bounds.                                  *)
(***************************************************************************)
\* What the channels carry.
Payload == Ids \cup Item \cup {NoId}

\* No value is there twice.
Once(s) == \A a, b \in 1..Len(s) : s[a] = s[b] => a = b

RowsOK(s) == s \in Seq(Item) /\ Len(s) <= CallsPerRemote /\ Once(s)

\* What TypeOK says beside Typed, and that no call has two rows.
Bounded ==
    /\ world \in Worlds /\ up \in BOOLEAN /\ pulled \subseteq Ids
    /\ clearing \subseteq {"own", "other"}
    /\ \A c \in Channels : Len(feed[c]) <= ChannelCap[c]
    /\ lost \subseteq Channels /\ lines \subseteq Item
    /\ RowsOK(rows)
    /\ overtaken \subseteq Item /\ masked \subseteq Item

LEMMA FeedSeqs == FeedOK => \A c \in Channels : feed[c] \in Seq(Payload)
<1>1. Ids \subseteq Payload /\ Item \subseteq Payload /\ {NoId} \subseteq Payload
  BY DEF Payload
<1>2. \A T : T \subseteq Payload => \A s \in Seq(T) : s \in Seq(Payload)
  OBVIOUS
<1>. QED
  BY <1>1, <1>2 DEF FeedOK, Channels

Push(s, m, cap) == Append(IF Len(s) = cap THEN Tail(s) ELSE s, m)

\* A full channel loses its oldest message, and is said to have lost one.
LEMMA Pushed ==
    ASSUME NEW T, NEW s \in Seq(T), NEW m \in T, NEW cap \in Nat \ {0}
    PROVE  LET t == Append(IF Len(s) = cap THEN Tail(s) ELSE s, m)
           IN  /\ t \in Seq(T) /\ t # <<>> /\ m \in ToSet(t)
               /\ ToSet(t) \subseteq ToSet(s) \cup {m}
               /\ Len(s) # cap => ToSet(s) \subseteq ToSet(t)
               /\ Len(s) <= cap => Len(t) <= cap
<1>1. CASE Len(s) = cap
  <2>1. /\ Tail(s) \in Seq(T) /\ Len(Tail(s)) = Len(s) - 1 /\ Len(s) \in Nat
        /\ \A k \in 1..Len(s)-1 : Tail(s)[k] = s[k+1]
    BY <1>1
  <2>. QED
    BY <1>1, <2>1 DEF ToSet
<1>2. CASE Len(s) # cap
  <2>1. /\ Append(s, m) \in Seq(T) /\ Len(Append(s, m)) = Len(s) + 1 /\ Len(s) \in Nat
        /\ \A k \in 1..Len(s) : Append(s, m)[k] = s[k]
        /\ Append(s, m)[Len(s) + 1] = m
    OBVIOUS
  <2>2. \A k \in 1..Len(s)+1 : k \in 1..Len(s) \/ k = Len(s) + 1
    BY <2>1
  <2>3. ToSet(Append(s, m)) = ToSet(s) \cup {m}
    BY <2>1, <2>2 DEF ToSet
  <2>4. Append(s, m) # <<>>
    BY <2>1
  <2>. QED
    BY <1>2, <2>1, <2>3, <2>4
<1>. QED
  BY <1>1, <1>2

LEMMA Publishing ==
    ASSUME FeedOK, NEW c \in Channels, NEW m \in Payload, Publish(c, m)
    PROVE  /\ \A d \in Channels : d # c => feed'[d] = feed[d]
           /\ up => feed'[c] # <<>> /\ m \in ToSet(feed'[c])
           /\ ToSet(feed'[c]) \subseteq ToSet(feed[c]) \cup {m}
           /\ c \notin lost' => ToSet(feed[c]) \subseteq ToSet(feed'[c])
           /\ lost \subseteq lost' /\ lost' \subseteq lost \cup {c}
           /\ ~ up => UNCHANGED channelVars
           /\ Len(feed[c]) <= ChannelCap[c] => Len(feed'[c]) <= ChannelCap[c]
<1>. DEFINE t == Append(IF Len(feed[c]) = ChannelCap[c] THEN Tail(feed[c]) ELSE feed[c], m)
<1>1. /\ t # <<>> /\ m \in ToSet(t)
      /\ ToSet(t) \subseteq ToSet(feed[c]) \cup {m}
      /\ Len(feed[c]) # ChannelCap[c] => ToSet(feed[c]) \subseteq ToSet(t)
      /\ Len(feed[c]) <= ChannelCap[c] => Len(t) <= ChannelCap[c]
  BY FeedSeqs, Pushed, ControlFeedAssumption
<1>2. /\ feed' = IF up THEN [feed EXCEPT ![c] = t] ELSE feed
      /\ lost' = IF up /\ Len(feed[c]) = ChannelCap[c] THEN lost \cup {c} ELSE lost
  BY DEF Publish
<1>3. DOMAIN feed = Channels
  BY DEF FeedOK
<1>. HIDE DEF t
<1>. QED
  BY <1>1, <1>2, <1>3 DEF channelVars

\* A call is shown once, on top; what was shown stays, or there is no room for more.
LEMMA ShownRow ==
    ASSUME NEW s, RowsOK(s), NEW x \in Item
    PROVE  /\ RowsOK(Show(s, x))
           /\ ToSet(Show(s, x)) \subseteq ToSet(s) \cup {x}
           /\ Len(Show(s, x)) = CallsPerRemote \/ ToSet(s) \cup {x} \subseteq ToSet(Show(s, x))
           /\ Len(s) = CallsPerRemote => Len(Show(s, x)) = CallsPerRemote
<1>1. CallsPerRemote \in Nat \ {0} /\ s \in Seq(Item) /\ Len(s) \in Nat
  BY ControlFeedAssumption DEF RowsOK
<1>2. CASE x \in ToSet(s)
  BY <1>1, <1>2 DEF Show
<1>3. CASE x \notin ToSet(s)
  <2>. DEFINE all == <<x>> \o s
              n == IF Len(all) < CallsPerRemote THEN Len(all) ELSE CallsPerRemote
              t == SubSeq(all, 1, n)
  <2>1. /\ all \in Seq(Item) /\ Len(all) = Len(s) + 1
        /\ all[1] = x /\ \A k \in 1..Len(s) : all[k+1] = s[k]
    BY <1>1
  <2>2. Show(s, x) = t
    BY <1>3 DEF Show
  <2>. HIDE DEF all
  <2>3. n \in 1..Len(all) /\ n <= CallsPerRemote
    BY <1>1, <2>1
  <2>4. t \in Seq(Item) /\ Len(t) = n /\ \A k \in 1..n : t[k] = all[k]
    BY <2>1, <2>3
  <2>5. \A k \in 2..Len(all) : k-1 \in 1..Len(s) /\ all[k] = s[k-1] /\ all[k] # x
    BY <1>1, <1>3, <2>1 DEF ToSet
  <2>6. Once(t)
    <3>. SUFFICES ASSUME NEW a \in 1..n, NEW b \in 1..n, all[a] = all[b] PROVE a = b
      BY <2>4 DEF Once
    <3>1. CASE a = 1 \/ b = 1
      BY <2>1, <2>3, <2>5, <3>1
    <3>2. CASE a # 1 /\ b # 1
      <4>1. a-1 \in 1..Len(s) /\ b-1 \in 1..Len(s) /\ s[a-1] = s[b-1]
        BY <2>3, <2>5, <3>2
      <4>. QED
        BY <4>1 DEF RowsOK, Once
    <3>. QED
      BY <3>1, <3>2
  <2>7. \A k \in 1..n : t[k] \in ToSet(s) \cup {x}
    <3>. SUFFICES ASSUME NEW k \in 1..n PROVE all[k] \in ToSet(s) \cup {x}
      BY <2>4
    <3>1. k = 1 \/ k \in 2..Len(all)
      BY <2>3
    <3>2. \A j \in 1..Len(s) : s[j] \in ToSet(s)
      BY <1>1 DEF ToSet
    <3>. QED
      BY <2>1, <2>5, <3>1, <3>2
  <2>8. n = CallsPerRemote \/ n = Len(all)
    OBVIOUS
  <2>9. n = Len(all) => \A y \in ToSet(s) \cup {x} : y \in ToSet(t)
    <3>. SUFFICES ASSUME n = Len(all), NEW y \in ToSet(s) \cup {x} PROVE y \in ToSet(t)
      OBVIOUS
    <3>1. y = x \/ \E k \in 1..Len(s) : y = s[k]
      BY <1>1 DEF ToSet
    <3>2. 1 \in 1..n /\ \A k \in 1..Len(s) : k+1 \in 1..n
      BY <1>1, <2>1, <2>3
    <3>3. PICK k \in 1..n : all[k] = y
      BY <2>1, <3>1, <3>2
    <3>. HIDE DEF n, t
    <3>4. t[k] = y /\ k \in DOMAIN t
      BY <2>4, <3>3
    <3>. QED
      BY <3>4 DEF ToSet
  <2>10. Len(s) = CallsPerRemote => n = CallsPerRemote
    BY <1>1, <2>1
  <2>. HIDE DEF n, t
  <2>11. ToSet(t) \subseteq ToSet(s) \cup {x}
    BY <2>4, <2>7 DEF ToSet
  <2>. QED
    BY <2>2, <2>3, <2>4, <2>6, <2>8, <2>9, <2>10, <2>11 DEF RowsOK
<1>. QED
  BY <1>2, <1>3

LEMMA ShowFold == \A base, s : FoldLeft(Show, base, s) = F!Fold(base, s)
BY DEF F!Fold, FoldLeft, F!FoldLeft, MapThenFoldSet, F!MapThenFoldSet, Max, F!Max

\* A batch is shown call by call.
LEMMA ShownBatch ==
    ASSUME NEW s, RowsOK(s), NEW batch \in Seq(Item), NEW t, t = FoldLeft(Show, s, batch)
    PROVE  /\ RowsOK(t)
           /\ ToSet(t) \subseteq ToSet(s) \cup ToSet(batch)
           /\ Len(t) = CallsPerRemote \/ ToSet(s) \cup ToSet(batch) \subseteq ToSet(t)
           /\ Len(s) = CallsPerRemote => Len(t) = CallsPerRemote
<1>. DEFINE n == Len(batch)
            Good(w, k) ==
              /\ RowsOK(w)
              /\ \A x \in ToSet(w) : x \in ToSet(s) \/ \E j \in 1..k : x = batch[j]
              /\ \/ Len(w) = CallsPerRemote
                 \/ /\ \A x \in ToSet(s) : x \in ToSet(w)
                    /\ \A j \in 1..k : batch[j] \in ToSet(w)
              /\ Len(s) = CallsPerRemote => Len(w) = CallsPerRemote
<1>1. n \in Nat /\ \A k \in 1..n : batch[k] \in Item
  OBVIOUS
<1>2. PICK v : /\ v[0] = s
               /\ \A k \in 1..n : v[k] = Show(v[k-1], batch[k])
               /\ F!Fold(s, batch) = v[n]
  BY F!FoldSteps
<1>. DEFINE K == {k \in 0..n : Good(v[k], k)}
<1>3. 0 \in K
  BY <1>1, <1>2
<1>4. ASSUME NEW k \in 1..n, k-1 \in K PROVE k \in K
  <2>1. /\ RowsOK(v[k-1]) /\ batch[k] \in Item /\ v[k] = Show(v[k-1], batch[k])
        /\ Good(v[k-1], k-1)
    BY <1>1, <1>2, <1>4
  <2>2. /\ RowsOK(v[k])
        /\ ToSet(v[k]) \subseteq ToSet(v[k-1]) \cup {batch[k]}
        /\ Len(v[k]) = CallsPerRemote \/ ToSet(v[k-1]) \cup {batch[k]} \subseteq ToSet(v[k])
        /\ Len(v[k-1]) = CallsPerRemote => Len(v[k]) = CallsPerRemote
    BY <2>1, ShownRow
  <2>3. \A j \in 1..k : j \in 1..k-1 \/ j = k
    BY <1>1
  <2>4. 1..k-1 \subseteq 1..k /\ k \in 1..k
    BY <1>1
  <2>5. \A x \in ToSet(v[k]) : x \in ToSet(s) \/ \E j \in 1..k : x = batch[j]
    BY <2>1, <2>2, <2>4
  <2>6. \/ Len(v[k]) = CallsPerRemote
        \/ /\ \A x \in ToSet(s) : x \in ToSet(v[k])
           /\ \A j \in 1..k : batch[j] \in ToSet(v[k])
    BY <2>1, <2>2, <2>3
  <2>7. Len(s) = CallsPerRemote => Len(v[k]) = CallsPerRemote
    BY <2>1, <2>2
  <2>8. k \in 0..n
    BY <1>1
  <2>. QED
    BY <2>2, <2>5, <2>6, <2>7, <2>8
<1>5. n \in K
  <2>. HIDE DEF K
  <2>1. 0..n \subseteq K
    BY <1>1, <1>3, <1>4, F!UpTo
  <2>. QED
    BY <1>1, <2>1
<1>6. t = v[n]
  BY <1>2, ShowFold
<1>7. Good(t, n)
  BY <1>5, <1>6
<1>8. ToSet(batch) = {batch[j] : j \in 1..n}
  BY DEF ToSet
<1>. HIDE DEF n
<1>. QED
  BY <1>7, <1>8

LEMMA InitBounded == Init => Bounded
<1>1. \A c \in Channels : Len(Quiet[c]) = 0 /\ ChannelCap[c] \in Nat
  BY ControlFeedAssumption DEF Quiet
<1>2. RowsOK(<<>>)
  BY ControlFeedAssumption DEF RowsOK, Once
<1>3. {} \subseteq Item /\ {} \subseteq Ids
  OBVIOUS
<1>. SUFFICES ASSUME Init PROVE Bounded
  OBVIOUS
<1>4. feed = Quiet /\ rows = <<>>
  BY DEF Init
<1>5. (\A c \in Channels : Len(feed[c]) <= ChannelCap[c]) /\ RowsOK(rows)
  BY <1>1, <1>2, <1>4
<1>. QED
  BY <1>3, <1>5 DEF Init, Bounded

\* The contents of a sequence of a type.
LEMMA Contents == \A T : \A s \in Seq(T) : ToSet(s) \subseteq T
BY DEF ToSet

LEMMA UnderWayTyped == Typed => UnderWay \subseteq Item
<1>. SUFFICES ASSUME Typed PROVE UnderWay \subseteq Item
  OBVIOUS
<1>1. ToSet(feed["remotes"]) \subseteq Item
  BY Contents DEF Typed, FeedOK
<1>. QED
  BY <1>1 DEF Typed, UnderWay

\* A batch that the window hears.
LEMMA HeardBatch ==
    ASSUME IInv, NEW type \in {"log", "remotes"}, Hears(type)
    PROVE  Head(wire).batch \in Seq(Item) /\ Head(wire).type = type
<1>1. Head(wire) \in ToWindow /\ Head(wire).type = type
  BY DEF Hears, IInv, Typed
<1>. QED
  BY <1>1 DEF ToWindow

\* What a step may do to the channels.
LEMMA BoundedFeed ==
    ASSUME IInv, Bounded, NEW c \in Channels,
           \/ \E m \in Payload : Publish(c, m)
           \/ feed[c] # <<>> /\ feed' = [feed EXCEPT ![c] = Tail(@)] /\ lost' = lost
    PROVE  (\A d \in Channels : Len(feed'[d]) <= ChannelCap[d]) /\ lost' \subseteq Channels
<1>1. FeedOK /\ (\A d \in Channels : Len(feed[d]) <= ChannelCap[d]) /\ lost \subseteq Channels
  BY DEF IInv, Typed, Bounded
<1>2. CASE \E m \in Payload : Publish(c, m)
  <2>1. PICK m \in Payload : Publish(c, m)
    BY <1>2
  <2>2. /\ \A d \in Channels : d # c => feed'[d] = feed[d]
        /\ Len(feed'[c]) <= ChannelCap[c] /\ lost' \subseteq lost \cup {c}
    BY <1>1, <2>1, Publishing
  <2>. QED
    BY <1>1, <2>2
<1>3. CASE feed[c] # <<>> /\ feed' = [feed EXCEPT ![c] = Tail(@)] /\ lost' = lost
  <2>1. feed[c] \in Seq(Payload) /\ ChannelCap[c] \in Nat
    BY <1>1, FeedSeqs, ControlFeedAssumption
  <2>2. Len(Tail(feed[c])) = Len(feed[c]) - 1 /\ Len(feed[c]) \in Nat
    BY <1>3, <2>1
  <2>3. Len(Tail(feed[c])) <= ChannelCap[c]
    BY <1>1, <2>1, <2>2
  <2>. QED
    BY <1>1, <1>3, <2>3 DEF FeedOK
<1>. QED
  BY <1>2, <1>3

LEMMA BoundedStep == IInv /\ Bounded /\ Next => Bounded'
<1>. USE DEF sessionVars, relayVars, channelVars, runVars, viewVars, counters
<1>1. ASSUME IInv, Bounded, NEW i \in Ids, Join(i) \/ Announce(i) \/ Leave(i) \/ Retract(i)
      PROVE  Bounded'
  <2>1. CASE Join(i) \/ Leave(i)
    BY <1>1, <2>1 DEF Join, Leave, Bounded
  <2>2. CASE Announce(i) \/ Retract(i)
    <3>1. i \in Payload /\ {"added", "removed"} \subseteq Channels
      BY DEF Payload, Channels
    <3>2. (\A d \in Channels : Len(feed'[d]) <= ChannelCap[d]) /\ lost' \subseteq Channels
      BY <1>1, <2>2, <3>1, BoundedFeed DEF Announce, Retract
    <3>. QED
      BY <1>1, <2>2, <3>2 DEF Announce, Retract, Bounded
  <2>. QED
    BY <1>1, <2>1, <2>2
<1>2. ASSUME IInv, Bounded, History PROVE Bounded'
  <2>1. ASSUME NEW k \in {"log", "remotes"}, NEW i \in Ids, Capture(k, i) PROVE Bounded'
    BY <1>2, <2>1 DEF Capture, Bounded
  <2>2. CASE Relay
    <3>1. PICK m \in capturing : Publish(m.type, m.call)
      BY <2>2 DEF Relay
    <3>2. m.call \in Payload /\ m.type \in Channels
      BY <1>2, <3>1 DEF IInv, Typed, Payload, Channels
    <3>3. (\A d \in Channels : Len(feed'[d]) <= ChannelCap[d]) /\ lost' \subseteq Channels
      BY <1>2, <3>1, <3>2, BoundedFeed
    <3>. QED
      BY <1>2, <2>2, <3>3 DEF Relay, Bounded
  <2>3. CASE ClearElsewhere
    BY <1>2, <2>3, UnderWayTyped DEF ClearElsewhere, Clear, Bounded, IInv
  <2>4. ASSUME NEW who, TellCleared(who) PROVE Bounded'
    <3>1. NoId \in Payload /\ "cleared" \in Channels
      BY DEF Payload, Channels
    <3>2. (\A d \in Channels : Len(feed'[d]) <= ChannelCap[d]) /\ lost' \subseteq Channels
      BY <1>2, <2>4, <3>1, BoundedFeed DEF TellCleared
    <3>. QED
      BY <1>2, <2>4, <3>2 DEF TellCleared, Bounded
  <2>. QED
    BY <1>2, <2>1, <2>2, <2>3, <2>4 DEF History
<1>3. ASSUME IInv, Bounded, Forwards PROVE Bounded'
  <2>1. ASSUME NEW c \in Channels, Forward(c) PROVE Bounded'
    <3>1. (\A d \in Channels : Len(feed'[d]) <= ChannelCap[d]) /\ lost' \subseteq Channels
      BY <1>3, <2>1, BoundedFeed DEF Forward
    <3>2. ToSet(history["remotes"]) \subseteq Item
      BY <1>3, Contents DEF IInv, Typed
    <3>. QED
      BY <1>3, <2>1, <3>1, <3>2 DEF Forward, Bounded
  <2>2. ASSUME NEW r \in results, ForwardResult(r) PROVE Bounded'
    BY <1>3, <2>2 DEF ForwardResult, Bounded
  <2>. QED
    BY <1>3, <2>1, <2>2 DEF Forwards
<1>4. ASSUME IInv, Bounded, Serve PROVE Bounded'
  <2>1. CASE ServeList \/ ServeRun \/ \E k \in {"log", "remotes"} : ServeHistory(k)
    BY <1>4, <2>1 DEF ServeList, ServeRun, ServeHistory, Asks, Bounded
  <2>2. CASE ServeClear
    BY <1>4, <2>2, UnderWayTyped DEF ServeClear, Clear, Asks, Bounded, IInv
  <2>3. CASE ServeSecurity
    BY <1>4, <2>3 DEF ServeSecurity, Asks, Bounded, IInv, Typed
  <2>. QED
    BY <1>4, <2>1, <2>2, <2>3 DEF Serve
<1>5. ASSUME IInv, Bounded, Hear PROVE Bounded'
  <2>1. CASE OnNewSession \/ OnRemoveSession \/ OnSessions
    <3>1. lines' \subseteq lines /\ UNCHANGED <<world, up, pulled, relayVars, channelVars, rows, masked>>
      BY <2>1 DEF OnNewSession, OnRemoveSession, OnSessions, Adopt
    <3>. QED
      BY <1>5, <3>1 DEF Bounded
  <2>2. CASE OnSessionLog
    <3>1. ToSet(Head(wire).batch) \subseteq Item
      BY <1>5, <2>2, HeardBatch, Contents DEF OnSessionLog
    <3>. QED
      BY <1>5, <2>2, <3>1 DEF OnSessionLog, Bounded
  <2>3. CASE OnSessionRemotes
    <3>1. RowsOK(rows')
      BY <1>5, <2>3, HeardBatch, ShownBatch DEF OnSessionRemotes, Bounded
    <3>. QED
      BY <1>5, <2>3, <3>1 DEF OnSessionRemotes, Bounded
  <2>4. CASE OnRemotesCleared
    <3>1. RowsOK(<<>>)
      BY ControlFeedAssumption DEF RowsOK, Once
    <3>. QED
      BY <1>5, <2>4, <3>1 DEF OnRemotesCleared, Bounded
  <2>5. CASE OnRunResult
    BY <1>5, <2>5 DEF OnRunResult, Bounded
  <2>. QED
    BY <1>5, <2>1, <2>2, <2>3, <2>4, <2>5 DEF Hear
<1>6. ASSUME Bounded, User PROVE Bounded'
  BY <1>6 DEF User, SetTarget, ClearRemotes, RunCode, Bounded
<1>7. ASSUME Bounded, \E run \in tasks : Answered(run) \/ Dropped(run) PROVE Bounded'
  BY <1>7 DEF Answered, Dropped, Finish, Bounded
<1>8. ASSUME Bounded, Connect PROVE Bounded'
  BY <1>8 DEF Connect, Bounded
<1>9. ASSUME Bounded, Disconnect PROVE Bounded'
  <2>1. RowsOK(<<>>) /\ \A c \in Channels : Len(Quiet[c]) <= ChannelCap[c]
    BY ControlFeedAssumption DEF RowsOK, Once, Quiet
  <2>. QED
    BY <1>9, <2>1 DEF Disconnect, Bounded
<1>. QED
  BY <1>1, <1>2, <1>3, <1>4, <1>5, <1>6, <1>7, <1>8, <1>9 DEF Next, Membership

LEMMA BoundedInvariance == Spec => [](IInv /\ Bounded)
<1>1. Bounded /\ UNCHANGED vars => Bounded'
  BY DEF vars, sessionVars, relayVars, channelVars, viewVars, Bounded
<1>2. IInv /\ Bounded /\ [Next]_vars => Bounded'
  BY <1>1, BoundedStep
<1>. QED
  BY <1>2, InitInv, InitBounded, StepInv, PTL DEF Spec

\* mod.rs and sessions.ts: whatever is sent, lost and asked for again, what the socket and
\* the registries hold is of the kind that its handlers read, and no channel holds more
\* than its places.
THEOREM TypeCorrect == Spec => []TypeOK
<1>1. IInv /\ Bounded => TypeOK
  BY DEF IInv, Typed, FeedOK, Bounded, RowsOK, TypeOK, Phases
<1>. QED
  BY <1>1, BoundedInvariance, PTL

(***************************************************************************)
(* The window's sessions.                                                  *)
(***************************************************************************)
\* A window that is not connected has forgotten everything, and nothing is under way to it.
DownIsEmpty ==
    ~ up => /\ registry = {} /\ feed = Quiet /\ inbox = <<>> /\ wire = <<>>
            /\ rows = <<>> /\ lines = {}

\* The window has asked for the sessions, or will when it hears what is under way.
Listing == \E k \in 1..Len(inbox) : inbox[k].type = "list"
AddedOnWire == \E k \in 1..Len(wire) : wire[k].type = "added"
ListAhead == Listing \/ AddedOnWire \/ feed["added"] # <<>>

\* A message under way brings session i; one takes it, and none brings it after that.
OnWire(i) == \E k \in 1..Len(wire) : Brings(wire[k], i)
Taken(i) ==
    \E k \in 1..Len(wire) : /\ Takes(wire[k], i) \/ Lacks(wire[k], i)
                            /\ \A m \in k+1..Len(wire) : ~ Brings(wire[m], i)

\* A session that is there is known, or will be.
Coming ==
    up => \A i \in Ids : phase[i] = "live" => ListAhead \/ i \in registry \/ OnWire(i)

\* A session that has gone, and is known or will be, will be forgotten.
Going ==
    up /\ "removed" \notin lost =>
        \A i \in Ids : phase[i] = "gone" /\ (i \in registry \/ OnWire(i)) =>
            ListAhead \/ Taken(i) \/ i \in ToSet(feed["removed"])

ListInv == Coming /\ Going

LEMMA AppendFacts ==
    ASSUME NEW T, NEW s \in Seq(T), NEW m \in T, NEW t, t = Append(s, m)
    PROVE  /\ t \in Seq(T) /\ Len(s) \in Nat /\ Len(t) = Len(s) + 1 /\ t[Len(s) + 1] = m
           /\ \A k \in 1..Len(s) : t[k] = s[k]
           /\ \A k \in 1..Len(t) : k \in 1..Len(s) \/ k = Len(s) + 1
OBVIOUS

LEMMA TailFacts ==
    ASSUME NEW T, NEW s \in Seq(T), s # <<>>, NEW t, t = Tail(s)
    PROVE  /\ t \in Seq(T) /\ Len(t) \in Nat /\ Len(s) = Len(t) + 1 /\ Head(s) = s[1]
           /\ \A k \in 1..Len(t) : t[k] = s[k+1]
           /\ \A k \in 1..Len(s) : k = 1 \/ k-1 \in 1..Len(t)
           /\ Head(s) \in T
OBVIOUS

LEMMA HeadOrTail ==
    ASSUME NEW T, NEW s \in Seq(T), s # <<>>
    PROVE  /\ Head(s) \in T /\ Head(s) \in ToSet(s) /\ ToSet(Tail(s)) \subseteq ToSet(s)
           /\ \A x \in ToSet(s) : x = Head(s) \/ x \in ToSet(Tail(s))
<1>. DEFINE t == Tail(s)
<1>1. /\ t \in Seq(T) /\ Len(t) \in Nat /\ Len(s) = Len(t) + 1 /\ Head(s) = s[1]
      /\ \A k \in 1..Len(t) : t[k] = s[k+1]
      /\ \A k \in 1..Len(s) : k = 1 \/ k-1 \in 1..Len(t)
      /\ Head(s) \in T
  BY TailFacts
<1>. HIDE DEF t
<1>2. /\ 1 \in 1..Len(s) /\ \A k \in 1..Len(t) : k+1 \in 1..Len(s)
      /\ \A k \in 1..Len(s) : k # 1 => t[k-1] = s[k]
  BY <1>1
<1>3. ToSet(s) = {s[k] : k \in 1..Len(s)} /\ ToSet(t) = {t[k] : k \in 1..Len(t)}
  BY <1>1 DEF ToSet
<1>. QED
  BY <1>1, <1>2, <1>3 DEF t

LEMMA WireGrows ==
    ASSUME wire \in Seq(ToWindow), NEW m \in ToWindow, wire' = Append(wire, m)
    PROVE  /\ \A i : OnWire(i)' <=> OnWire(i) \/ Brings(m, i)
           /\ \A i : Takes(m, i) \/ Lacks(m, i) \/ (Taken(i) /\ ~ Brings(m, i)) => Taken(i)'
           /\ AddedOnWire \/ m.type = "added" => AddedOnWire'
<1>1. /\ Len(wire) \in Nat /\ Len(wire') = Len(wire) + 1 /\ wire'[Len(wire) + 1] = m
      /\ \A k \in 1..Len(wire) : wire'[k] = wire[k]
      /\ \A k \in 1..Len(wire') : k \in 1..Len(wire) \/ k = Len(wire) + 1
  BY AppendFacts
<1>2. \A k \in 1..Len(wire) : k \in 1..Len(wire')
  BY <1>1
<1>3. Len(wire) + 1 \in 1..Len(wire')
  BY <1>1
<1>4. \A i : OnWire(i)' <=> OnWire(i) \/ Brings(m, i)
  BY <1>1, <1>2, <1>3 DEF OnWire
<1>5. ASSUME NEW i, Takes(m, i) \/ Lacks(m, i) PROVE Taken(i)'
  <2>1. \A k \in (Len(wire) + 1) + 1..Len(wire') : FALSE
    BY <1>1
  <2>. QED
    BY <1>1, <1>3, <1>5, <2>1 DEF Taken
<1>6. ASSUME NEW i, Taken(i), ~ Brings(m, i) PROVE Taken(i)'
  <2>1. PICK k \in 1..Len(wire) : /\ Takes(wire[k], i) \/ Lacks(wire[k], i)
                                  /\ \A l \in k+1..Len(wire) : ~ Brings(wire[l], i)
    BY <1>6 DEF Taken
  <2>2. \A l \in k+1..Len(wire') : l \in k+1..Len(wire) \/ l = Len(wire) + 1
    BY <1>1
  <2>3. \A l \in k+1..Len(wire) : wire'[l] = wire[l]
    BY <1>1
  <2>4. \A l \in k+1..Len(wire') : ~ Brings(wire'[l], i)
    BY <1>1, <1>6, <2>1, <2>2, <2>3
  <2>5. k \in 1..Len(wire') /\ wire'[k] = wire[k]
    BY <1>1, <1>2
  <2>. QED
    BY <2>1, <2>4, <2>5 DEF Taken
<1>7. AddedOnWire \/ m.type = "added" => AddedOnWire'
  BY <1>1, <1>2, <1>3 DEF AddedOnWire
<1>. QED
  BY <1>4, <1>5, <1>6, <1>7

LEMMA WireShrinks ==
    ASSUME wire \in Seq(ToWindow), wire # <<>>, wire' = Tail(wire)
    PROVE  /\ \A i : OnWire(i) <=> Brings(Head(wire), i) \/ OnWire(i)'
           /\ \A i : Taken(i) => \/ Taken(i)'
                                 \/ /\ Takes(Head(wire), i) \/ Lacks(Head(wire), i)
                                    /\ ~ OnWire(i)'
           /\ AddedOnWire => Head(wire).type = "added" \/ AddedOnWire'
<1>1. /\ Len(wire') \in Nat /\ Len(wire) = Len(wire') + 1 /\ Head(wire) = wire[1]
      /\ \A k \in 1..Len(wire') : wire'[k] = wire[k+1]
      /\ \A k \in 1..Len(wire) : k = 1 \/ k-1 \in 1..Len(wire')
  BY TailFacts
<1>2. /\ \A k \in 1..Len(wire') : k+1 \in 1..Len(wire)
      /\ 1 \in 1..Len(wire)
      /\ \A k \in 1..Len(wire) : k # 1 => wire'[k-1] = wire[k]
  BY <1>1
<1>3. \A i : OnWire(i) <=> Brings(Head(wire), i) \/ OnWire(i)'
  BY <1>1, <1>2 DEF OnWire
<1>4. ASSUME NEW i, Taken(i)
      PROVE  \/ Taken(i)'
             \/ (Takes(Head(wire), i) \/ Lacks(Head(wire), i)) /\ ~ OnWire(i)'
  <2>1. PICK k \in 1..Len(wire) : /\ Takes(wire[k], i) \/ Lacks(wire[k], i)
                                  /\ \A l \in k+1..Len(wire) : ~ Brings(wire[l], i)
    BY <1>4 DEF Taken
  <2>2. \A l \in k..Len(wire') : l \in Nat \ {0} => ~ Brings(wire'[l], i)
    <3>. SUFFICES ASSUME NEW l \in k..Len(wire'), l \in Nat \ {0} PROVE ~ Brings(wire'[l], i)
      OBVIOUS
    <3>1. l+1 \in k+1..Len(wire) /\ wire'[l] = wire[l+1]
      BY <1>1
    <3>. QED
      BY <2>1, <3>1
  <2>3. CASE k = 1
    BY <1>1, <2>1, <2>2, <2>3 DEF OnWire
  <2>4. CASE k # 1
    <3>1. k-1 \in 1..Len(wire') /\ wire'[k-1] = wire[k] /\ (k-1)+1 = k
      BY <1>1, <1>2, <2>4
    <3>2. \A l \in (k-1)+1..Len(wire') : ~ Brings(wire'[l], i)
      BY <2>2, <3>1
    <3>. QED
      BY <2>1, <3>1, <3>2 DEF Taken
  <2>. QED
    BY <2>3, <2>4
<1>5. AddedOnWire => Head(wire).type = "added" \/ AddedOnWire'
  BY <1>1, <1>2 DEF AddedOnWire
<1>. QED
  BY <1>3, <1>4, <1>5

LEMMA InboxChanges ==
    ASSUME inbox \in Seq(ToBroker)
    PROVE  /\ inbox # <<>> /\ inbox' = Tail(inbox) /\ Head(inbox).type # "list"
                => (Listing => Listing')
           /\ \A more \in Seq(ToBroker) :
                /\ inbox' = inbox \o more
                /\ Listing \/ \E k \in 1..Len(more) : more[k].type = "list"
                => Listing'
<1>1. ASSUME inbox # <<>>, inbox' = Tail(inbox), Head(inbox).type # "list", Listing
      PROVE  Listing'
  <2>1. PICK k \in 1..Len(inbox) : inbox[k].type = "list"
    BY <1>1 DEF Listing
  <2>2. k # 1 => k-1 \in 1..Len(inbox') /\ inbox'[k-1] = inbox[k]
    BY <1>1
  <2>3. k # 1
    BY <1>1, <2>1
  <2>. QED
    BY <2>1, <2>2, <2>3 DEF Listing
<1>2. ASSUME NEW more \in Seq(ToBroker), inbox' = inbox \o more,
             Listing \/ \E k \in 1..Len(more) : more[k].type = "list"
      PROVE  Listing'
  <2>1. /\ \A k \in 1..Len(inbox) : k \in 1..Len(inbox') /\ inbox'[k] = inbox[k]
        /\ \A k \in 1..Len(more) : /\ Len(inbox) + k \in 1..Len(inbox')
                                   /\ inbox'[Len(inbox) + k] = more[k]
    BY <1>2
  <2>. QED
    BY <1>2, <2>1 DEF Listing
<1>. QED
  BY <1>1, <1>2

\* A message that says nothing of which sessions there are.
Plain(m) == m.type \notin {"added", "removed", "sessions"}

\* Steps that leave the sessions, and what the window hears of them, alone.
LEMMA ListElsewhere ==
    ASSUME IInv, ListInv, UNCHANGED <<registry, up>>,
           \A i \in Ids : phase'[i] \in {"live", "gone"} => phase'[i] = phase[i],
           feed'["added"] = feed["added"], feed'["removed"] = feed["removed"],
           lost \subseteq lost',
           \/ UNCHANGED wire
           \/ \E m \in ToWindow : Plain(m) /\ wire' = Append(wire, m)
           \/ wire # <<>> /\ Plain(Head(wire)) /\ wire' = Tail(wire),
           \/ UNCHANGED inbox
           \/ inbox # <<>> /\ inbox' = Tail(inbox) /\ Head(inbox).type # "list"
           \/ \E more \in Seq(ToBroker) : inbox' = inbox \o more
    PROVE  ListInv'
<1>1. inbox \in Seq(ToBroker) /\ wire \in Seq(ToWindow)
  BY DEF IInv, Typed
<1>2. Listing => Listing'
  <2>1. CASE UNCHANGED inbox
    BY <2>1 DEF Listing
  <2>. QED
    BY <1>1, <2>1, InboxChanges
<1>3. \A m : Plain(m) => m.type # "added" /\ \A i : ~ Brings(m, i) /\ ~ Takes(m, i) /\ ~ Lacks(m, i)
  BY DEF Plain, Brings, Takes, Lacks
<1>4. /\ AddedOnWire => AddedOnWire'
      /\ \A i : OnWire(i)' <=> OnWire(i)
      /\ \A i : Taken(i) => Taken(i)'
  <2>1. CASE UNCHANGED wire
    BY <2>1 DEF AddedOnWire, OnWire, Taken
  <2>2. CASE \E m \in ToWindow : Plain(m) /\ wire' = Append(wire, m)
    <3>1. PICK m \in ToWindow : Plain(m) /\ wire' = Append(wire, m)
      BY <2>2
    <3>. QED
      BY <1>1, <1>3, <3>1, WireGrows
  <2>3. CASE wire # <<>> /\ Plain(Head(wire)) /\ wire' = Tail(wire)
    BY <1>1, <1>3, <2>3, WireShrinks
  <2>. QED
    BY <2>1, <2>2, <2>3
<1>5. ListAhead => ListAhead'
  BY <1>2, <1>4 DEF ListAhead
<1>6. Coming'
  BY <1>4, <1>5 DEF ListInv, Coming
<1>7. Going'
  BY <1>4, <1>5 DEF ListInv, Going
<1>. QED
  BY <1>6, <1>7 DEF ListInv

LEMMA DownStep == IInv /\ DownIsEmpty /\ Next => DownIsEmpty'
<1>. USE DEF sessionVars, relayVars, channelVars, runVars, viewVars, counters
<1>. SUFFICES ASSUME IInv, DownIsEmpty, Next, ~ up' PROVE DownIsEmpty'
  BY DEF DownIsEmpty
<1>1. CASE Disconnect
  BY <1>1 DEF Disconnect, DownIsEmpty
<1>2. CASE ~ Disconnect
  <2>1. ~ up
    BY <1>2 DEF Next, Membership, Join, Announce, Leave, Retract, History, Capture, Relay,
       ClearElsewhere, TellCleared, Forwards, Forward, ForwardResult, Serve, ServeList,
       ServeHistory, ServeClear, ServeSecurity, ServeRun, Asks, Hear, OnNewSession,
       OnRemoveSession, OnSessions, OnSessionLog, OnSessionRemotes, OnRemotesCleared,
       OnRunResult, Hears, User, SetTarget, ClearRemotes, RunCode, Answered, Dropped, Finish,
       Connect
  <2>2. registry = {} /\ feed = Quiet /\ inbox = <<>> /\ wire = <<>> /\ rows = <<>> /\ lines = {}
    BY <2>1 DEF DownIsEmpty
  <2>3. \/ Membership \/ History \/ (\E i \in Ids : SetTarget(i))
        \/ \E run \in tasks : Answered(run) \/ Dropped(run)
    BY <1>2, <2>1 DEF Next, Forwards, Forward, ForwardResult, Serve, ServeList,
       ServeHistory, ServeClear, ServeSecurity, ServeRun, Asks, Free, Hear, OnNewSession,
       OnRemoveSession, OnSessions, OnSessionLog, OnSessionRemotes, OnRemotesCleared,
       OnRunResult, Hears, User, ClearRemotes, RunCode, Connect
  <2>4. feed' = feed /\ UNCHANGED <<registry, inbox, wire, rows, lines>>
    BY <2>1, <2>3 DEF Membership, Join, Announce, Leave, Retract, History, Capture, Relay,
       ClearElsewhere, TellCleared, Publish, SetTarget, Answered, Dropped, Finish
  <2>. QED
    BY <2>2, <2>4 DEF DownIsEmpty
<1>. QED
  BY <1>1, <1>2

\* A list is asked for, or will be.
LEMMA AheadSuffices == ListAhead' \/ ~ up' => ListInv'
BY DEF ListInv, Coming, Going

LEMMA ListMembership == IInv /\ ListInv /\ Membership => ListInv'
<1>. USE DEF relayVars, channelVars, runVars, viewVars, counters
<1>. SUFFICES ASSUME IInv, ListInv, NEW i \in Ids, Join(i) \/ Announce(i) \/ Leave(i) \/ Retract(i)
              PROVE  ListInv'
  BY DEF Membership
<1>1. phase \in [Ids -> Phases] /\ FeedOK
  BY DEF IInv, Typed
<1>2. CASE Join(i) \/ Leave(i)
  <2>1. \A j \in Ids : phase'[j] \in {"live", "gone"} => phase'[j] = phase[j]
    BY <1>1, <1>2 DEF Join, Leave
  <2>. QED
    BY <1>2, <2>1, ListElsewhere DEF Join, Leave
<1>3. CASE Announce(i)
  <2>1. Publish("added", i) /\ "added" \in Channels /\ i \in Payload /\ UNCHANGED up
    BY <1>3 DEF Announce, Channels, Payload
  <2>2. up => feed'["added"] # <<>>
    BY <1>1, <2>1, Publishing
  <2>. QED
    BY <2>1, <2>2, AheadSuffices DEF ListAhead
<1>4. CASE Retract(i)
  <2>1. /\ Publish("removed", i) /\ "removed" \in Channels /\ "added" \in Channels
        /\ i \in Payload /\ UNCHANGED <<up, wire, inbox, registry>>
    BY <1>4 DEF Retract, Channels, Payload
  <2>2. /\ feed'["added"] = feed["added"] /\ lost \subseteq lost'
        /\ up => i \in ToSet(feed'["removed"])
        /\ "removed" \notin lost' => ToSet(feed["removed"]) \subseteq ToSet(feed'["removed"])
    BY <1>1, <2>1, Publishing
  <2>3. \A j \in Ids : j # i => phase'[j] = phase[j]
    BY <1>1, <1>4 DEF Retract
  <2>4. phase'[i] = "gone"
    BY <1>1, <1>4 DEF Retract
  <2>5. ListAhead => ListAhead'
    BY <2>1, <2>2 DEF ListAhead, Listing, AddedOnWire
  <2>6. \A j : (OnWire(j)' <=> OnWire(j)) /\ (Taken(j) => Taken(j)')
    BY <2>1 DEF OnWire, Taken
  <2>7. Coming'
    BY <2>1, <2>3, <2>4, <2>5, <2>6 DEF ListInv, Coming
  <2>8. Going'
    BY <2>1, <2>2, <2>3, <2>4, <2>5, <2>6 DEF ListInv, Going
  <2>. QED
    BY <2>7, <2>8 DEF ListInv
<1>. QED
  BY <1>2, <1>3, <1>4

LEMMA ListHistory == IInv /\ ListInv /\ History => ListInv'
<1>. USE DEF sessionVars, channelVars, runVars, viewVars, counters
<1>. SUFFICES ASSUME IInv, ListInv, History PROVE ListInv'
  OBVIOUS
<1>1. FeedOK /\ {"added", "removed", "log", "remotes", "cleared"} \subseteq Channels
  BY DEF IInv, Typed, Channels
<1>2. /\ UNCHANGED <<registry, up, phase, wire, inbox>> /\ lost \subseteq lost'
      /\ feed'["added"] = feed["added"] /\ feed'["removed"] = feed["removed"]
  <2>1. ASSUME NEW k \in {"log", "remotes"}, NEW i \in Ids, Capture(k, i) PROVE <1>2!:
    BY <2>1 DEF Capture
  <2>2. CASE Relay
    <3>1. PICK m \in capturing : Publish(m.type, m.call)
      BY <2>2 DEF Relay
    <3>2. m.call \in Payload /\ m.type \in {"log", "remotes"}
      BY <3>1 DEF IInv, Typed, Payload
    <3>. QED
      BY <1>1, <2>2, <3>1, <3>2, Publishing DEF Relay
  <2>3. CASE ClearElsewhere
    BY <2>3 DEF ClearElsewhere
  <2>4. ASSUME NEW who, TellCleared(who) PROVE <1>2!:
    <3>1. NoId \in Payload
      BY DEF Payload
    <3>. QED
      BY <1>1, <2>4, <3>1, Publishing DEF TellCleared
  <2>. QED
    BY <2>1, <2>2, <2>3, <2>4 DEF History
<1>. QED
  BY <1>2, ListElsewhere

LEMMA ListForwards == IInv /\ ListInv /\ Forwards => ListInv'
<1>. USE DEF sessionVars, relayVars, channelVars, runVars, viewVars, counters
<1>. SUFFICES ASSUME IInv, ListInv, Forwards PROVE ListInv'
  OBVIOUS
<1>1. FeedOK /\ wire \in Seq(ToWindow)
  BY DEF IInv, Typed
<1>2. ASSUME NEW r \in results, ForwardResult(r) PROVE ListInv'
  <2>. DEFINE m == [type |-> "result", request |-> r]
  <2>1. m \in ToWindow /\ Plain(m) /\ wire' = Append(wire, m)
    BY <1>2, Messages DEF ForwardResult, Reply, IInv, Typed, Plain
  <2>2. UNCHANGED <<registry, up, phase, inbox, feed, lost>>
    BY <1>2 DEF ForwardResult
  <2>. HIDE DEF m
  <2>. QED
    BY <2>1, <2>2, ListElsewhere
<1>3. ASSUME Forward("added") PROVE ListInv'
  <2>. DEFINE m == [type |-> "added", id |-> Head(feed["added"])]
  <2>1. wire' = Append(wire, m) /\ Head(feed["added"]) \in Ids
    BY <1>1, <1>3 DEF Forward, Reply, FeedOK
  <2>2. m \in ToWindow /\ m.type = "added"
    BY <2>1, Messages
  <2>. HIDE DEF m
  <2>. QED
    BY <1>1, <2>1, <2>2, WireGrows, AheadSuffices DEF ListAhead
<1>4. ASSUME Forward("removed") PROVE ListInv'
  <2>0. PICK h : h = Head(feed["removed"])
    OBVIOUS
  <2>. DEFINE m == [type |-> "removed", id |-> h]
  <2>1. /\ wire' = Append(wire, m) /\ feed["removed"] # <<>>
        /\ feed' = [feed EXCEPT !["removed"] = Tail(@)]
        /\ UNCHANGED <<phase, registry, up, inbox, lost>>
    BY <1>4, <2>0 DEF Forward, Reply
  <2>2. h \in Ids /\ \A x \in ToSet(feed["removed"]) : x = h \/ x \in ToSet(feed'["removed"])
    <3>1. feed["removed"] \in Seq(Ids) /\ feed'["removed"] = Tail(feed["removed"])
      BY <1>1, <2>1 DEF FeedOK, Channels
    <3>. QED
      BY <2>0, <2>1, <3>1, HeadOrTail
  <2>3. feed'["added"] = feed["added"]
    BY <1>1, <2>1 DEF FeedOK
  <2>4. m \in ToWindow /\ Takes(m, h) /\ \A i : ~ Brings(m, i)
    BY <2>2, Messages DEF Takes, Brings
  <2>. HIDE DEF m
  <2>5. /\ \A i : OnWire(i)' <=> OnWire(i)
        /\ \A i : Taken(i) => Taken(i)'
        /\ Taken(h)' /\ (AddedOnWire => AddedOnWire')
    <3>1. /\ \A i : OnWire(i)' <=> OnWire(i) \/ Brings(m, i)
          /\ \A i : Takes(m, i) \/ Lacks(m, i) \/ (Taken(i) /\ ~ Brings(m, i)) => Taken(i)'
          /\ AddedOnWire \/ m.type = "added" => AddedOnWire'
      BY <1>1, <2>1, <2>4, WireGrows
    <3>. QED
      BY <2>4, <3>1
  <2>6. ListAhead => ListAhead'
    BY <2>1, <2>3, <2>5 DEF ListAhead, Listing
  <2>7. Coming'
    BY <2>1, <2>5, <2>6 DEF ListInv, Coming
  <2>8. Going'
    BY <2>1, <2>2, <2>5, <2>6 DEF ListInv, Going
  <2>. QED
    BY <2>7, <2>8 DEF ListInv
<1>5. ASSUME NEW c \in {"log", "remotes", "cleared"}, Forward(c) PROVE ListInv'
  <2>1. PICK m : wire' = Append(wire, m) /\ m \in ToWindow /\ m.type = c
    <3>1. CASE c = "cleared"
      BY <1>5, <3>1, Messages DEF Forward, Reply
    <3>2. CASE c # "cleared"
      <4>1. <<Head(feed[c])>> \in Seq(Item)
        BY <1>1, <1>5, <3>2 DEF Forward, FeedOK
      <4>2. [type |-> c, batch |-> <<Head(feed[c])>>] \in ToWindow
        BY <3>2, <4>1, Messages
      <4>. QED
        BY <1>5, <3>2, <4>2 DEF Forward, Reply
    <3>. QED
      BY <3>1, <3>2
  <2>2. /\ UNCHANGED <<phase, registry, up, inbox, lost>>
        /\ feed'["added"] = feed["added"] /\ feed'["removed"] = feed["removed"]
    BY <1>1, <1>5 DEF Forward, FeedOK
  <2>. QED
    BY <2>1, <2>2, ListElsewhere DEF Plain
<1>. QED
  BY <1>2, <1>3, <1>4, <1>5 DEF Forwards, Channels

LEMMA ListServe == IInv /\ ListInv /\ Serve => ListInv'
<1>. USE DEF sessionVars, relayVars, channelVars, runVars, viewVars, counters
<1>. SUFFICES ASSUME IInv, ListInv, Serve PROVE ListInv'
  OBVIOUS
<1>1. inbox \in Seq(ToBroker) /\ wire \in Seq(ToWindow) /\ phase \in [Ids -> Phases]
      /\ store = {i \in Ids : phase[i] \in {"stored", "live"}}
  BY DEF IInv, Typed
<1>2. CASE ServeList
  <2>. DEFINE m == [type |-> "sessions", list |-> store]
  <2>1. /\ wire' = Append(wire, m) /\ UNCHANGED <<phase, registry, up, feed, lost>>
    BY <1>2 DEF ServeList, Reply
  <2>2. m \in ToWindow /\ \A i : (Brings(m, i) <=> i \in store) /\ (Lacks(m, i) <=> i \notin store)
    BY <1>1, Messages DEF Brings, Lacks
  <2>. HIDE DEF m
  <2>3. \A i : (i \in store => OnWire(i)') /\ (i \notin store => Taken(i)')
    BY <1>1, <2>1, <2>2, WireGrows
  <2>4. Coming' /\ Going'
    BY <1>1, <2>1, <2>3 DEF Coming, Going
  <2>. QED
    BY <2>4 DEF ListInv
<1>3. CASE ~ ServeList
  <2>1. /\ UNCHANGED <<phase, registry, up, feed, lost>>
        /\ inbox # <<>> /\ inbox' = Tail(inbox) /\ Head(inbox).type # "list"
    BY <1>3 DEF Serve, ServeHistory, ServeClear, ServeSecurity, ServeRun, Asks
  <2>2. UNCHANGED wire \/ \E m \in ToWindow : Plain(m) /\ wire' = Append(wire, m)
    <3>1. ASSUME NEW k \in {"log", "remotes"}, ServeHistory(k) PROVE <2>2
      <4>1. [type |-> k, batch |-> history[k]] \in ToWindow
        BY Messages DEF IInv, Typed
      <4>2. Plain([type |-> k, batch |-> history[k]])
        BY DEF Plain
      <4>. QED
        BY <3>1, <4>1, <4>2 DEF ServeHistory, Reply
    <3>2. CASE ServeRun
      <4>1. Head(inbox) \in ToBroker /\ Head(inbox).type = "run"
        BY <1>1, <3>2 DEF ServeRun, Asks
      <4>2. Head(inbox).run.request \in 1..MaxRuns
        BY <4>1, Fields DEF Run
      <4>3. [type |-> "result", request |-> Head(inbox).run.request] \in ToWindow
        BY <4>2, Messages
      <4>4. Plain([type |-> "result", request |-> Head(inbox).run.request])
        BY DEF Plain
      <4>. QED
        BY <3>2, <4>3, <4>4 DEF ServeRun, Reply
    <3>3. CASE ServeClear \/ ServeSecurity
      BY <3>3 DEF ServeClear, ServeSecurity
    <3>. QED
      BY <1>3, <3>1, <3>2, <3>3 DEF Serve
  <2>. QED
    BY <2>1, <2>2, ListElsewhere
<1>. QED
  BY <1>2, <1>3

LEMMA ListHear == IInv /\ ListInv /\ Hear => ListInv'
<1>. USE DEF sessionVars, relayVars, channelVars, runVars, viewVars, counters
<1>. SUFFICES ASSUME IInv, ListInv, Hear PROVE ListInv'
  OBVIOUS
<1>. DEFINE Hd == Head(wire)
<1>1. inbox \in Seq(ToBroker) /\ wire \in Seq(ToWindow) /\ phase \in [Ids -> Phases]
      /\ store = {i \in Ids : phase[i] \in {"stored", "live"}} /\ registry \subseteq Ids
  BY DEF IInv, Typed
<1>2. /\ wire # <<>> /\ wire' = Tail(wire) /\ Hd \in ToWindow
      /\ UNCHANGED <<phase, up, feed, lost>>
  BY <1>1 DEF Hear, OnNewSession, OnRemoveSession, OnSessions, OnSessionLog, OnSessionRemotes,
     OnRemotesCleared, OnRunResult, Hears
<1>3. /\ \A i : OnWire(i) <=> Brings(Hd, i) \/ OnWire(i)'
      /\ \A i : Taken(i) => Taken(i)' \/ ((Takes(Hd, i) \/ Lacks(Hd, i)) /\ ~ OnWire(i)')
      /\ AddedOnWire => Hd.type = "added" \/ AddedOnWire'
  BY <1>1, <1>2, WireShrinks
<1>4. \A i \in store : ~ Takes(Hd, i) /\ (Lacks(Hd, i) => i \notin registry)
  <2>1. 1 \in 1..Len(wire) /\ Hd = wire[1]
    BY <1>1, <1>2
  <2>. QED
    BY <2>1 DEF IInv, Staying
<1>5. CASE OnNewSession
  <2>. DEFINE more == <<SetSecurity(Hd.id), ListSessions>>
  <2>1. inbox' = inbox \o more /\ Hd.type = "added"
    BY <1>5 DEF OnNewSession, Send, Hears
  <2>2. SetSecurity(Hd.id) \in ToBroker /\ ListSessions \in ToBroker
    BY <1>2, <2>1, Messages, Fields
  <2>3. more \in Seq(ToBroker) /\ 2 \in 1..Len(more) /\ more[2].type = "list"
    BY <2>2 DEF ListSessions
  <2>. HIDE DEF more
  <2>4. Listing'
    BY <1>1, <2>1, <2>3, InboxChanges
  <2>. QED
    BY <2>4, AheadSuffices DEF ListAhead
<1>6. CASE OnRemoveSession
  <2>1. Hd.type = "removed" /\ registry' = registry \ {Hd.id} /\ UNCHANGED inbox
    BY <1>6 DEF OnRemoveSession, Hears, Adopt
  <2>2. \A i : ~ Brings(Hd, i) /\ ~ Lacks(Hd, i) /\ (Takes(Hd, i) <=> i = Hd.id)
    BY <2>1 DEF Brings, Lacks, Takes
  <2>3. ListAhead => ListAhead'
    BY <1>2, <1>3, <2>1 DEF ListAhead, Listing
  <2>4. Coming'
    BY <1>1, <1>2, <1>3, <1>4, <2>1, <2>2, <2>3 DEF ListInv, Coming
  <2>5. Going'
    BY <1>2, <1>3, <2>1, <2>2, <2>3 DEF ListInv, Going
  <2>. QED
    BY <2>4, <2>5 DEF ListInv
<1>7. CASE OnSessions
  <2>1. Hd.type = "sessions" /\ registry' = Hd.list /\ UNCHANGED inbox
    BY <1>7 DEF OnSessions, Hears, Adopt
  <2>2. \A i : /\ ~ Takes(Hd, i) /\ (Brings(Hd, i) <=> i \in registry')
               /\ Lacks(Hd, i) <=> i \notin registry'
    BY <2>1 DEF Brings, Lacks, Takes
  <2>3. ListAhead => ListAhead'
    BY <1>2, <1>3, <2>1 DEF ListAhead, Listing
  <2>4. Coming'
    BY <1>1, <1>2, <1>3, <1>4, <2>2, <2>3 DEF ListInv, Coming
  <2>5. Going'
    BY <1>2, <1>3, <2>2, <2>3 DEF ListInv, Going
  <2>. QED
    BY <2>4, <2>5 DEF ListInv
<1>8. CASE OnSessionLog \/ OnSessionRemotes \/ OnRemotesCleared \/ OnRunResult
  <2>1. Plain(Hd) /\ UNCHANGED <<inbox, registry>>
    BY <1>8 DEF OnSessionLog, OnSessionRemotes, OnRemotesCleared, OnRunResult, Hears, Plain
  <2>. QED
    BY <1>2, <2>1, ListElsewhere
<1>. QED
  BY <1>5, <1>6, <1>7, <1>8 DEF Hear

LEMMA ListRest ==
    ASSUME IInv, ListInv,
           User \/ (\E run \in tasks : Answered(run) \/ Dropped(run)) \/ Connect \/ Disconnect
    PROVE  ListInv'
<1>. USE DEF sessionVars, relayVars, channelVars, runVars, viewVars, counters
<1>1. inbox \in Seq(ToBroker)
  BY DEF IInv, Typed
<1>2. CASE (\E i \in Ids : SetTarget(i)) \/ \E run \in tasks : Answered(run) \/ Dropped(run)
  <2>1. UNCHANGED <<registry, up, phase, feed, lost, wire, inbox>>
    BY <1>2 DEF SetTarget, Answered, Dropped, Finish
  <2>. QED
    BY <2>1, ListElsewhere
<1>3. CASE ClearRemotes
  <2>. DEFINE more == <<[type |-> "clear"]>>
  <2>1. more \in Seq(ToBroker) /\ inbox' = inbox \o more
    BY <1>3, Messages DEF ClearRemotes, Send
  <2>2. UNCHANGED <<registry, up, phase, feed, lost, wire>>
    BY <1>3 DEF ClearRemotes
  <2>. HIDE DEF more
  <2>. QED
    BY <2>1, <2>2, ListElsewhere
<1>4. CASE RunCode
  <2>. DEFINE ask == [type |-> "run", run |-> [request |-> runs + 1, on |-> target]]
  <2>1. [request |-> runs + 1, on |-> target] \in Run
    BY <1>4, ControlFeedAssumption DEF RunCode, IInv, Typed, Run
  <2>2. ask \in ToBroker /\ inbox' = inbox \o <<ask>>
    BY <1>4, <2>1, Messages DEF RunCode, Send
  <2>3. UNCHANGED <<registry, up, phase, feed, lost, wire>>
    BY <1>4 DEF RunCode
  <2>. HIDE DEF ask
  <2>4. <<ask>> \in Seq(ToBroker)
    BY <2>2
  <2>. QED
    BY <2>2, <2>3, <2>4, ListElsewhere
<1>5. CASE Connect
  <2>. DEFINE more == <<ListSessions, Replay("log"), Replay("remotes")>>
  <2>1. inbox' = inbox \o more
    BY <1>5 DEF Connect, Send
  <2>2. ListSessions \in ToBroker /\ Replay("log") \in ToBroker /\ Replay("remotes") \in ToBroker
    BY Messages
  <2>3. more \in Seq(ToBroker) /\ 1 \in 1..Len(more) /\ more[1].type = "list"
    BY <2>2 DEF ListSessions
  <2>. HIDE DEF more
  <2>4. Listing'
    BY <1>1, <2>1, <2>3, InboxChanges
  <2>. QED
    BY <2>4, AheadSuffices DEF ListAhead
<1>6. CASE Disconnect
  BY <1>6, AheadSuffices DEF Disconnect
<1>. QED
  BY <1>2, <1>3, <1>4, <1>5, <1>6 DEF User

LEMMA ListStep == IInv /\ ListInv /\ [Next]_vars => ListInv'
<1>1. ASSUME IInv, ListInv, UNCHANGED vars PROVE ListInv'
  <2>1. UNCHANGED <<registry, up, phase, feed, lost, wire, inbox>>
    BY <1>1 DEF vars, sessionVars, channelVars, viewVars
  <2>. QED
    BY <1>1, <2>1, ListElsewhere
<1>2. ASSUME IInv, ListInv, Next PROVE ListInv'
  BY <1>2, ListMembership, ListHistory, ListForwards, ListServe, ListHear, ListRest DEF Next
<1>. QED
  BY <1>1, <1>2

LEMMA InitList == Init => ListInv /\ DownIsEmpty
BY DEF Init, ListInv, Coming, Going, DownIsEmpty

\* sessions.ts, and the broadcasts and the list of mod.rs: in whatever order joins, leaves and
\* lists reach the window, once all is heard it knows the sessions of the store, whoever
\* came, went, reconnected or lost a join; only a leave that a full channel drops is missed.
THEOREM ListCorrect == Spec => []ListAgrees
<1>1. ASSUME IInv, ListInv PROVE ListAgrees
  <2>. SUFFICES ASSUME Drained, "removed" \notin lost PROVE registry = store
    BY DEF ListAgrees
  <2>1. /\ up /\ feed = Quiet /\ inbox = <<>> /\ wire = <<>>
        /\ \A i \in Ids : phase[i] \notin {"stored", "removed"}
    BY DEF Drained
  <2>2. feed["added"] = <<>> /\ feed["removed"] = <<>>
    BY <2>1 DEF Quiet, Channels
  <2>3. ~ ListAhead /\ \A i : ~ OnWire(i) /\ ~ Taken(i) /\ i \notin ToSet(feed["removed"])
    BY <2>1, <2>2 DEF ListAhead, Listing, AddedOnWire, OnWire, Taken, ToSet
  <2>4. /\ \A i \in Ids : phase[i] = "live" => i \in registry
        /\ \A i \in Ids : phase[i] = "gone" => i \notin registry
    BY <1>1, <2>1, <2>3 DEF ListInv, Coming, Going
  <2>5. /\ store = {i \in Ids : phase[i] \in {"stored", "live"}} /\ registry \subseteq Ids
        /\ phase \in [Ids -> Phases] /\ \A i \in Ids : phase[i] = "new" => i \notin registry
    BY <1>1 DEF IInv, Typed, Unheard
  <2>6. \A i \in Ids : i \in registry <=> i \in store
    BY <2>1, <2>4, <2>5 DEF Phases
  <2>. QED
    BY <2>5, <2>6
<1>2. IInv /\ ListInv => ListAgrees
  BY <1>1
<1>. QED
  BY <1>2, InitInv, InitList, StepInv, ListStep, PTL DEF Spec

(***************************************************************************)
(* The calls on screen.                                                    *)
(***************************************************************************)
Kept == history["remotes"]

\* Calls are numbered in the order in which they were captured.
Rising(s, n) ==
    \A a \in 1..Len(s) : /\ s[a].n <= n
                         /\ \A b \in 1..Len(s) : a < b => s[a].n < s[b].n

Numbered == Rising(Kept, items)

\* The broker can replay call x, or could when it was overtaken, or until others took its room.
Backed(x) ==
    \/ x \in ToSet(Kept) \cup overtaken
    \/ Kept # <<>> /\ Len(Kept) = HistoryCap["remotes"] /\ x.n < Head(Kept).n

\* The window will hear of a clearing after it has heard the first k messages.
ClearOnWire(k) == \E m \in k+1..Len(wire) : wire[m].type = "cleared"
ClearAhead(k) == clearing # {} \/ feed["cleared"] # <<>> \/ ClearOnWire(k)

\* A call on its way is backed; so is one that the window shows, or is about to hear, unless
\* a clearing comes after it.
RowsBacked ==
    /\ \A x \in UnderWay : Backed(x)
    /\ \A x \in ToSet(rows) : (Backed(x) \/ ClearAhead(0))
    /\ \A k \in 1..Len(wire) : wire[k].type = "remotes" =>
         \A x \in ToSet(wire[k].batch) : (Backed(x) \/ ClearAhead(k))

\* Call x is on the wire, and no clearing after it.
Carried(x) ==
    \E k \in 1..Len(wire) : /\ wire[k].type = "remotes" /\ x \in ToSet(wire[k].batch)
                            /\ ~ ClearOnWire(k)

\* The window has asked for the calls.
Replaying == \E k \in 1..Len(inbox) : inbox[k] = Replay("remotes")

\* Call x is on its way to the window, or there, or the window has no room for it.
Accounted(x) ==
    \/ x \in UnderWay \/ x \in masked \/ Replaying \/ Carried(x)
    \/ ~ ClearOnWire(0) /\ (x \in ToSet(rows) \/ Len(rows) = CallsPerRemote)

KeptIsAccounted == up /\ "remotes" \notin lost => \A x \in ToSet(Kept) : Accounted(x)

\* One item at a time is captured and not yet sent: the store's guard is held meanwhile.
OneCaptured == \A a, b \in capturing : a = b

CallsInv == Numbered /\ OneCaptured /\ RowsBacked /\ KeptIsAccounted

\* What is appended to the wire follows all that is there.
LEMMA ClearGrows ==
    ASSUME wire \in Seq(ToWindow), NEW m \in ToWindow, wire' = Append(wire, m)
    PROVE  /\ \A k \in 0..Len(wire) : ClearOnWire(k)' <=> ClearOnWire(k) \/ m.type = "cleared"
           /\ m.type # "cleared" => \A x : Carried(x) => Carried(x)'
           /\ m.type = "remotes" => \A x \in ToSet(m.batch) : Carried(x)'
<1>1. /\ Len(wire) \in Nat /\ Len(wire') = Len(wire) + 1 /\ wire'[Len(wire) + 1] = m
      /\ \A k \in 1..Len(wire) : wire'[k] = wire[k]
  BY AppendFacts
<1>2. ASSUME NEW k \in 0..Len(wire)
      PROVE  ClearOnWire(k)' <=> ClearOnWire(k) \/ m.type = "cleared"
  <2>1. /\ \A l \in k+1..Len(wire) : l \in k+1..Len(wire') /\ wire'[l] = wire[l]
        /\ Len(wire) + 1 \in k+1..Len(wire')
        /\ \A l \in k+1..Len(wire') : l \in k+1..Len(wire) \/ l = Len(wire) + 1
    BY <1>1
  <2>. QED
    BY <1>1, <2>1 DEF ClearOnWire
<1>3. ~ ClearOnWire(Len(wire) + 1)'
  <2>1. \A l \in (Len(wire) + 1) + 1..Len(wire') : FALSE
    BY <1>1
  <2>. SUFFICES \A l \in (Len(wire) + 1) + 1..Len(wire)' : wire'[l].type # "cleared"
    BY <1>1 DEF ClearOnWire
  <2>. QED
    BY <2>1
<1>4. \A k \in 1..Len(wire) : k \in 1..Len(wire') /\ k \in 0..Len(wire)
  BY <1>1
<1>5. ASSUME m.type # "cleared", NEW x, Carried(x) PROVE Carried(x)'
  <2>1. PICK k \in 1..Len(wire) : /\ wire[k].type = "remotes" /\ x \in ToSet(wire[k].batch)
                                  /\ ~ ClearOnWire(k)
    BY <1>5 DEF Carried
  <2>2. ~ ClearOnWire(k)'
    BY <1>2, <1>4, <1>5, <2>1
  <2>. QED
    BY <1>1, <1>4, <2>1, <2>2 DEF Carried
<1>6. ASSUME m.type = "remotes", NEW x \in ToSet(m.batch) PROVE Carried(x)'
  <2>1. PICK k : k = Len(wire) + 1
    OBVIOUS
  <2>2. k \in 1..Len(wire') /\ wire'[k] = m /\ ~ ClearOnWire(k)'
    <3>1. k \in 1..Len(wire') /\ wire'[k] = m
      BY <1>1, <2>1
    <3>2. \A l \in k+1..Len(wire') : FALSE
      BY <1>1, <2>1
    <3>. QED
      BY <3>1, <3>2 DEF ClearOnWire
  <2>. QED
    BY <1>6, <2>2 DEF Carried
<1>. QED
  BY <1>2, <1>5, <1>6

\* What follows the head of the wire comes one place earlier.
LEMMA ClearShrinks ==
    ASSUME wire \in Seq(ToWindow), wire # <<>>, wire' = Tail(wire)
    PROVE  /\ \A k \in 0..Len(wire') : ClearOnWire(k+1) <=> ClearOnWire(k)'
           /\ ClearOnWire(0) <=> Head(wire).type = "cleared" \/ ClearOnWire(0)'
           /\ \A x : Carried(x) => \/ Carried(x)'
                                   \/ /\ Head(wire).type = "remotes"
                                      /\ x \in ToSet(Head(wire).batch) /\ ~ ClearOnWire(0)'
<1>1. /\ Len(wire') \in Nat /\ Len(wire) = Len(wire') + 1 /\ Head(wire) = wire[1]
      /\ \A k \in 1..Len(wire') : wire'[k] = wire[k+1]
  BY TailFacts
<1>2. ASSUME NEW k \in 0..Len(wire') PROVE ClearOnWire(k+1) <=> ClearOnWire(k)'
  <2>1. /\ \A l \in (k+1)+1..Len(wire) : l-1 \in k+1..Len(wire') /\ wire'[l-1] = wire[l]
        /\ \A l \in k+1..Len(wire') : l+1 \in (k+1)+1..Len(wire) /\ wire[l+1] = wire'[l]
    BY <1>1
  <2>. QED
    BY <2>1 DEF ClearOnWire
<1>3. ClearOnWire(0) <=> Head(wire).type = "cleared" \/ ClearOnWire(1)
  <2>1. /\ 1 \in 0+1..Len(wire)
        /\ \A l \in 1+1..Len(wire) : l \in 0+1..Len(wire)
        /\ \A l \in 0+1..Len(wire) : l = 1 \/ l \in 1+1..Len(wire)
    BY <1>1
  <2>. QED
    BY <1>1, <2>1 DEF ClearOnWire
<1>4. ClearOnWire(1) <=> ClearOnWire(0)'
  <2>1. 0 \in 0..Len(wire') /\ 0 + 1 = 1
    BY <1>1
  <2>. QED
    BY <1>2, <2>1
<1>5. ASSUME NEW x, Carried(x), ~ Carried(x)'
      PROVE  /\ Head(wire).type = "remotes"
             /\ x \in ToSet(Head(wire).batch) /\ ~ ClearOnWire(0)'
  <2>1. PICK k \in 1..Len(wire) : /\ wire[k].type = "remotes" /\ x \in ToSet(wire[k].batch)
                                  /\ ~ ClearOnWire(k)
    BY <1>5 DEF Carried
  <2>2. CASE k = 1
    BY <1>1, <1>4, <2>1, <2>2
  <2>3. CASE k # 1
    <3>1. PICK j \in 1..Len(wire') : k = j + 1
      BY <1>1, <2>3
    <3>2. wire'[j] = wire[k] /\ ~ ClearOnWire(j)'
      BY <1>1, <1>2, <2>1, <3>1
    <3>. QED
      BY <1>5, <2>1, <3>1, <3>2 DEF Carried
  <2>. QED
    BY <2>2, <2>3
<1>. QED
  BY <1>2, <1>3, <1>4, <1>5

\* A call joins the history, and the oldest makes room.
LEMMA HistoryGrows ==
    ASSUME NEW s \in Seq(Item), NEW x \in Item, NEW cap \in Nat \ {0}, NEW n \in Nat,
           x.n = n + 1, Rising(s, n),
           NEW t, t = Push(s, x, cap)
    PROVE  /\ t \in Seq(Item) /\ t # <<>> /\ x \in ToSet(t) /\ ToSet(t) \subseteq ToSet(s) \cup {x}
           /\ Rising(t, n + 1)
           /\ \A y \in ToSet(s) : y \in ToSet(t) \/ (Len(t) = cap /\ y.n < Head(t).n)
           /\ Len(s) = cap => Len(t) = cap /\ Head(s).n < Head(t).n
<1>1. \A a \in 1..Len(s) : /\ s[a].n <= n
                           /\ \A b \in 1..Len(s) : a < b => s[a].n < s[b].n
  BY DEF Rising
<1>2. /\ t \in Seq(Item) /\ t # <<>> /\ x \in ToSet(t)
      /\ ToSet(t) \subseteq ToSet(s) \cup {x}
      /\ Len(s) # cap => ToSet(s) \subseteq ToSet(t)
  BY Pushed DEF Push
<1>3. \A y \in Item : y.n \in Nat
  BY ControlFeedAssumption DEF Item
<1>4. Len(s) \in Nat /\ \A a \in 1..Len(s) : s[a] \in Item
  OBVIOUS
<1>5. CASE Len(s) # cap
  <2>1. /\ Len(t) = Len(s) + 1 /\ t[Len(s) + 1] = x
        /\ \A a \in 1..Len(s) : t[a] = s[a]
        /\ \A a \in 1..Len(t) : a \in 1..Len(s) \/ a = Len(s) + 1
    BY <1>5, AppendFacts DEF Push
  <2>2. \A a \in 1..Len(t) : t[a].n <= n + 1
    BY <1>1, <1>3, <1>4, <2>1
  <2>3. ASSUME NEW a \in 1..Len(t), NEW b \in 1..Len(t), a < b PROVE t[a].n < t[b].n
    <3>1. a \in 1..Len(s) /\ s[a].n \in Nat
      BY <1>3, <1>4, <2>1, <2>3
    <3>2. CASE b \in 1..Len(s)
      BY <1>1, <2>1, <2>3, <3>1, <3>2
    <3>3. CASE b = Len(s) + 1
      BY <1>1, <2>1, <3>1, <3>3
    <3>. QED
      BY <2>1, <3>2, <3>3
  <2>. QED
    BY <1>2, <1>5, <2>2, <2>3 DEF Rising
<1>6. CASE Len(s) = cap
  <2>. DEFINE u == Tail(s)
  <2>0. s # <<>>
    BY <1>6
  <2>1. /\ u \in Seq(Item) /\ Len(u) \in Nat /\ Len(s) = Len(u) + 1 /\ Head(s) = s[1]
        /\ \A a \in 1..Len(u) : u[a] = s[a+1]
    BY <2>0, TailFacts
  <2>2. /\ Len(t) = Len(u) + 1 /\ t[Len(u) + 1] = x
        /\ \A a \in 1..Len(u) : t[a] = u[a]
        /\ \A a \in 1..Len(t) : a \in 1..Len(u) \/ a = Len(u) + 1
    <3>1. t = Append(u, x)
      BY <1>6 DEF Push
    <3>. HIDE DEF u
    <3>. QED
      BY <2>1, <3>1, AppendFacts
  <2>. HIDE DEF u
  <2>3. /\ \A a \in 1..Len(u) : a+1 \in 1..Len(s) /\ t[a] = s[a+1] /\ s[a+1].n \in Nat
        /\ 1 \in 1..Len(s) /\ s[1].n \in Nat /\ Len(t) = cap
    BY <1>3, <1>4, <1>6, <2>1, <2>2
  <2>4. \A a \in 1..Len(t) : t[a].n <= n + 1
    BY <1>1, <1>3, <2>2, <2>3
  <2>5. ASSUME NEW a \in 1..Len(t), NEW b \in 1..Len(t), a < b PROVE t[a].n < t[b].n
    <3>1. a \in 1..Len(u)
      BY <2>1, <2>2, <2>5
    <3>2. CASE b \in 1..Len(u)
      <4>1. a+1 < b+1
        BY <2>5, <3>1, <3>2
      <4>. QED
        BY <1>1, <2>3, <3>1, <3>2, <4>1
    <3>3. CASE b = Len(u) + 1
      BY <1>1, <2>2, <2>3, <3>1, <3>3
    <3>. QED
      BY <2>2, <3>2, <3>3
  <2>6. Head(t) = t[1] /\ 1 \in 1..Len(t)
    BY <1>2, <2>1, <2>2
  <2>7. s[1].n < t[1].n
    <3>1. CASE 1 \in 1..Len(u)
      <4>1. 1 + 1 \in 1..Len(s) /\ t[1] = s[1 + 1] /\ 1 < 1 + 1
        BY <2>3, <3>1
      <4>. QED
        BY <1>1, <2>3, <4>1
    <3>2. CASE 1 = Len(u) + 1
      <4>1. t[1] = x /\ s[1].n <= n
        BY <1>1, <2>2, <2>3, <3>2
      <4>2. t[1].n = n + 1
        BY <4>1, Zenon
      <4>3. s[1].n \in Nat /\ n + 1 \in Nat
        BY <2>3
      <4>4. \A p, q \in Nat : p <= n /\ q = n + 1 => p < q
        OBVIOUS
      <4>. QED
        BY <4>1, <4>2, <4>3, <4>4, Zenon
    <3>. QED
      BY <2>2, <2>6, <3>1, <3>2
  <2>8. ASSUME NEW y \in ToSet(s), y \notin ToSet(t) PROVE y = s[1]
    <3>1. y = Head(s) \/ y \in ToSet(u)
      BY <2>0, <2>8, HeadOrTail DEF u
    <3>2. \A a \in 1..Len(u) : a \in 1..Len(t) /\ t[a] = u[a]
      BY <2>1, <2>2
    <3>3. ToSet(u) \subseteq ToSet(t)
      <4>1. /\ DOMAIN u = 1..Len(u) /\ DOMAIN t = 1..Len(t)
            /\ ToSet(u) = {u[a] : a \in DOMAIN u} /\ ToSet(t) = {t[a] : a \in DOMAIN t}
        BY <1>2, <2>1 DEF ToSet
      <4>. QED
        BY <3>2, <4>1
    <3>. QED
      BY <2>1, <2>8, <3>1, <3>3
  <2>. QED
    BY <1>2, <2>1, <2>3, <2>4, <2>5, <2>6, <2>7, <2>8 DEF Rising
<1>. QED
  BY <1>5, <1>6

LEMMA ItemNumbers == \A s \in Seq(Item) : \A a \in 1..Len(s) : s[a] \in Item /\ s[a].n \in Nat
<1>1. \A x \in Item : x.n \in Nat
  BY ControlFeedAssumption DEF Item
<1>. QED
  BY <1>1

\* Steps that leave alone what the broker can replay and what the window shows.
LEMMA CallsElsewhere ==
    ASSUME IInv, CallsInv, items' \in Nat, items <= items',
           UNCHANGED <<Kept, overtaken, masked, rows>>, UnderWay' \subseteq UnderWay,
           OneCaptured',
           \/ UNCHANGED wire
           \/ \E m \in ToWindow : /\ wire' = Append(wire, m) /\ m.type # "cleared"
                                  /\ m.type = "remotes" => \A x \in ToSet(m.batch) : Backed(x),
           \/ clearing = {} /\ feed["cleared"] = <<>>
           \/ clearing' # {} \/ feed'["cleared"] # <<>>
           \/ rows = <<>> /\ wire' = <<>>,
           \/ ~ up' \/ "remotes" \in lost' \/ Replaying'
           \/ /\ up /\ "remotes" \notin lost
              /\ \A x \in UnderWay : x \in UnderWay' \/ Carried(x)'
              /\ Replaying => \A x \in ToSet(Kept) : Carried(x)'
    PROVE  CallsInv'
<1>1. wire \in Seq(ToWindow) /\ items \in Nat /\ Kept \in Seq(Item)
  BY DEF IInv, Typed, Kept
<1>2. Numbered'
  <2>1. \A a \in 1..Len(Kept) : Kept[a].n \in Nat
    BY <1>1, ItemNumbers
  <2>. QED
    BY <1>1, <2>1 DEF CallsInv, Numbered, Rising
<1>3. \A x : Backed(x)' <=> Backed(x)
  BY DEF Backed
<1>4. Len(wire) \in Nat /\ \A k \in 1..Len(wire) : k \in 0..Len(wire)
  BY <1>1
<1>5. 0 \in 0..Len(wire)
  BY <1>4
<1>6. /\ \A k \in 0..Len(wire) : ClearOnWire(k)' <=> ClearOnWire(k)
      /\ \A x : Carried(x) => Carried(x)'
  <2>1. CASE UNCHANGED wire
    BY <2>1 DEF ClearOnWire, Carried
  <2>2. ASSUME NEW m \in ToWindow, wire' = Append(wire, m), m.type # "cleared"
        PROVE  <1>6
    BY <1>1, <2>2, ClearGrows
  <2>. QED
    BY <2>1, <2>2
<1>7. RowsBacked'
  <2>1. \A x \in UnderWay' : Backed(x)'
    BY <1>3 DEF CallsInv, RowsBacked
  <2>2. CASE rows = <<>> /\ wire' = <<>>
    BY <2>1, <2>2 DEF RowsBacked, ToSet
  <2>3. CASE ~ (rows = <<>> /\ wire' = <<>>)
    <3>1. \A k \in 0..Len(wire) : ClearAhead(k) => ClearAhead(k)'
      BY <1>6, <2>3 DEF ClearAhead
    <3>2. \A x \in ToSet(rows') : (Backed(x)' \/ ClearAhead(0)')
      BY <1>3, <1>5, <3>1 DEF CallsInv, RowsBacked
    <3>3. ASSUME NEW k \in 1..Len(wire'), wire'[k].type = "remotes",
                 NEW x \in ToSet(wire'[k].batch)
          PROVE  Backed(x)' \/ ClearAhead(k)'
      <4>1. CASE k \in 1..Len(wire) /\ wire'[k] = wire[k]
        <5>1. Backed(x) \/ ClearAhead(k)
          BY <3>3, <4>1 DEF CallsInv, RowsBacked
        <5>. QED
          BY <1>3, <1>4, <3>1, <4>1, <5>1
      <4>2. CASE ~ (k \in 1..Len(wire) /\ wire'[k] = wire[k])
        <5>1. PICK m \in ToWindow : /\ wire' = Append(wire, m)
                                    /\ m.type = "remotes" => \A y \in ToSet(m.batch) : Backed(y)
          BY <3>3, <4>2
        <5>2. wire'[k] = m
          BY <1>1, <3>3, <4>2, <5>1, AppendFacts
        <5>. QED
          BY <1>3, <3>3, <5>1, <5>2
      <4>. QED
        BY <4>1, <4>2
    <3>. QED
      BY <2>1, <3>2, <3>3 DEF RowsBacked
  <2>. QED
    BY <2>2, <2>3
<1>8. KeptIsAccounted'
  <2>. SUFFICES ASSUME up', "remotes" \notin lost', NEW x \in ToSet(Kept) PROVE Accounted(x)'
    BY DEF KeptIsAccounted
  <2>1. CASE Replaying'
    BY <2>1 DEF Accounted
  <2>2. CASE /\ up /\ "remotes" \notin lost
             /\ \A y \in UnderWay : y \in UnderWay' \/ Carried(y)'
             /\ Replaying => \A y \in ToSet(Kept) : Carried(y)'
    <3>1. Accounted(x)
      BY <2>2 DEF CallsInv, KeptIsAccounted
    <3>2. Carried(x) => Carried(x)'
      BY <1>6
    <3>3. ClearOnWire(0)' <=> ClearOnWire(0)
      BY <1>5, <1>6
    <3>. QED
      BY <2>2, <3>1, <3>2, <3>3 DEF Accounted
  <2>. QED
    BY <2>1, <2>2
<1>. QED
  BY <1>2, <1>7, <1>8 DEF CallsInv

LEMMA BatchTyped ==
    ASSUME IInv, NEW k \in 1..Len(wire), wire[k].type \in {"log", "remotes"}
    PROVE  wire[k].batch \in Seq(Item) /\ ToSet(wire[k].batch) \subseteq Item
<1>1. wire[k] \in ToWindow
  BY DEF IInv, Typed
<1>2. wire[k].batch \in Seq(Item)
  BY <1>1 DEF ToWindow
<1>. QED
  BY <1>2, Contents

\* A call is captured.
LEMMA CallsCapture ==
    ASSUME IInv, Bounded, CallsInv, NEW k \in {"log", "remotes"}, NEW i \in Ids, Capture(k, i)
    PROVE  CallsInv'
<1>. USE DEF sessionVars, channelVars, runVars, viewVars
<1>1. /\ items \in Nat /\ items < MaxItems /\ items' = items + 1 /\ capturing = {}
      /\ UNCHANGED <<overtaken, masked, rows, wire, clearing, feed, lost, up, inbox>>
      /\ Kept \in Seq(Item) /\ HistoryCap["remotes"] \in Nat \ {0}
  BY ControlFeedAssumption DEF Capture, IInv, Typed, Kept
<1>2. OneCaptured'
  BY DEF Capture, OneCaptured
<1>3. /\ Replaying' <=> Replaying
      /\ \A x : Carried(x)' <=> Carried(x)
      /\ \A j : ClearAhead(j)' <=> ClearAhead(j)
      /\ \A j : ClearOnWire(j)' <=> ClearOnWire(j)
  BY <1>1 DEF Replaying, Carried, ClearAhead, ClearOnWire
<1>4. CASE k = "log"
  <2>1. Kept' = Kept
    BY <1>4 DEF Capture, Kept, IInv, Typed
  <2>2. UnderWay' = UnderWay
    BY <1>1, <1>4 DEF Capture, UnderWay
  <2>3. KeptIsAccounted'
    BY <1>1, <1>3, <2>1, <2>2 DEF CallsInv, KeptIsAccounted, Accounted
  <2>4. RowsBacked'
    BY <1>1, <1>3, <2>1, <2>2 DEF CallsInv, RowsBacked, Backed
  <2>5. \A a \in 1..Len(Kept) : Kept[a].n \in Nat
    BY <1>1, ItemNumbers
  <2>6. Numbered'
    BY <1>1, <2>1, <2>5 DEF CallsInv, Numbered, Rising
  <2>. QED
    BY <1>2, <2>3, <2>4, <2>6 DEF CallsInv
<1>5. CASE k = "remotes"
  <2>0. PICK new : new = [n |-> items + 1, from |-> i]
    OBVIOUS
  <2>1. new \in Item /\ new.n = items + 1
    BY <1>1, <2>0, ControlFeedAssumption DEF Item
  <2>2. /\ Kept' = Append(IF Len(Kept) = HistoryCap["remotes"] THEN Tail(Kept) ELSE Kept, new)
        /\ capturing' = {[type |-> "remotes", call |-> new]}
    BY <1>5, <2>0 DEF Capture, Kept, IInv, Typed
  <2>3. UnderWay' = UnderWay \cup {new}
    <3>1. PICK c : c = [type |-> "remotes", call |-> new]
      OBVIOUS
    <3>2. capturing' = {c} /\ c.type = "remotes" /\ c.call = new
      BY <2>2, <3>1
    <3>. QED
      BY <1>1, <3>2 DEF UnderWay
  <2>4. Rising(Kept, items)
    BY DEF CallsInv, Numbered
  <2>5. /\ Kept' \in Seq(Item) /\ Kept' # <<>> /\ new \in ToSet(Kept')
        /\ ToSet(Kept') \subseteq ToSet(Kept) \cup {new}
        /\ Rising(Kept', items + 1)
        /\ \A y \in ToSet(Kept) : \/ y \in ToSet(Kept')
                                  \/ Len(Kept') = HistoryCap["remotes"] /\ y.n < Head(Kept').n
        /\ Len(Kept) = HistoryCap["remotes"] =>
             Len(Kept') = HistoryCap["remotes"] /\ Head(Kept).n < Head(Kept').n
    <3>1. PICK s, t, cap, n : s = Kept /\ t = Kept' /\ cap = HistoryCap["remotes"] /\ n = items
      OBVIOUS
    <3>2. /\ s \in Seq(Item) /\ Rising(s, n) /\ n \in Nat /\ cap \in Nat \ {0} /\ new.n = n + 1
          /\ t = Push(s, new, cap)
      BY <1>1, <2>1, <2>2, <2>4, <3>1 DEF Push
    <3>3. /\ t \in Seq(Item) /\ t # <<>> /\ new \in ToSet(t) /\ ToSet(t) \subseteq ToSet(s) \cup {new}
          /\ Rising(t, n + 1)
          /\ \A y \in ToSet(s) : y \in ToSet(t) \/ (Len(t) = cap /\ y.n < Head(t).n)
          /\ Len(s) = cap => Len(t) = cap /\ Head(s).n < Head(t).n
      BY <2>1, <3>2, HistoryGrows
    <3>. QED
      BY <3>1, <3>3
  <2>6. Numbered'
    BY <1>1, <2>5 DEF Numbered
  <2>7. ASSUME NEW x \in Item, Backed(x) PROVE Backed(x)'
    <3>1. CASE x \in ToSet(Kept) \cup overtaken
      BY <1>1, <2>5, <3>1 DEF Backed
    <3>2. CASE Kept # <<>> /\ Len(Kept) = HistoryCap["remotes"] /\ x.n < Head(Kept).n
      <4>1. Head(Kept) \in Item /\ Head(Kept') \in Item
        BY <1>1, <2>5, <3>2, HeadOrTail
      <4>2. \A y \in Item : y.n \in Nat
        BY ControlFeedAssumption DEF Item
      <4>3. x.n \in Nat /\ Head(Kept).n \in Nat /\ Head(Kept').n \in Nat
        BY <4>1, <4>2
      <4>4. \A p, q, r \in Nat : p < q /\ q < r => p < r
        OBVIOUS
      <4>5. x.n < Head(Kept').n
        BY <2>5, <3>2, <4>3, <4>4
      <4>. QED
        BY <2>5, <3>2, <4>5 DEF Backed
    <3>. QED
      BY <2>7, <3>1, <3>2 DEF Backed
  <2>8. RowsBacked'
    <3>1. Backed(new)'
      BY <2>5 DEF Backed
    <3>2. UnderWay \subseteq Item
      BY UnderWayTyped DEF IInv
    <3>3. rows \in Seq(Item) /\ ToSet(rows) \subseteq Item
      BY Contents DEF Bounded, RowsOK
    <3>4. \A x \in UnderWay' : Backed(x)'
      BY <2>3, <2>7, <3>1, <3>2 DEF CallsInv, RowsBacked
    <3>5. \A x \in ToSet(rows') : (Backed(x)' \/ ClearAhead(0)')
      BY <1>1, <1>3, <2>7, <3>3 DEF CallsInv, RowsBacked
    <3>6. ASSUME NEW j \in 1..Len(wire), wire[j].type = "remotes", NEW x \in ToSet(wire[j].batch)
          PROVE  Backed(x)' \/ ClearAhead(j)'
      <4>1. x \in Item
        BY <3>6, BatchTyped
      <4>2. Backed(x) \/ ClearAhead(j)
        BY <3>6 DEF CallsInv, RowsBacked
      <4>. QED
        BY <1>3, <2>7, <4>1, <4>2
    <3>. QED
      BY <1>1, <3>4, <3>5, <3>6 DEF RowsBacked
  <2>9. KeptIsAccounted'
    BY <1>1, <1>3, <2>3, <2>5 DEF CallsInv, KeptIsAccounted, Accounted
  <2>. QED
    BY <1>2, <2>6, <2>8, <2>9 DEF CallsInv
<1>. QED
  BY <1>4, <1>5

LEMMA ReplayingChanges ==
    ASSUME inbox \in Seq(ToBroker)
    PROVE  /\ UNCHANGED inbox => (Replaying' <=> Replaying)
           /\ inbox # <<>> /\ inbox' = Tail(inbox) /\ Head(inbox) # Replay("remotes")
                => (Replaying => Replaying')
           /\ \A more \in Seq(ToBroker) :
                /\ inbox' = inbox \o more
                /\ Replaying \/ \E k \in 1..Len(more) : more[k] = Replay("remotes")
                => Replaying'
<1>1. ASSUME inbox # <<>>, inbox' = Tail(inbox), Head(inbox) # Replay("remotes"), Replaying
      PROVE  Replaying'
  <2>1. PICK k \in 1..Len(inbox) : inbox[k] = Replay("remotes")
    BY <1>1 DEF Replaying
  <2>2. k # 1 => k-1 \in 1..Len(inbox') /\ inbox'[k-1] = inbox[k]
    BY <1>1
  <2>3. k # 1
    BY <1>1, <2>1
  <2>. QED
    BY <2>1, <2>2, <2>3 DEF Replaying
<1>2. ASSUME NEW more \in Seq(ToBroker), inbox' = inbox \o more,
             Replaying \/ \E k \in 1..Len(more) : more[k] = Replay("remotes")
      PROVE  Replaying'
  <2>1. /\ \A k \in 1..Len(inbox) : k \in 1..Len(inbox') /\ inbox'[k] = inbox[k]
        /\ \A k \in 1..Len(more) : /\ Len(inbox) + k \in 1..Len(inbox')
                                   /\ inbox'[Len(inbox) + k] = more[k]
    BY <1>2
  <2>. QED
    BY <1>2, <2>1 DEF Replaying
<1>3. UNCHANGED inbox => (Replaying' <=> Replaying)
  BY DEF Replaying
<1>. QED
  BY <1>1, <1>2, <1>3

\* Steps that leave the calls alone altogether.
LEMMA CallsQuiet ==
    ASSUME IInv, CallsInv,
           UNCHANGED <<history, overtaken, masked, rows, capturing, clearing, up, items>>,
           feed'["remotes"] = feed["remotes"], feed'["cleared"] = feed["cleared"],
           lost \subseteq lost', Replaying => Replaying',
           \/ UNCHANGED wire
           \/ \E m \in ToWindow : wire' = Append(wire, m) /\ m.type \notin {"cleared", "remotes"}
    PROVE  CallsInv'
<1>1. /\ UNCHANGED <<Kept, UnderWay>> /\ items \in Nat /\ items <= items' /\ OneCaptured'
  BY DEF Kept, UnderWay, IInv, Typed, CallsInv, OneCaptured
<1>2. \/ UNCHANGED wire
      \/ \E m \in ToWindow : /\ wire' = Append(wire, m) /\ m.type # "cleared"
                             /\ m.type = "remotes" => \A x \in ToSet(m.batch) : Backed(x)
  OBVIOUS
<1>3. \/ ~ up' \/ "remotes" \in lost' \/ Replaying'
      \/ /\ up /\ "remotes" \notin lost
         /\ \A x \in UnderWay : x \in UnderWay' \/ Carried(x)'
         /\ Replaying => \A x \in ToSet(Kept) : Carried(x)'
  BY <1>1
<1>4. \/ clearing = {} /\ feed["cleared"] = <<>>
      \/ clearing' # {} \/ feed'["cleared"] # <<>>
  OBVIOUS
<1>. QED
  BY <1>1, <1>2, <1>3, <1>4, CallsElsewhere

\* The history is emptied: what is on its way is overtaken, what has arrived is cleared.
LEMMA CallsClear ==
    ASSUME IInv, CallsInv, NEW who, Clear(who),
           UNCHANGED <<capturing, feed, wire, rows, items>>
    PROVE  CallsInv'
<1>1. /\ Kept' = <<>> /\ clearing' # {} /\ overtaken' = overtaken \cup UnderWay
      /\ UnderWay' = UnderWay
  BY DEF Clear, Kept, UnderWay, IInv, Typed
<1>2. Numbered' /\ KeptIsAccounted'
  <2>1. Len(Kept') = 0 /\ ToSet(Kept') = {}
    BY <1>1 DEF ToSet
  <2>. QED
    BY <1>1, <2>1 DEF Numbered, Rising, KeptIsAccounted
<1>3. RowsBacked' /\ OneCaptured'
  BY <1>1 DEF RowsBacked, Backed, ClearAhead, CallsInv, OneCaptured
<1>. QED
  BY <1>2, <1>3 DEF CallsInv

LEMMA CallsHistory == IInv /\ Bounded /\ DownIsEmpty /\ CallsInv /\ History => CallsInv'
<1>. USE DEF sessionVars, channelVars, runVars, viewVars, counters
<1>. SUFFICES ASSUME IInv, Bounded, DownIsEmpty, CallsInv, History PROVE CallsInv'
  OBVIOUS
<1>1. /\ FeedOK /\ inbox \in Seq(ToBroker) /\ items \in Nat
      /\ {"added", "removed", "log", "remotes", "cleared"} \subseteq Channels
  BY DEF IInv, Typed, Channels
<1>2. CASE Relay
  <2>1. PICK m \in capturing : Publish(m.type, m.call)
    BY <1>2 DEF Relay
  <2>2. m.call \in Payload /\ m.type \in {"log", "remotes"} /\ capturing = {m}
    BY <2>1 DEF IInv, Typed, Payload, CallsInv, OneCaptured
  <2>3. /\ \A d \in Channels : d # m.type => feed'[d] = feed[d]
        /\ up => m.call \in ToSet(feed'[m.type])
        /\ ToSet(feed'[m.type]) \subseteq ToSet(feed[m.type]) \cup {m.call}
        /\ m.type \notin lost' => ToSet(feed[m.type]) \subseteq ToSet(feed'[m.type])
        /\ lost \subseteq lost'
    BY <1>1, <2>1, <2>2, Publishing
  <2>4. /\ capturing' = {} /\ UNCHANGED <<Kept, overtaken, masked, rows, clearing, wire, up, items, inbox>>
    BY <1>2 DEF Relay, Kept
  <2>5. feed'["cleared"] = feed["cleared"]
    BY <1>1, <2>2, <2>3
  <2>6. /\ UnderWay' \subseteq UnderWay
        /\ up /\ "remotes" \notin lost' => UnderWay \subseteq UnderWay'
    <3>1. UnderWay' = ToSet(feed'["remotes"])
      BY <2>4 DEF UnderWay
    <3>2. CASE m.type = "remotes"
      <4>1. UnderWay = {m.call} \cup ToSet(feed["remotes"])
        BY <2>2, <3>2 DEF UnderWay
      <4>. QED
        BY <2>3, <3>1, <3>2, <4>1
    <3>3. CASE m.type = "log"
      <4>1. UnderWay = ToSet(feed["remotes"]) /\ feed'["remotes"] = feed["remotes"]
        BY <1>1, <2>2, <2>3, <3>3 DEF UnderWay
      <4>. QED
        BY <3>1, <4>1
    <3>. QED
      BY <2>2, <3>2, <3>3
  <2>7. OneCaptured' /\ items' \in Nat /\ items <= items'
    BY <1>1, <2>4 DEF OneCaptured
  <2>8. Replaying' <=> Replaying
    BY <2>4 DEF Replaying
  <2>. QED
    BY <2>3, <2>4, <2>5, <2>6, <2>7, <2>8, CallsElsewhere
<1>3. CASE ClearElsewhere
  BY <1>3, CallsClear DEF ClearElsewhere
<1>4. ASSUME NEW who, TellCleared(who) PROVE CallsInv'
  <2>1. NoId \in Payload /\ Publish("cleared", NoId)
    BY <1>4 DEF Payload, TellCleared
  <2>2. /\ feed'["remotes"] = feed["remotes"] /\ lost \subseteq lost'
        /\ up => feed'["cleared"] # <<>>
    BY <1>1, <2>1, Publishing
  <2>3. UNCHANGED <<Kept, overtaken, masked, rows, wire, up, items, inbox, capturing>>
    BY <1>4 DEF TellCleared, Kept
  <2>4. UNCHANGED UnderWay /\ OneCaptured' /\ items' \in Nat /\ items <= items'
    BY <1>1, <2>2, <2>3 DEF UnderWay, CallsInv, OneCaptured
  <2>5. ~ up => rows = <<>> /\ wire' = <<>>
    BY <2>3 DEF DownIsEmpty
  <2>6. Replaying' <=> Replaying
    BY <2>3 DEF Replaying
  <2>. QED
    BY <2>2, <2>3, <2>4, <2>5, <2>6, CallsElsewhere
<1>. QED
  BY <1>2, <1>3, <1>4, CallsCapture DEF History

LEMMA CallsForwards == IInv /\ CallsInv /\ Forwards => CallsInv'
<1>. USE DEF sessionVars, relayVars, channelVars, runVars, viewVars, counters
<1>. SUFFICES ASSUME IInv, CallsInv, Forwards PROVE CallsInv'
  OBVIOUS
<1>1. FeedOK /\ wire \in Seq(ToWindow) /\ items \in Nat
  BY DEF IInv, Typed
<1>2. ASSUME NEW r \in results, ForwardResult(r) PROVE CallsInv'
  <2>. DEFINE m == [type |-> "result", request |-> r]
  <2>1. m \in ToWindow /\ m.type \notin {"cleared", "remotes"} /\ wire' = Append(wire, m)
    BY <1>2, Messages DEF ForwardResult, Reply, IInv, Typed
  <2>2. UNCHANGED <<history, overtaken, masked, rows, capturing, clearing, up, items, feed, lost, inbox>>
    BY <1>2 DEF ForwardResult
  <2>3. Replaying' <=> Replaying
    BY <2>2 DEF Replaying
  <2>. HIDE DEF m
  <2>. QED
    BY <2>1, <2>2, <2>3, CallsQuiet
<1>3. ASSUME NEW c \in Channels, Forward(c)
      PROVE  /\ UNCHANGED <<history, overtaken, rows, capturing, clearing, up, items, lost, inbox>>
             /\ UNCHANGED <<Kept, OneCaptured, Replaying>>
             /\ \A d \in Channels : d # c => feed'[d] = feed[d]
             /\ feed'[c] = Tail(feed[c]) /\ feed[c] # <<>>
             /\ c # "cleared" => masked' = masked
  BY <1>1, <1>3 DEF Forward, FeedOK, Kept, OneCaptured, Replaying
<1>4. ASSUME NEW c \in {"added", "removed", "log"}, Forward(c) PROVE CallsInv'
  <2>0. c \in Channels /\ "remotes" \in Channels /\ "cleared" \in Channels
    BY DEF Channels
  <2>1. PICK m : wire' = Append(wire, m) /\ m \in ToWindow /\ m.type = c
    <3>1. CASE c = "log"
      <4>1. <<Head(feed[c])>> \in Seq(Item)
        BY <1>1, <1>4, <3>1 DEF Forward, FeedOK
      <4>2. [type |-> c, batch |-> <<Head(feed[c])>>] \in ToWindow
        BY <3>1, <4>1, Messages
      <4>. QED
        BY <1>4, <3>1, <4>2 DEF Forward, Reply
    <3>2. CASE c # "log"
      <4>1. Head(feed[c]) \in Ids
        BY <1>1, <1>4, <3>2 DEF Forward, FeedOK
      <4>2. [type |-> c, id |-> Head(feed[c])] \in ToWindow
        BY <3>2, <4>1, Messages
      <4>. QED
        BY <1>4, <3>2, <4>2 DEF Forward, Reply
    <3>. QED
      BY <3>1, <3>2
  <2>2. /\ UNCHANGED <<history, overtaken, masked, rows, capturing, clearing, up, items, lost>>
        /\ feed'["remotes"] = feed["remotes"] /\ feed'["cleared"] = feed["cleared"]
        /\ Replaying' = Replaying
    BY <1>3, <1>4, <2>0
  <2>. QED
    BY <2>1, <2>2, CallsQuiet
<1>5. ASSUME Forward("remotes") PROVE CallsInv'
  <2>0. "remotes" \in Channels /\ "cleared" \in Channels
    BY DEF Channels
  <2>1. /\ UNCHANGED <<Kept, overtaken, masked, rows, capturing, clearing, up, items, lost, OneCaptured, Replaying>>
        /\ feed'["cleared"] = feed["cleared"] /\ feed["remotes"] # <<>>
        /\ feed'["remotes"] = Tail(feed["remotes"]) /\ feed["remotes"] \in Seq(Item)
    BY <1>1, <1>3, <1>5, <2>0 DEF FeedOK
  <2>2. PICK x, m : x = Head(feed["remotes"]) /\ m = [type |-> "remotes", batch |-> <<x>>]
    OBVIOUS
  <2>3. x \in Item /\ x \in UnderWay /\ UnderWay' \subseteq UnderWay
        /\ \A y \in UnderWay : y \in UnderWay' \/ y = x
    BY <2>1, <2>2, HeadOrTail DEF UnderWay
  <2>4. wire' = Append(wire, m) /\ m \in ToWindow /\ m.type = "remotes" /\ ToSet(m.batch) = {x}
    <3>1. <<x>> \in Seq(Item) /\ ToSet(<<x>>) = {x}
      BY <2>3 DEF ToSet
    <3>. QED
      BY <1>5, <2>2, <3>1, Messages DEF Forward, Reply
  <2>5. Carried(x)'
    BY <1>1, <2>4, ClearGrows
  <2>6. Backed(x)
    BY <2>3 DEF CallsInv, RowsBacked
  <2>7. OneCaptured' /\ items' \in Nat /\ items <= items'
    BY <1>1, <2>1 DEF CallsInv
  <2>8. \/ UNCHANGED wire
        \/ \E n \in ToWindow : /\ wire' = Append(wire, n) /\ n.type # "cleared"
                               /\ n.type = "remotes" => \A y \in ToSet(n.batch) : Backed(y)
    BY <2>4, <2>6
  <2>9. \/ ~ up' \/ "remotes" \in lost' \/ Replaying'
        \/ /\ up /\ "remotes" \notin lost
           /\ \A y \in UnderWay : y \in UnderWay' \/ Carried(y)'
           /\ Replaying => \A y \in ToSet(Kept) : Carried(y)'
    BY <2>1, <2>3, <2>5
  <2>. QED
    BY <2>1, <2>3, <2>7, <2>8, <2>9, CallsElsewhere
<1>6. ASSUME Forward("cleared") PROVE CallsInv'
  <2>0. "remotes" \in Channels /\ "cleared" \in Channels
    BY DEF Channels
  <2>1. /\ UNCHANGED <<Kept, overtaken, rows, capturing, items, OneCaptured>>
        /\ feed'["remotes"] = feed["remotes"] /\ masked' = ToSet(Kept) \ UnderWay
    BY <1>3, <1>6, <2>0 DEF Forward, Kept
  <2>2. PICK m : m = [type |-> "cleared"]
    OBVIOUS
  <2>3. wire' = Append(wire, m) /\ m \in ToWindow /\ m.type = "cleared"
    BY <1>6, <2>2, Messages DEF Forward, Reply
  <2>4. UnderWay' = UnderWay
    BY <2>1 DEF UnderWay
  <2>5. Numbered' /\ OneCaptured' /\ KeptIsAccounted'
    BY <2>1, <2>4 DEF CallsInv, Numbered, KeptIsAccounted, Accounted
  <2>6. \A k \in 0..Len(wire) : ClearOnWire(k)'
    BY <1>1, <2>3, ClearGrows
  <2>7. /\ Len(wire) \in Nat
        /\ \A k \in 1..Len(wire') : k \in 0..Len(wire) \/ wire'[k] = m
        /\ 0 \in 0..Len(wire)
    BY <1>1, <2>3, AppendFacts
  <2>8. RowsBacked'
    BY <2>1, <2>3, <2>4, <2>6, <2>7 DEF CallsInv, RowsBacked, Backed, ClearAhead
  <2>. QED
    BY <2>5, <2>8 DEF CallsInv
<1>. QED
  BY <1>2, <1>4, <1>5, <1>6 DEF Forwards, Channels

LEMMA CallsServe == IInv /\ CallsInv /\ Serve => CallsInv'
<1>. USE DEF sessionVars, relayVars, channelVars, runVars, viewVars, counters
<1>. SUFFICES ASSUME IInv, CallsInv, Serve PROVE CallsInv'
  OBVIOUS
<1>1. inbox \in Seq(ToBroker) /\ wire \in Seq(ToWindow) /\ items \in Nat
      /\ history \in [{"log", "remotes"} -> Seq(Item)]
  BY DEF IInv, Typed
<1>2. inbox # <<>> /\ inbox' = Tail(inbox) /\ UNCHANGED <<feed, lost, up, rows, masked, items, capturing>>
  BY DEF Serve, ServeList, ServeHistory, ServeClear, ServeSecurity, ServeRun, Asks
<1>3. Head(inbox) # Replay("remotes") => (Replaying => Replaying')
  BY <1>1, <1>2, ReplayingChanges
<1>4. CASE ServeHistory("remotes")
  <2>1. UNCHANGED <<Kept, UnderWay, overtaken, clearing>> /\ OneCaptured'
    BY <1>2, <1>4 DEF ServeHistory, Kept, UnderWay, CallsInv, OneCaptured
  <2>2. CASE Kept = <<>>
    <3>1. UNCHANGED wire /\ \A x \in ToSet(Kept) : FALSE
      BY <1>4, <2>2 DEF ServeHistory, Kept, ToSet
    <3>2. \/ ~ up' \/ "remotes" \in lost' \/ Replaying'
          \/ /\ up /\ "remotes" \notin lost
             /\ \A x \in UnderWay : x \in UnderWay' \/ Carried(x)'
             /\ Replaying => \A x \in ToSet(Kept) : Carried(x)'
      BY <1>2, <2>1, <3>1
    <3>. QED
      BY <1>1, <1>2, <2>1, <3>1, <3>2, CallsElsewhere
  <2>3. CASE Kept # <<>>
    <3>1. PICK m : m = [type |-> "remotes", batch |-> Kept]
      OBVIOUS
    <3>2. /\ wire' = Append(wire, m) /\ m \in ToWindow /\ m.type = "remotes"
          /\ m.batch = Kept
      BY <1>1, <1>4, <2>3, <3>1, Messages DEF ServeHistory, Reply, Kept
    <3>3. \A x \in ToSet(Kept) : Carried(x)' /\ Backed(x)
      BY <1>1, <3>2, ClearGrows DEF Backed
    <3>4. \/ ~ up' \/ "remotes" \in lost' \/ Replaying'
          \/ /\ up /\ "remotes" \notin lost
             /\ \A x \in UnderWay : x \in UnderWay' \/ Carried(x)'
             /\ Replaying => \A x \in ToSet(Kept) : Carried(x)'
      BY <1>2, <2>1, <3>3
    <3>5. \/ UNCHANGED wire
          \/ \E n \in ToWindow : /\ wire' = Append(wire, n) /\ n.type # "cleared"
                                 /\ n.type = "remotes" => \A x \in ToSet(n.batch) : Backed(x)
      BY <3>2, <3>3
    <3>. QED
      BY <1>1, <1>2, <2>1, <3>4, <3>5, CallsElsewhere
  <2>. QED
    BY <2>2, <2>3
<1>5. CASE ServeClear
  BY <1>2, <1>5, CallsClear DEF ServeClear
<1>6. CASE ServeList \/ ServeHistory("log") \/ ServeSecurity \/ ServeRun
  <2>1. UNCHANGED <<history, overtaken, clearing>>
    BY <1>6 DEF ServeList, ServeHistory, ServeSecurity, ServeRun
  <2>2. Replaying => Replaying'
    <3>1. Head(inbox).type # "replay" \/ Head(inbox).kind = "log"
      BY <1>6 DEF ServeList, ServeHistory, ServeSecurity, ServeRun, Asks
    <3>2. Replay("remotes").type = "replay" /\ Replay("remotes").kind = "remotes"
      BY DEF Replay
    <3>. QED
      BY <1>3, <3>1, <3>2
  <2>3. \/ UNCHANGED wire
        \/ \E m \in ToWindow : wire' = Append(wire, m) /\ m.type \notin {"cleared", "remotes"}
    <3>1. CASE ServeList
      <4>1. [type |-> "sessions", list |-> store] \in ToWindow
        BY Messages DEF IInv, Typed
      <4>. QED
        BY <3>1, <4>1 DEF ServeList, Reply
    <3>2. CASE ServeHistory("log")
      <4>1. [type |-> "log", batch |-> history["log"]] \in ToWindow
        BY <1>1, Messages
      <4>. QED
        BY <3>2, <4>1 DEF ServeHistory, Reply
    <3>3. CASE ServeSecurity
      BY <3>3 DEF ServeSecurity
    <3>4. CASE ServeRun
      <4>1. Head(inbox) \in ToBroker /\ Head(inbox).type = "run"
        BY <1>1, <3>4 DEF ServeRun, Asks
      <4>2. Head(inbox).run.request \in 1..MaxRuns
        BY <4>1, Fields DEF Run
      <4>3. [type |-> "result", request |-> Head(inbox).run.request] \in ToWindow
        BY <4>2, Messages
      <4>. QED
        BY <3>4, <4>3 DEF ServeRun, Reply
    <3>. QED
      BY <1>6, <3>1, <3>2, <3>3, <3>4
  <2>. QED
    BY <1>2, <2>1, <2>2, <2>3, CallsQuiet
<1>. QED
  BY <1>4, <1>5, <1>6 DEF Serve

\* The window hears a message: what it shows is what it showed and heard, but after a clearing.
LEMMA CallsHeard ==
    ASSUME IInv, CallsInv, wire # <<>>, wire' = Tail(wire), NEW h, h = Head(wire),
           UNCHANGED <<history, items, overtaken, masked, clearing, feed, lost, up, capturing>>,
           Replaying => Replaying',
           \A x \in ToSet(rows') : \/ h.type # "cleared" /\ x \in ToSet(rows)
                                   \/ h.type = "remotes" /\ x \in ToSet(h.batch),
           h.type # "cleared" =>
              \/ Len(rows') = CallsPerRemote
              \/ ToSet(rows) \subseteq ToSet(rows') /\ Len(rows) # CallsPerRemote,
           h.type = "remotes" => Len(rows') = CallsPerRemote \/ ToSet(h.batch) \subseteq ToSet(rows')
    PROVE  CallsInv'
<1>1. /\ wire \in Seq(ToWindow) /\ UNCHANGED <<Kept, UnderWay>>
      /\ \A x : Backed(x)' <=> Backed(x)
  BY DEF IInv, Typed, Kept, UnderWay, Backed
<1>2. /\ \A k \in 0..Len(wire') : ClearOnWire(k+1) <=> ClearOnWire(k)'
      /\ ClearOnWire(0) <=> h.type = "cleared" \/ ClearOnWire(0)'
      /\ \A x : Carried(x) => \/ Carried(x)'
                              \/ h.type = "remotes" /\ x \in ToSet(h.batch) /\ ~ ClearOnWire(0)'
  BY <1>1, ClearShrinks
<1>3. /\ Len(wire') \in Nat /\ Len(wire) = Len(wire') + 1 /\ h = wire[1]
      /\ \A k \in 1..Len(wire') : wire'[k] = wire[k+1]
  BY <1>1, TailFacts
<1>4. Numbered' /\ OneCaptured'
  BY <1>1 DEF CallsInv, Numbered, OneCaptured
<1>5. RowsBacked'
  <2>1. \A x \in UnderWay' : Backed(x)'
    BY <1>1 DEF CallsInv, RowsBacked
  <2>2. ASSUME NEW x \in ToSet(rows') PROVE Backed(x)' \/ ClearAhead(0)'
    <3>1. CASE h.type # "cleared" /\ x \in ToSet(rows)
      BY <1>1, <1>2, <3>1 DEF CallsInv, RowsBacked, ClearAhead
    <3>2. CASE h.type = "remotes" /\ x \in ToSet(h.batch)
      <4>1. 1 \in 1..Len(wire) /\ 0 \in 0..Len(wire') /\ 0 + 1 = 1
        BY <1>3
      <4>2. Backed(x) \/ ClearAhead(1)
        BY <1>3, <3>2, <4>1 DEF CallsInv, RowsBacked
      <4>3. ClearOnWire(1) <=> ClearOnWire(0)'
        BY <1>2, <4>1
      <4>. QED
        BY <1>1, <4>2, <4>3 DEF ClearAhead
    <3>. QED
      BY <2>2, <3>1, <3>2
  <2>3. ASSUME NEW k \in 1..Len(wire'), wire'[k].type = "remotes", NEW x \in ToSet(wire'[k].batch)
        PROVE  Backed(x)' \/ ClearAhead(k)'
    <3>1. k+1 \in 1..Len(wire) /\ wire'[k] = wire[k+1] /\ k \in 0..Len(wire')
      BY <1>3
    <3>2. Backed(x) \/ ClearAhead(k+1)
      BY <2>3, <3>1 DEF CallsInv, RowsBacked
    <3>3. ClearOnWire(k+1) <=> ClearOnWire(k)'
      BY <1>2, <3>1
    <3>. QED
      BY <1>1, <3>2, <3>3 DEF ClearAhead
  <2>. QED
    BY <2>1, <2>2, <2>3 DEF RowsBacked
<1>6. KeptIsAccounted'
  <2>. SUFFICES ASSUME up', "remotes" \notin lost', NEW x \in ToSet(Kept) PROVE Accounted(x)'
    BY <1>1 DEF KeptIsAccounted
  <2>1. Accounted(x)
    BY DEF CallsInv, KeptIsAccounted
  <2>. QED
    BY <1>1, <1>2, <2>1 DEF Accounted
<1>. QED
  BY <1>4, <1>5, <1>6 DEF CallsInv

LEMMA CallsHear == IInv /\ Bounded /\ CallsInv /\ Hear => CallsInv'
<1>. USE DEF sessionVars, relayVars, channelVars, runVars, viewVars, counters
<1>. SUFFICES ASSUME IInv, Bounded, CallsInv, Hear PROVE CallsInv'
  OBVIOUS
<1>1. inbox \in Seq(ToBroker) /\ wire \in Seq(ToWindow) /\ RowsOK(rows)
  BY DEF IInv, Typed, Bounded
<1>2. PICK h : h = Head(wire)
  OBVIOUS
<1>3. /\ wire # <<>> /\ wire' = Tail(wire) /\ h \in ToWindow
      /\ UNCHANGED <<history, items, overtaken, masked, clearing, feed, lost, up, capturing>>
  BY <1>1, <1>2 DEF Hear, OnNewSession, OnRemoveSession, OnSessions, OnSessionLog, OnSessionRemotes,
     OnRemotesCleared, OnRunResult, Hears
<1>4. Replaying => Replaying'
  <2>1. CASE OnNewSession
    <3>. DEFINE more == <<SetSecurity(h.id), ListSessions>>
    <3>1. inbox' = inbox \o more /\ h.type = "added"
      BY <1>2, <2>1 DEF OnNewSession, Send, Hears
    <3>2. SetSecurity(h.id) \in ToBroker /\ ListSessions \in ToBroker
      BY <1>3, <3>1, Messages, Fields
    <3>3. more \in Seq(ToBroker)
      BY <3>2
    <3>. HIDE DEF more
    <3>. QED
      BY <1>1, <3>1, <3>3, ReplayingChanges
  <2>2. CASE ~ OnNewSession
    <3>1. UNCHANGED inbox
      BY <2>2 DEF Hear, OnRemoveSession, OnSessions, OnSessionLog, OnSessionRemotes,
         OnRemotesCleared, OnRunResult
    <3>. QED
      BY <1>1, <3>1, ReplayingChanges
  <2>. QED
    BY <2>1, <2>2
<1>5. CASE OnSessionRemotes
  <2>1. h.type = "remotes" /\ h.batch \in Seq(Item) /\ rows' = FoldLeft(Show, rows, h.batch)
    BY <1>2, <1>5, HeardBatch DEF OnSessionRemotes
  <2>2. /\ ToSet(rows') \subseteq ToSet(rows) \cup ToSet(h.batch)
        /\ Len(rows') = CallsPerRemote \/ ToSet(rows) \cup ToSet(h.batch) \subseteq ToSet(rows')
        /\ Len(rows) = CallsPerRemote => Len(rows') = CallsPerRemote
    BY <1>1, <2>1, ShownBatch
  <2>. QED
    BY <1>2, <1>3, <1>4, <2>1, <2>2, CallsHeard
<1>6. CASE OnRemotesCleared
  <2>1. h.type = "cleared" /\ ToSet(rows') = {}
    BY <1>2, <1>6 DEF OnRemotesCleared, Hears, ToSet
  <2>. QED
    BY <1>2, <1>3, <1>4, <2>1, CallsHeard
<1>7. CASE OnNewSession \/ OnRemoveSession \/ OnSessions \/ OnSessionLog \/ OnRunResult
  <2>1. h.type \notin {"cleared", "remotes"} /\ UNCHANGED rows
    BY <1>2, <1>7 DEF OnNewSession, OnRemoveSession, OnSessions, OnSessionLog, OnRunResult, Hears
  <2>. QED
    BY <1>2, <1>3, <1>4, <2>1, CallsHeard
<1>. QED
  BY <1>5, <1>6, <1>7 DEF Hear

LEMMA CallsRest ==
    ASSUME IInv, Bounded, DownIsEmpty, CallsInv,
           \/ Membership \/ User \/ (\E run \in tasks : Answered(run) \/ Dropped(run))
           \/ Connect \/ Disconnect
    PROVE  CallsInv'
<1>. USE DEF sessionVars, relayVars, channelVars, runVars, viewVars, counters
<1>1. inbox \in Seq(ToBroker) /\ FeedOK /\ items \in Nat
      /\ {"added", "removed", "remotes", "cleared"} \subseteq Channels
  BY DEF IInv, Typed, Channels
<1>2. ASSUME NEW i \in Ids, Join(i) \/ Announce(i) \/ Leave(i) \/ Retract(i) PROVE CallsInv'
  <2>1. UNCHANGED <<history, overtaken, masked, rows, capturing, clearing, up, items, wire, inbox>>
    BY <1>2 DEF Join, Announce, Leave, Retract
  <2>2. i \in Payload
    BY DEF Payload
  <2>3. /\ feed'["remotes"] = feed["remotes"] /\ feed'["cleared"] = feed["cleared"]
        /\ lost \subseteq lost'
    <3>1. CASE Join(i) \/ Leave(i)
      BY <3>1 DEF Join, Leave
    <3>2. CASE Announce(i) \/ Retract(i)
      BY <1>1, <2>2, <3>2, Publishing DEF Announce, Retract
    <3>. QED
      BY <1>2, <3>1, <3>2
  <2>4. Replaying => Replaying'
    BY <1>1, <2>1, ReplayingChanges
  <2>. QED
    BY <2>1, <2>3, <2>4, CallsQuiet
<1>3. CASE User \/ \E run \in tasks : Answered(run) \/ Dropped(run)
  <2>1. UNCHANGED <<history, overtaken, masked, rows, capturing, clearing, up, items, wire, feed, lost>>
    BY <1>3 DEF User, SetTarget, ClearRemotes, RunCode, Answered, Dropped, Finish
  <2>2. Replaying => Replaying'
    <3>1. CASE ClearRemotes
      <4>. DEFINE more == <<[type |-> "clear"]>>
      <4>1. more \in Seq(ToBroker) /\ inbox' = inbox \o more
        BY <3>1, Messages DEF ClearRemotes, Send
      <4>. HIDE DEF more
      <4>. QED
        BY <1>1, <4>1, ReplayingChanges
    <3>2. CASE RunCode
      <4>. DEFINE ask == [type |-> "run", run |-> [request |-> runs + 1, on |-> target]]
      <4>1. [request |-> runs + 1, on |-> target] \in Run
        BY <3>2, ControlFeedAssumption DEF RunCode, IInv, Typed, Run
      <4>2. ask \in ToBroker /\ inbox' = inbox \o <<ask>>
        BY <3>2, <4>1, Messages DEF RunCode, Send
      <4>. HIDE DEF ask
      <4>3. <<ask>> \in Seq(ToBroker)
        BY <4>2
      <4>. QED
        BY <1>1, <4>2, <4>3, ReplayingChanges
    <3>3. CASE ~ ClearRemotes /\ ~ RunCode
      <4>1. UNCHANGED inbox
        BY <1>3, <3>3 DEF User, SetTarget, Answered, Dropped, Finish
      <4>. QED
        BY <1>1, <4>1, ReplayingChanges
    <3>. QED
      BY <3>1, <3>2, <3>3
  <2>. QED
    BY <2>1, <2>2, CallsQuiet
<1>4. CASE Connect
  <2>. DEFINE more == <<ListSessions, Replay("log"), Replay("remotes")>>
  <2>1. inbox' = inbox \o more
        /\ UNCHANGED <<history, overtaken, masked, rows, capturing, clearing, items, wire, feed, lost>>
    BY <1>4 DEF Connect, Send
  <2>2. ListSessions \in ToBroker /\ Replay("log") \in ToBroker /\ Replay("remotes") \in ToBroker
    BY Messages
  <2>3. more \in Seq(ToBroker) /\ 3 \in 1..Len(more) /\ more[3] = Replay("remotes")
    BY <2>2
  <2>. HIDE DEF more
  <2>4. Replaying'
    BY <1>1, <2>1, <2>3, ReplayingChanges
  <2>5. UNCHANGED <<Kept, UnderWay>> /\ OneCaptured' /\ items' \in Nat /\ items <= items'
    BY <1>1, <2>1 DEF Kept, UnderWay, CallsInv, OneCaptured
  <2>. QED
    BY <2>1, <2>4, <2>5, CallsElsewhere
<1>5. CASE Disconnect
  <2>1. /\ ~ up' /\ feed' = Quiet /\ wire' = <<>> /\ rows' = <<>>
        /\ overtaken' = overtaken \cap {m.call : m \in capturing}
        /\ UNCHANGED <<Kept, capturing, items>>
    BY <1>5 DEF Disconnect, Kept
  <2>2. ToSet(rows') = {} /\ Len(wire') = 0 /\ ToSet(feed'["remotes"]) = {}
    BY <2>1 DEF ToSet, Quiet, Channels
  <2>3. UnderWay' = {m.call : m \in {x \in capturing : x.type = "remotes"}}
    BY <2>1, <2>2 DEF UnderWay
  <2>4. ASSUME NEW x \in UnderWay' PROVE Backed(x)'
    <3>1. x \in UnderWay /\ x \in {m.call : m \in capturing}
      BY <2>3, <2>4 DEF UnderWay
    <3>2. Backed(x)
      BY <3>1 DEF CallsInv, RowsBacked
    <3>. QED
      BY <2>1, <3>1, <3>2 DEF Backed
  <2>5. RowsBacked'
    BY <2>2, <2>4 DEF RowsBacked
  <2>. QED
    BY <2>1, <2>5 DEF CallsInv, Numbered, OneCaptured, KeptIsAccounted
<1>. QED
  BY <1>2, <1>3, <1>4, <1>5 DEF Membership

LEMMA CallsStep == IInv /\ Bounded /\ DownIsEmpty /\ CallsInv /\ [Next]_vars => CallsInv'
<1>1. ASSUME IInv, CallsInv, UNCHANGED vars PROVE CallsInv'
  <2>1. UNCHANGED <<history, overtaken, masked, rows, capturing, clearing, up, items, wire, inbox, feed, lost>>
    BY <1>1 DEF vars, sessionVars, relayVars, channelVars, viewVars, counters
  <2>2. Replaying => Replaying'
    BY <2>1 DEF Replaying
  <2>. QED
    BY <1>1, <2>1, <2>2, CallsQuiet
<1>2. ASSUME IInv, Bounded, DownIsEmpty, CallsInv, Next PROVE CallsInv'
  BY <1>2, CallsHistory, CallsForwards, CallsServe, CallsHear, CallsRest DEF Next
<1>. QED
  BY <1>1, <1>2

LEMMA InitCalls == Init => CallsInv
<1>. SUFFICES ASSUME Init PROVE CallsInv
  OBVIOUS
<1>1. /\ Kept = <<>> /\ capturing = {} /\ rows = <<>> /\ wire = <<>> /\ feed["remotes"] = <<>> /\ ~ up
  BY DEF Init, Kept, Quiet, Channels
<1>2. UnderWay = {} /\ ToSet(rows) = {} /\ Len(wire) = 0 /\ Len(Kept) = 0
  BY <1>1 DEF UnderWay, ToSet
<1>. QED
  BY <1>1, <1>2 DEF CallsInv, Numbered, Rising, OneCaptured, RowsBacked, KeptIsAccounted

LEMMA DownInvariance == Spec => []DownIsEmpty
<1>1. DownIsEmpty /\ UNCHANGED vars => DownIsEmpty'
  BY DEF vars, sessionVars, channelVars, viewVars, DownIsEmpty
<1>2. IInv /\ DownIsEmpty /\ [Next]_vars => DownIsEmpty'
  BY <1>1, DownStep
<1>. QED
  BY <1>2, InitInv, InitList, StepInv, PTL DEF Spec

LEMMA CallsInvariance == Spec => [](IInv /\ Bounded /\ CallsInv)
<1>1. Spec => []CallsInv
  BY DownInvariance, BoundedInvariance, InitCalls, CallsStep, PTL DEF Spec
<1>. QED
  BY <1>1, BoundedInvariance, PTL

\* What a sequence that repeats nothing holds is as many values as it is long.
LEMMA OnceCounted == \A T : \A s \in Seq(T) : Once(s) => Cardinality(ToSet(s)) = Len(s)
<1>. SUFFICES ASSUME NEW T, NEW s \in Seq(T), Once(s) PROVE Cardinality(ToSet(s)) = Len(s)
  OBVIOUS
<1>1. Len(s) \in Nat /\ DOMAIN s = 1..Len(s) /\ s \in [1..Len(s) -> T]
  OBVIOUS
<1>2. IsFiniteSet(1..Len(s)) /\ Cardinality(1..Len(s)) = Len(s)
  <2>1. /\ IsFiniteSet(1..Len(s))
        /\ Cardinality(1..Len(s)) = IF 1 > Len(s) THEN 0 ELSE Len(s) - 1 + 1
    BY <1>1, FS_Interval
  <2>. QED
    BY <1>1, <2>1
<1>3. s \in Bijection(1..Len(s), ToSet(s))
  <2>1. s \in [1..Len(s) -> ToSet(s)]
    BY <1>1 DEF ToSet
  <2>2. \A y \in ToSet(s) : \E k \in 1..Len(s) : s[k] = y
    BY <1>1 DEF ToSet
  <2>. QED
    BY <1>1, <2>1, <2>2 DEF Once, IsInjective, Bijection, Injection, Surjection
<1>4. ExistsBijection(1..Len(s), ToSet(s))
  BY <1>3 DEF ExistsBijection
<1>. QED
  BY <1>2, <1>4, FS_Bijection

\* A window to which nothing is under way hears of no clearing, and waits for no call.
LEMMA DrainedCalls ==
    ASSUME Drained
    PROVE  /\ up /\ ~ ClearAhead(0) /\ ~ ClearOnWire(0)
           /\ UnderWay = {} /\ ~ Replaying /\ \A x : ~ Carried(x)
<1>1. /\ up /\ feed = Quiet /\ inbox = <<>> /\ wire = <<>> /\ capturing = {} /\ clearing = {}
  BY DEF Drained
<1>2. feed["cleared"] = <<>> /\ feed["remotes"] = <<>>
  BY <1>1 DEF Quiet, Channels
<1>3. UnderWay = {}
  BY <1>1, <1>2 DEF UnderWay, ToSet
<1>4. ~ ClearOnWire(0) /\ ~ Replaying /\ \A x : ~ Carried(x)
  BY <1>1 DEF ClearOnWire, Replaying, Carried
<1>. QED
  BY <1>1, <1>2, <1>3, <1>4 DEF ClearAhead

\* remotes.ts and mod.rs: however broadcasts, replays and clearings of several windows
\* interleave, a call is on screen once, and one that stays there can be replayed, but for
\* those whose broadcast a clearing overtook and those that made room for others.
THEOREM RowsCorrect == Spec => []RowsAreReplayable
<1>1. ASSUME Bounded, CallsInv PROVE RowsAreReplayable
  <2>1. Cardinality(ToSet(rows)) = Len(rows)
    BY <1>1, OnceCounted DEF Bounded, RowsOK
  <2>2. ASSUME Drained, NEW x \in ToSet(rows) \ (ToSet(Kept) \cup overtaken)
        PROVE  Len(Kept) = HistoryCap["remotes"] /\ x.n < Head(Kept).n
    <3>1. Backed(x)
      BY <1>1, <2>2, DrainedCalls DEF CallsInv, RowsBacked
    <3>. QED
      BY <2>2, <3>1 DEF Backed
  <2>. QED
    BY <2>1, <2>2 DEF RowsAreReplayable, Kept
<1>2. Bounded /\ CallsInv => RowsAreReplayable
  BY <1>1
<1>. QED
  BY <1>2, CallsInvariance, PTL

LEMMA CallsHold == CallsInv /\ Drained => CallsAreShown
<1>. SUFFICES ASSUME CallsInv, Drained, "remotes" \notin lost, Len(rows) # CallsPerRemote,
                     NEW x \in ToSet(Kept)
              PROVE  x \in ToSet(rows) \cup masked
  BY DEF CallsAreShown, Kept
<1>1. Accounted(x)
  BY DrainedCalls DEF CallsInv, KeptIsAccounted
<1>. QED
  BY <1>1, DrainedCalls DEF Accounted

(***************************************************************************)
(* The lines on screen, where sessions do not come and go.                 *)
(***************************************************************************)
Still == world \cap {"sessions", "runs"} = {}

\* Every session stays, and nothing under way says otherwise.
PlainWire ==
    \A k \in 1..Len(wire) : /\ wire[k].type \notin {"added", "removed"}
                            /\ wire[k].type = "sessions" => wire[k].list = Ids

Settled ==
    /\ \A i \in Ids : phase[i] = "live"
    /\ feed["added"] = <<>> /\ feed["removed"] = <<>>
    /\ PlainWire

\* The window knows the sessions before it hears message k, and once it has heard all.
KnowsBefore(k) == registry = Ids \/ \E p \in 1..k-1 : wire[p].type = "sessions"
KnowsAfter == registry = Ids \/ \E p \in 1..Len(wire) : wire[p].type = "sessions"

\* The lines have been asked for; after the sessions.
LogAsked == \E q \in 1..Len(inbox) : inbox[q] = Replay("log")
LogAfterList ==
    \E q \in 1..Len(inbox) : /\ inbox[q] = Replay("log")
                             /\ \E p \in 1..q-1 : inbox[p].type = "list"

\* Line x is on the wire, and is not dropped when it is heard; it is captured or broadcast.
LineOnWire(x) ==
    \E k \in 1..Len(wire) : /\ wire[k].type = "log" /\ x \in ToSet(wire[k].batch)
                            /\ KnowsBefore(k)
LineSent(x) == [type |-> "log", call |-> x] \in capturing \/ x \in ToSet(feed["log"])

LineAhead(x) ==
    \/ x \in lines \/ LineOnWire(x) \/ LogAfterList
    \/ KnowsAfter /\ (LogAsked \/ LineSent(x))

\* A window that is connected knows the sessions when it hears of a line, or asks for the
\* lines once more after that.
LinesInv ==
    Still =>
        /\ Settled
        /\ up => KnowsAfter \/ LogAfterList
        /\ up /\ "log" \notin lost => \A x \in ToSet(history["log"]) : LineAhead(x)

\* What is appended to the wire is heard after all that is there.
LEMMA LineGrows ==
    ASSUME wire \in Seq(ToWindow), NEW m \in ToWindow, wire' = Append(wire, m), UNCHANGED registry
    PROVE  /\ KnowsAfter \/ m.type = "sessions" => KnowsAfter'
           /\ \A x : LineOnWire(x) => LineOnWire(x)'
           /\ m.type = "log" /\ KnowsAfter => \A x \in ToSet(m.batch) : LineOnWire(x)'
           /\ PlainWire /\ m.type \notin {"added", "removed"}
                /\ (m.type = "sessions" => m.list = Ids) => PlainWire'
<1>1. /\ Len(wire) \in Nat /\ Len(wire') = Len(wire) + 1 /\ wire'[Len(wire) + 1] = m
      /\ \A k \in 1..Len(wire) : wire'[k] = wire[k]
      /\ \A k \in 1..Len(wire') : k \in 1..Len(wire) \/ k = Len(wire) + 1
  BY AppendFacts
<1>2. /\ \A k \in 1..Len(wire) : k \in 1..Len(wire')
      /\ Len(wire) + 1 \in 1..Len(wire')
      /\ \A k \in 1..Len(wire) : \A p \in 1..k-1 : p \in 1..Len(wire)
      /\ (Len(wire) + 1) - 1 = Len(wire)
  BY <1>1
<1>3. KnowsAfter \/ m.type = "sessions" => KnowsAfter'
  BY <1>1, <1>2 DEF KnowsAfter
<1>4. \A k \in 1..Len(wire) : KnowsBefore(k) => KnowsBefore(k)'
  BY <1>1, <1>2 DEF KnowsBefore
<1>5. ASSUME m.type = "log", KnowsAfter, NEW x \in ToSet(m.batch) PROVE LineOnWire(x)'
  <2>1. PICK n : n = Len(wire) + 1
    OBVIOUS
  <2>2. n \in 1..Len(wire') /\ wire'[n] = m /\ n - 1 = Len(wire)
    BY <1>1, <1>2, <2>1
  <2>3. KnowsBefore(n)'
    BY <1>1, <1>5, <2>2 DEF KnowsAfter, KnowsBefore
  <2>. QED
    BY <1>5, <2>2, <2>3 DEF LineOnWire
<1>6. \A x : LineOnWire(x) => LineOnWire(x)'
  BY <1>1, <1>2, <1>4 DEF LineOnWire
<1>7. PlainWire /\ m.type \notin {"added", "removed"}
        /\ (m.type = "sessions" => m.list = Ids) => PlainWire'
  BY <1>1 DEF PlainWire
<1>. QED
  BY <1>3, <1>5, <1>6, <1>7

\* A message is heard.
LEMMA LineShrinks ==
    ASSUME wire \in Seq(ToWindow), wire # <<>>, wire' = Tail(wire),
           registry = Ids \/ Head(wire).type = "sessions" => registry' = Ids
    PROVE  /\ KnowsAfter => KnowsAfter'
           /\ \A x : LineOnWire(x) => \/ LineOnWire(x)'
                                      \/ /\ Head(wire).type = "log" /\ registry = Ids
                                         /\ x \in ToSet(Head(wire).batch)
           /\ PlainWire => /\ PlainWire' /\ Head(wire).type \notin {"added", "removed"}
                           /\ Head(wire).type = "sessions" => Head(wire).list = Ids
<1>1. /\ Len(wire') \in Nat /\ Len(wire) = Len(wire') + 1 /\ Head(wire) = wire[1]
      /\ \A k \in 1..Len(wire') : wire'[k] = wire[k+1]
      /\ \A k \in 1..Len(wire) : k = 1 \/ k-1 \in 1..Len(wire')
  BY TailFacts
<1>2. /\ \A k \in 1..Len(wire') : k+1 \in 1..Len(wire)
      /\ 1 \in 1..Len(wire)
      /\ \A k \in 1..Len(wire) : k # 1 => wire'[k-1] = wire[k]
      /\ \A p \in 1..0 : FALSE
      /\ 1 - 1 = 0
  BY <1>1
<1>3. KnowsAfter => KnowsAfter'
  BY <1>1, <1>2 DEF KnowsAfter
<1>4. ASSUME NEW k \in 1..Len(wire), k # 1, KnowsBefore(k) PROVE KnowsBefore(k-1)'
  <2>1. CASE registry = Ids
    BY <2>1 DEF KnowsBefore
  <2>2. CASE registry # Ids
    <3>1. PICK p \in 1..k-1 : wire[p].type = "sessions"
      BY <1>4, <2>2 DEF KnowsBefore
    <3>2. p = 1 \/ (p-1 \in 1..(k-1)-1 /\ wire'[p-1] = wire[p])
      BY <1>1, <1>2, <1>4
    <3>. QED
      BY <1>1, <3>1, <3>2 DEF KnowsBefore
  <2>. QED
    BY <2>1, <2>2
<1>5. ASSUME NEW x, LineOnWire(x)
      PROVE  \/ LineOnWire(x)'
             \/ Head(wire).type = "log" /\ registry = Ids /\ x \in ToSet(Head(wire).batch)
  <2>1. PICK k \in 1..Len(wire) : /\ wire[k].type = "log" /\ x \in ToSet(wire[k].batch)
                                  /\ KnowsBefore(k)
    BY <1>5 DEF LineOnWire
  <2>2. CASE k = 1
    BY <1>1, <1>2, <2>1, <2>2 DEF KnowsBefore
  <2>3. CASE k # 1
    BY <1>1, <1>2, <1>4, <2>1, <2>3 DEF LineOnWire
  <2>. QED
    BY <2>2, <2>3
<1>6. PlainWire => /\ PlainWire' /\ Head(wire).type \notin {"added", "removed"}
                   /\ Head(wire).type = "sessions" => Head(wire).list = Ids
  BY <1>1, <1>2 DEF PlainWire
<1>. QED
  BY <1>3, <1>5, <1>6

\* The requests for the lines stay asked for, until one is served.
LEMMA AskedChanges ==
    ASSUME inbox \in Seq(ToBroker)
    PROVE  /\ inbox # <<>> /\ inbox' = Tail(inbox) =>
                /\ Head(inbox) # Replay("log") => (LogAsked => LogAsked')
                /\ Head(inbox).type # "list" => (LogAfterList => LogAfterList')
                /\ LogAfterList => LogAsked'
           /\ \A more \in Seq(ToBroker) : inbox' = inbox \o more =>
                (LogAsked => LogAsked') /\ (LogAfterList => LogAfterList')
<1>1. ASSUME inbox # <<>>, inbox' = Tail(inbox)
      PROVE  /\ Head(inbox) # Replay("log") => (LogAsked => LogAsked')
             /\ Head(inbox).type # "list" => (LogAfterList => LogAfterList')
             /\ LogAfterList => LogAsked'
  <2>1. /\ Len(inbox') \in Nat /\ Len(inbox) = Len(inbox') + 1 /\ Head(inbox) = inbox[1]
        /\ \A k \in 1..Len(inbox') : inbox'[k] = inbox[k+1]
        /\ \A k \in 1..Len(inbox) : k = 1 \/ k-1 \in 1..Len(inbox')
    BY <1>1, TailFacts
  <2>2. \A k \in 1..Len(inbox) : k # 1 => k-1 \in 1..Len(inbox') /\ inbox'[k-1] = inbox[k]
    BY <2>1
  <2>3. Head(inbox) # Replay("log") => (LogAsked => LogAsked')
    BY <2>1, <2>2 DEF LogAsked
  <2>4. ASSUME LogAfterList
        PROVE  LogAsked' /\ (Head(inbox).type # "list" => LogAfterList')
    <3>1. PICK q \in 1..Len(inbox) : /\ inbox[q] = Replay("log")
                                     /\ \E p \in 1..q-1 : inbox[p].type = "list"
      BY <2>4 DEF LogAfterList
    <3>2. PICK p \in 1..q-1 : inbox[p].type = "list"
      BY <3>1
    <3>3. q # 1 /\ p \in 1..Len(inbox) /\ (p # 1 => p-1 \in 1..(q-1)-1)
      BY <2>1
    <3>. QED
      BY <2>1, <2>2, <3>1, <3>2, <3>3 DEF LogAsked, LogAfterList
  <2>. QED
    BY <2>3, <2>4
<1>2. ASSUME NEW more \in Seq(ToBroker), inbox' = inbox \o more
      PROVE  (LogAsked => LogAsked') /\ (LogAfterList => LogAfterList')
  <2>1. \A k \in 1..Len(inbox) : k \in 1..Len(inbox') /\ inbox'[k] = inbox[k]
    BY <1>2
  <2>2. \A q \in 1..Len(inbox) : \A p \in 1..q-1 : p \in 1..Len(inbox)
    BY <1>2
  <2>. QED
    BY <2>1, <2>2 DEF LogAsked, LogAfterList
<1>. QED
  BY <1>1, <1>2

\* Steps that lose nothing of what shows a line.
LEMMA LinesElsewhere ==
    ASSUME LinesInv, UNCHANGED <<world, registry>>, up' => up, "log" \in lost => "log" \in lost',
           Settled => Settled',
           KnowsAfter => KnowsAfter', LogAsked => LogAsked', LogAfterList => LogAfterList',
           history'["log"] = history["log"], lines \subseteq lines',
           \A x : LineOnWire(x) => LineOnWire(x)',
           \A x : LineSent(x) => LineSent(x)'
    PROVE  LinesInv'
<1>. SUFFICES ASSUME Still PROVE LinesInv'
  BY DEF LinesInv, Still
<1>1. Settled' /\ (up' => KnowsAfter' \/ LogAfterList')
  BY DEF LinesInv
<1>2. ASSUME up', "log" \notin lost', NEW x \in ToSet(history'["log"]) PROVE LineAhead(x)'
  <2>1. LineAhead(x)
    BY <1>2 DEF LinesInv
  <2>. QED
    BY <2>1 DEF LineAhead
<1>. QED
  BY <1>1, <1>2 DEF LinesInv

\* What the wire, the requests and the registry are read for does not change with them.
LEMMA SameWire ==
    UNCHANGED <<wire, registry>> =>
        /\ KnowsAfter <=> KnowsAfter'
        /\ \A x : LineOnWire(x) <=> LineOnWire(x)'
        /\ PlainWire <=> PlainWire'
BY DEF KnowsAfter, LineOnWire, KnowsBefore, PlainWire

LEMMA SameInbox ==
    UNCHANGED inbox => (LogAsked <=> LogAsked') /\ (LogAfterList <=> LogAfterList')
BY DEF LogAsked, LogAfterList

LEMMA SameSent ==
    UNCHANGED capturing /\ feed'["log"] = feed["log"] => \A x : LineSent(x) => LineSent(x)'
BY DEF LineSent

LEMMA NoMembership == IInv /\ LinesInv /\ Still => ~ Membership
BY DEF LinesInv, Settled, Still, Membership, Join, Announce, Leave, Retract

\* A publication on another channel than those of the sessions.
LEMMA LinesPublish ==
    ASSUME IInv, LinesInv, NEW c \in {"log", "remotes", "cleared"}, NEW m \in Payload,
           Publish(c, m), UNCHANGED <<world, phase, registry, up, wire, inbox, lines>>,
           history'["log"] = history["log"],
           \A x : LineSent(x) => LineSent(x)' \/ "log" \in lost' \/ ~ up
    PROVE  LinesInv'
<1>1. FeedOK /\ c \in Channels
  BY DEF IInv, Typed, Channels
<1>2. /\ \A d \in Channels : d # c => feed'[d] = feed[d]
      /\ lost \subseteq lost'
  BY <1>1, Publishing
<1>3. Settled => Settled'
  BY <1>2, SameWire DEF Settled, Channels
<1>. SUFFICES ASSUME Still PROVE LinesInv'
  BY DEF LinesInv, Still
<1>4. Settled' /\ (up' => KnowsAfter' \/ LogAfterList')
  BY <1>3, SameWire, SameInbox DEF LinesInv
<1>5. ASSUME up', "log" \notin lost', NEW x \in ToSet(history'["log"]) PROVE LineAhead(x)'
  <2>1. LineAhead(x)
    BY <1>2, <1>5 DEF LinesInv
  <2>. QED
    BY <1>5, <2>1, SameWire, SameInbox DEF LineAhead
<1>. QED
  BY <1>4, <1>5 DEF LinesInv

LEMMA LinesHistory == IInv /\ Bounded /\ CallsInv /\ LinesInv /\ History => LinesInv'
<1>. SUFFICES ASSUME IInv, Bounded, CallsInv, LinesInv, History PROVE LinesInv'
  OBVIOUS
<1>1. /\ FeedOK /\ history \in [{"log", "remotes"} -> Seq(Item)]
      /\ capturing \subseteq [type : {"log", "remotes"}, call : Item]
  BY DEF IInv, Typed
<1>2. ASSUME NEW i \in Ids, Capture("log", i) PROVE LinesInv'
  <2>1. PICK new : /\ new = [n |-> items + 1, from |-> i]
                   /\ history'["log"] = Push(history["log"], new, HistoryCap["log"])
                   /\ capturing = {} /\ capturing' = {[type |-> "log", call |-> new]}
                   /\ UNCHANGED <<world, phase, registry, up, wire, inbox, lines, feed, lost>>
    BY <1>1, <1>2 DEF Capture, Push, sessionVars, channelVars, viewVars
  <2>2. new \in Item
    BY <1>2, <2>1, ControlFeedAssumption DEF Item, Capture, IInv, Typed
  <2>3. ToSet(history'["log"]) \subseteq ToSet(history["log"]) \cup {new}
    BY <1>1, <2>1, <2>2, Pushed, ControlFeedAssumption DEF Push
  <2>4. /\ \A x : LineSent(x) => LineSent(x)'
        /\ LineSent(new)'
    BY <2>1 DEF LineSent
  <2>. SUFFICES ASSUME Still PROVE LinesInv'
    BY <2>1 DEF LinesInv, Still
  <2>5. Settled' /\ (up' => KnowsAfter' \/ LogAfterList')
    BY <2>1, SameWire, SameInbox DEF LinesInv, Settled
  <2>6. ASSUME up', "log" \notin lost', NEW x \in ToSet(history'["log"]) PROVE LineAhead(x)'
    <3>1. CASE x = new
      BY <2>4, <2>5, <2>6, <3>1 DEF LineAhead
    <3>2. CASE x \in ToSet(history["log"])
      <4>1. LineAhead(x)
        BY <2>1, <2>6, <3>2 DEF LinesInv
      <4>. QED
        BY <2>1, <2>4, <4>1, SameWire, SameInbox DEF LineAhead
    <3>. QED
      BY <2>3, <2>6, <3>1, <3>2
  <2>. QED
    BY <2>5, <2>6 DEF LinesInv
<1>3. ASSUME NEW i \in Ids, Capture("remotes", i) PROVE LinesInv'
  <2>1. /\ history'["log"] = history["log"] /\ capturing = {}
        /\ UNCHANGED <<world, phase, registry, up, wire, inbox, lines, feed, lost>>
    BY <1>1, <1>3 DEF Capture, sessionVars, channelVars, viewVars
  <2>2. \A x : LineSent(x) => LineSent(x)'
    BY <2>1 DEF LineSent
  <2>3. Settled => Settled'
    BY <2>1, SameWire DEF Settled
  <2>. QED
    BY <2>1, <2>2, <2>3, SameWire, SameInbox, LinesElsewhere
<1>4. ASSUME Relay PROVE LinesInv'
  <2>1. PICK m \in capturing : Publish(m.type, m.call)
    BY <1>4 DEF Relay
  <2>2. /\ capturing' = {} /\ UNCHANGED <<world, phase, registry, up, wire, inbox, lines, history>>
    BY <1>4 DEF Relay, sessionVars, viewVars
  <2>3. /\ m.type \in {"log", "remotes"} /\ m.type \in Channels
        /\ m.call \in Item /\ m.call \in Payload
        /\ \A a \in capturing : a = m
    BY <1>1, <2>1 DEF CallsInv, OneCaptured, Payload, Channels
  <2>4. /\ \A d \in Channels : d # m.type => feed'[d] = feed[d]
        /\ up => m.call \in ToSet(feed'[m.type])
        /\ m.type \notin lost' => ToSet(feed[m.type]) \subseteq ToSet(feed'[m.type])
    BY <1>1, <2>1, <2>3, Publishing
  <2>5. ASSUME NEW x, LineSent(x), up, "log" \notin lost' PROVE LineSent(x)'
    <3>1. CASE [type |-> "log", call |-> x] \in capturing
      <4>1. m.type = "log" /\ m.call = x
        BY <2>3, <3>1
      <4>. QED
        BY <2>4, <2>5, <4>1 DEF LineSent
    <3>2. CASE x \in ToSet(feed["log"])
      BY <2>4, <2>5, <3>2 DEF LineSent, Channels
    <3>. QED
      BY <2>5, <3>1, <3>2 DEF LineSent
  <2>. QED
    BY <2>1, <2>2, <2>3, <2>5, LinesPublish
<1>5. ASSUME ClearElsewhere PROVE LinesInv'
  <2>1. /\ history'["log"] = history["log"]
        /\ UNCHANGED <<world, phase, registry, up, wire, inbox, lines, feed, lost, capturing>>
    BY <1>1, <1>5 DEF ClearElsewhere, Clear, sessionVars, channelVars, viewVars
  <2>2. Settled => Settled'
    BY <2>1, SameWire DEF Settled
  <2>. QED
    BY <2>1, <2>2, SameWire, SameInbox, SameSent, LinesElsewhere
<1>6. ASSUME NEW who, TellCleared(who) PROVE LinesInv'
  <2>1. /\ Publish("cleared", NoId)
        /\ UNCHANGED <<world, phase, registry, up, wire, inbox, lines, history, capturing>>
    BY <1>6 DEF TellCleared, sessionVars, viewVars
  <2>2. NoId \in Payload /\ "cleared" \in Channels /\ "log" \in Channels
    BY DEF Payload, Channels
  <2>3. feed'["log"] = feed["log"]
    BY <1>1, <2>1, <2>2, Publishing
  <2>. QED
    BY <2>1, <2>2, <2>3, SameSent, LinesPublish
<1>. QED
  BY <1>2, <1>3, <1>4, <1>5, <1>6 DEF History

\* A reply that says nothing of the sessions, and leaves the lines to be forwarded alone.
LEMMA LinesReply ==
    ASSUME IInv, LinesInv, NEW m \in ToWindow, Reply(m), Plain(m),
           UNCHANGED <<world, phase, registry, up, lines, capturing, lost, history>>,
           \A c \in {"added", "removed", "log"} : feed'[c] = feed[c],
           LogAsked => LogAsked', LogAfterList => LogAfterList'
    PROVE  LinesInv'
<1>1. wire' = Append(wire, m) /\ wire \in Seq(ToWindow)
  BY DEF Reply, IInv, Typed
<1>2. /\ KnowsAfter => KnowsAfter'
      /\ \A x : LineOnWire(x) => LineOnWire(x)'
      /\ PlainWire => PlainWire'
  BY <1>1, LineGrows DEF Plain
<1>3. Settled => Settled'
  BY <1>2 DEF Settled
<1>4. /\ \A x : LineSent(x) => LineSent(x)'
      /\ history'["log"] = history["log"] /\ lines \subseteq lines' /\ UNCHANGED <<world, registry>>
      /\ ("log" \in lost => "log" \in lost') /\ (up' => up)
  BY SameSent
<1>. QED
  BY <1>2, <1>3, <1>4, LinesElsewhere

LEMMA LinesForwards == IInv /\ LinesInv /\ Forwards => LinesInv'
<1>. SUFFICES ASSUME IInv, LinesInv, Forwards PROVE LinesInv'
  OBVIOUS
<1>. USE DEF sessionVars, relayVars, channelVars, runVars, viewVars, counters
<1>1. FeedOK /\ wire \in Seq(ToWindow)
  BY DEF IInv, Typed
<1>2. ASSUME NEW r \in results, ForwardResult(r) PROVE LinesInv'
  <2>. DEFINE m == [type |-> "result", request |-> r]
  <2>1. m \in ToWindow /\ Plain(m) /\ Reply(m)
    BY <1>2, Messages DEF ForwardResult, IInv, Typed, Plain
  <2>2. UNCHANGED <<world, phase, registry, up, lines, capturing, lost, history, inbox, feed>>
    BY <1>2 DEF ForwardResult
  <2>. HIDE DEF m
  <2>. QED
    BY <2>1, <2>2, SameInbox, LinesReply
<1>3. ASSUME NEW c \in {"remotes", "cleared"}, Forward(c) PROVE LinesInv'
  <2>1. PICK m : Reply(m) /\ m \in ToWindow /\ m.type = c
    <3>1. CASE c = "cleared"
      BY <1>3, <3>1, Messages DEF Forward
    <3>2. CASE c = "remotes"
      <4>1. <<Head(feed[c])>> \in Seq(Item)
        BY <1>1, <1>3, <3>2 DEF Forward, FeedOK
      <4>2. [type |-> c, batch |-> <<Head(feed[c])>>] \in ToWindow
        BY <3>2, <4>1, Messages
      <4>. QED
        BY <1>3, <3>2, <4>2 DEF Forward
    <3>. QED
      BY <1>3, <3>1, <3>2
  <2>2. /\ UNCHANGED <<world, phase, registry, up, lines, capturing, lost, history, inbox>>
        /\ \A d \in {"added", "removed", "log"} : feed'[d] = feed[d]
    BY <1>1, <1>3 DEF Forward, FeedOK, Channels
  <2>. QED
    BY <1>3, <2>1, <2>2, SameInbox, LinesReply DEF Plain
<1>4. ASSUME Forward("log") PROVE LinesInv'
  <2>1. PICK h : h = Head(feed["log"])
    OBVIOUS
  <2>2. PICK m : m = [type |-> "log", batch |-> <<h>>]
    OBVIOUS
  <2>3. /\ wire' = Append(wire, m) /\ feed["log"] # <<>> /\ feed'["log"] = Tail(feed["log"])
        /\ feed'["added"] = feed["added"] /\ feed'["removed"] = feed["removed"]
        /\ UNCHANGED <<world, phase, registry, up, lines, capturing, lost, history, inbox>>
    BY <1>1, <1>4, <2>1, <2>2 DEF Forward, Reply, FeedOK, Channels
  <2>4. h \in Item /\ \A x \in ToSet(feed["log"]) : x = h \/ x \in ToSet(feed'["log"])
    BY <1>1, <2>1, <2>3, HeadOrTail DEF FeedOK
  <2>5. m \in ToWindow /\ m.type = "log" /\ h \in ToSet(m.batch)
    <3>1. <<h>> \in Seq(Item) /\ h \in ToSet(<<h>>)
      BY <2>4 DEF ToSet
    <3>. QED
      BY <2>2, <3>1, Messages
  <2>6. /\ KnowsAfter => KnowsAfter'
        /\ \A x : LineOnWire(x) => LineOnWire(x)'
        /\ KnowsAfter => LineOnWire(h)'
        /\ PlainWire => PlainWire'
    BY <1>1, <2>3, <2>5, LineGrows
  <2>. SUFFICES ASSUME Still PROVE LinesInv'
    BY <2>3 DEF LinesInv, Still
  <2>7. Settled' /\ (up' => KnowsAfter' \/ LogAfterList')
    BY <2>3, <2>6, SameInbox DEF LinesInv, Settled
  <2>8. ASSUME up', "log" \notin lost', NEW x \in ToSet(history'["log"]) PROVE LineAhead(x)'
    <3>1. LineAhead(x)
      BY <2>3, <2>8 DEF LinesInv
    <3>2. KnowsAfter /\ LineSent(x) => LineSent(x)' \/ LineOnWire(x)'
      BY <2>3, <2>4, <2>6 DEF LineSent
    <3>. QED
      BY <2>3, <2>6, <3>1, <3>2, SameInbox DEF LineAhead
  <2>. QED
    BY <2>7, <2>8 DEF LinesInv
<1>5. ASSUME NEW c \in {"added", "removed"}, Forward(c) PROVE LinesInv'
  <2>1. ~ Still /\ UNCHANGED world
    BY <1>5 DEF Forward, LinesInv, Settled
  <2>. QED
    BY <2>1 DEF LinesInv, Still
<1>. QED
  BY <1>2, <1>3, <1>4, <1>5 DEF Forwards, Channels

LEMMA LinesServe == IInv /\ LinesInv /\ Serve => LinesInv'
<1>. SUFFICES ASSUME IInv, LinesInv, Serve PROVE LinesInv'
  OBVIOUS
<1>. USE DEF sessionVars, relayVars, channelVars, runVars, viewVars, counters
<1>1. inbox \in Seq(ToBroker) /\ wire \in Seq(ToWindow)
      /\ history \in [{"log", "remotes"} -> Seq(Item)]
  BY DEF IInv, Typed
<1>2. /\ inbox # <<>> /\ inbox' = Tail(inbox)
      /\ UNCHANGED <<world, phase, registry, up, lines, capturing, lost, feed>>
  BY DEF Serve, ServeList, ServeHistory, ServeClear, ServeSecurity, ServeRun, Asks
<1>3. /\ Head(inbox) # Replay("log") => (LogAsked => LogAsked')
      /\ Head(inbox).type # "list" => (LogAfterList => LogAfterList')
      /\ LogAfterList => LogAsked'
  BY <1>1, <1>2, AskedChanges
<1>4. Replay("log").type = "replay" /\ Replay("log").kind = "log"
  BY DEF Replay
<1>5. CASE ServeList
  <2>1. PICK m : m = [type |-> "sessions", list |-> store]
    OBVIOUS
  <2>2. /\ wire' = Append(wire, m) /\ m.type = "sessions" /\ m.list = store /\ m \in ToWindow
        /\ UNCHANGED history /\ Head(inbox).type = "list"
    BY <1>5, <2>1, Messages DEF ServeList, Asks, Reply, IInv, Typed
  <2>. SUFFICES ASSUME Still PROVE LinesInv'
    BY <1>2 DEF LinesInv, Still
  <2>3. store = Ids
    BY DEF IInv, Typed, LinesInv, Settled
  <2>4. KnowsAfter' /\ PlainWire' /\ \A x : LineOnWire(x) => LineOnWire(x)'
    BY <1>1, <1>2, <2>2, <2>3, LineGrows DEF LinesInv, Settled
  <2>5. LogAsked \/ LogAfterList => LogAsked'
    BY <1>3, <1>4, <2>2
  <2>6. ASSUME up', "log" \notin lost', NEW x \in ToSet(history'["log"]) PROVE LineAhead(x)'
    <3>1. LineAhead(x)
      BY <1>2, <2>2, <2>6 DEF LinesInv
    <3>2. LineSent(x) => LineSent(x)'
      BY <1>2, SameSent
    <3>. QED
      BY <1>2, <2>4, <2>5, <3>1, <3>2 DEF LineAhead
  <2>. QED
    BY <1>2, <2>4, <2>6 DEF LinesInv, Settled
<1>6. CASE ServeHistory("log")
  <2>1. LogAfterList => LogAfterList'
    BY <1>3, <1>6 DEF ServeHistory, Asks
  <2>2. UNCHANGED history
    BY <1>6 DEF ServeHistory
  <2>3. /\ KnowsAfter => KnowsAfter'
        /\ KnowsAfter => \A x \in ToSet(history["log"]) : LineOnWire(x)'
        /\ PlainWire => PlainWire'
    <3>1. CASE history["log"] = <<>>
      <4>1. UNCHANGED wire /\ ToSet(history["log"]) = {}
        BY <1>6, <3>1 DEF ServeHistory, ToSet
      <4>. QED
        BY <1>2, <4>1, SameWire
    <3>2. CASE history["log"] # <<>>
      <4>1. PICK m : m = [type |-> "log", batch |-> history["log"]]
        OBVIOUS
      <4>2. /\ wire' = Append(wire, m) /\ m \in ToWindow /\ m.type = "log"
            /\ m.batch = history["log"]
        BY <1>1, <1>6, <3>2, <4>1, Messages DEF ServeHistory, Reply
      <4>. QED
        BY <1>1, <1>2, <4>2, LineGrows
    <3>. QED
      BY <3>1, <3>2
  <2>. SUFFICES ASSUME Still PROVE LinesInv'
    BY <1>2 DEF LinesInv, Still
  <2>4. Settled' /\ (up' => KnowsAfter' \/ LogAfterList')
    BY <1>2, <2>1, <2>3 DEF LinesInv, Settled
  <2>5. ASSUME up', "log" \notin lost', NEW x \in ToSet(history'["log"]) PROVE LineAhead(x)'
    BY <1>2, <2>1, <2>2, <2>3, <2>5 DEF LineAhead, LinesInv
  <2>. QED
    BY <2>4, <2>5 DEF LinesInv
<1>7. CASE ServeHistory("remotes") \/ ServeClear \/ ServeSecurity \/ ServeRun
  <2>1. Head(inbox).type # "list" /\ Head(inbox) # Replay("log")
    BY <1>4, <1>7 DEF ServeHistory, ServeClear, ServeSecurity, ServeRun, Asks
  <2>2. history'["log"] = history["log"]
    BY <1>1, <1>7 DEF ServeHistory, ServeClear, Clear, ServeSecurity, ServeRun
  <2>3. \/ UNCHANGED wire
        \/ \E m \in ToWindow : wire' = Append(wire, m) /\ Plain(m)
    <3>1. CASE ServeHistory("remotes")
      <4>1. [type |-> "remotes", batch |-> history["remotes"]] \in ToWindow
        BY <1>1, Messages
      <4>. QED
        BY <3>1, <4>1 DEF ServeHistory, Reply, Plain
    <3>2. CASE ServeSecurity \/ ServeClear
      BY <3>2 DEF ServeSecurity, ServeClear
    <3>3. CASE ServeRun
      <4>1. Head(inbox) \in ToBroker /\ Head(inbox).type = "run"
        BY <1>1, <3>3 DEF ServeRun, Asks
      <4>2. Head(inbox).run.request \in 1..MaxRuns
        BY <4>1, Fields DEF Run
      <4>3. [type |-> "result", request |-> Head(inbox).run.request] \in ToWindow
        BY <4>2, Messages
      <4>. QED
        BY <3>3, <4>3 DEF ServeRun, Reply, Plain
    <3>. QED
      BY <1>7, <3>1, <3>2, <3>3
  <2>4. /\ KnowsAfter => KnowsAfter'
        /\ \A x : LineOnWire(x) => LineOnWire(x)'
        /\ PlainWire => PlainWire'
    BY <1>1, <1>2, <2>3, SameWire, LineGrows DEF Plain
  <2>5. Settled => Settled'
    BY <1>2, <2>4 DEF Settled
  <2>6. \A x : LineSent(x) => LineSent(x)'
    BY <1>2, SameSent
  <2>. QED
    BY <1>2, <1>3, <2>1, <2>2, <2>4, <2>5, <2>6, LinesElsewhere
<1>. QED
  BY <1>5, <1>6, <1>7 DEF Serve

LEMMA LinesHear == IInv /\ Bounded /\ LinesInv /\ Hear => LinesInv'
<1>. SUFFICES ASSUME IInv, Bounded, LinesInv, Hear PROVE LinesInv'
  OBVIOUS
<1>. USE DEF sessionVars, relayVars, channelVars, runVars, viewVars, counters
<1>1. /\ wire \in Seq(ToWindow) /\ wire # <<>> /\ wire' = Tail(wire)
      /\ UNCHANGED <<world, phase, up, capturing, lost, history, feed>>
      /\ history["log"] \in Seq(Item) /\ lines \subseteq Item
  BY DEF IInv, Typed, Bounded, Hear, OnNewSession, OnRemoveSession, OnSessions, OnSessionLog,
         OnSessionRemotes, OnRemotesCleared, OnRunResult, Hears
<1>. SUFFICES ASSUME Still PROVE LinesInv'
  BY <1>1 DEF LinesInv, Still
<1>2. CASE registry = Ids \/ Head(wire).type = "sessions" => registry' = Ids
  <2>1. /\ KnowsAfter => KnowsAfter'
        /\ \A x : LineOnWire(x) => \/ LineOnWire(x)'
                                   \/ /\ Head(wire).type = "log" /\ registry = Ids
                                      /\ x \in ToSet(Head(wire).batch)
        /\ PlainWire'
        /\ Head(wire).type \notin {"added", "removed"}
        /\ Head(wire).type = "sessions" => Head(wire).list = Ids
    BY <1>1, <1>2, LineShrinks DEF LinesInv, Settled
  <2>2. UNCHANGED inbox
    BY <2>1 DEF Hear, OnNewSession, OnRemoveSession, OnSessions, OnSessionLog,
                OnSessionRemotes, OnRemotesCleared, OnRunResult, Hears
  <2>3. Settled' /\ (up' => KnowsAfter' \/ LogAfterList')
    BY <1>1, <2>1, <2>2, SameInbox DEF LinesInv, Settled
  <2>4. \A x \in lines : x \in lines'
    <3>1. CASE OnSessions
      <4>1. lines' = {x \in lines : x.from \in Ids}
        BY <2>1, <3>1 DEF OnSessions, Hears, Adopt
      <4>. QED
        BY <1>1, <4>1 DEF Item
    <3>2. CASE OnSessionLog \/ OnSessionRemotes \/ OnRemotesCleared \/ OnRunResult
      BY <3>2 DEF OnSessionLog, OnSessionRemotes, OnRemotesCleared, OnRunResult
    <3>. QED
      BY <2>1, <3>1, <3>2 DEF Hear, OnNewSession, OnRemoveSession, Hears
  <2>5. ASSUME Head(wire).type = "log", registry = Ids, NEW x \in ToSet(Head(wire).batch),
               x \in Item
        PROVE  x \in lines'
    <3>1. lines' = lines \cup {y \in ToSet(Head(wire).batch) : y.from \in registry}
      BY <2>1, <2>5 DEF Hear, OnNewSession, OnRemoveSession, OnSessions, OnSessionLog,
                        OnSessionRemotes, OnRemotesCleared, OnRunResult, Hears
    <3>. QED
      BY <2>5, <3>1 DEF Item
  <2>6. ASSUME up', "log" \notin lost', NEW x \in ToSet(history'["log"]) PROVE LineAhead(x)'
    <3>1. LineAhead(x) /\ x \in Item
      BY <1>1, <2>6, Contents DEF LinesInv
    <3>2. LineSent(x) => LineSent(x)'
      BY <1>1, SameSent
    <3>3. x \in lines \/ LineOnWire(x) => x \in lines' \/ LineOnWire(x)'
      BY <2>1, <2>4, <2>5, <3>1
    <3>. QED
      BY <2>1, <2>2, <3>1, <3>2, <3>3, SameInbox DEF LineAhead
  <2>. QED
    BY <2>3, <2>6 DEF LinesInv
<1>3. registry = Ids \/ Head(wire).type = "sessions" => registry' = Ids
  <2>1. /\ Head(wire).type \notin {"added", "removed"}
        /\ Head(wire).type = "sessions" => Head(wire).list = Ids
    <3>1. 1 \in 1..Len(wire) /\ Head(wire) = wire[1]
      BY <1>1
    <3>. QED
      BY <3>1 DEF LinesInv, Settled, PlainWire
  <2>2. CASE OnSessions
    BY <2>1, <2>2 DEF OnSessions, Hears, Adopt
  <2>3. CASE OnSessionLog \/ OnSessionRemotes \/ OnRemotesCleared \/ OnRunResult
    BY <2>3 DEF OnSessionLog, OnSessionRemotes, OnRemotesCleared, OnRunResult, Hears
  <2>. QED
    BY <2>1, <2>2, <2>3 DEF Hear, OnNewSession, OnRemoveSession, Hears
<1>. QED
  BY <1>2, <1>3

LEMMA LinesRest ==
    ASSUME IInv, DownIsEmpty, LinesInv,
           \/ Membership \/ User \/ (\E run \in tasks : Answered(run) \/ Dropped(run))
           \/ Connect \/ Disconnect
    PROVE  LinesInv'
<1>. USE DEF sessionVars, relayVars, channelVars, runVars, viewVars, counters
<1>1. inbox \in Seq(ToBroker)
  BY DEF IInv, Typed
<1>2. CASE Membership
  <2>1. UNCHANGED world
    BY <1>2 DEF Membership, Join, Announce, Leave, Retract
  <2>. QED
    BY <1>2, <2>1, NoMembership DEF LinesInv, Still
<1>3. CASE User \/ \E run \in tasks : Answered(run) \/ Dropped(run)
  <2>1. UNCHANGED <<world, phase, registry, up, capturing, lost, history, feed, wire, lines>>
    BY <1>3 DEF User, SetTarget, ClearRemotes, RunCode, Answered, Dropped, Finish
  <2>2. (LogAsked => LogAsked') /\ (LogAfterList => LogAfterList')
    <3>1. CASE ClearRemotes
      <4>. DEFINE more == <<[type |-> "clear"]>>
      <4>1. more \in Seq(ToBroker) /\ inbox' = inbox \o more
        BY <3>1, Messages DEF ClearRemotes, Send
      <4>. HIDE DEF more
      <4>. QED
        BY <1>1, <4>1, AskedChanges
    <3>2. CASE RunCode
      <4>. DEFINE ask == [type |-> "run", run |-> [request |-> runs + 1, on |-> target]]
      <4>1. [request |-> runs + 1, on |-> target] \in Run
        BY <3>2, ControlFeedAssumption DEF RunCode, IInv, Typed, Run
      <4>2. ask \in ToBroker /\ inbox' = inbox \o <<ask>>
        BY <3>2, <4>1, Messages DEF RunCode, Send
      <4>. HIDE DEF ask
      <4>3. <<ask>> \in Seq(ToBroker)
        BY <4>2
      <4>. QED
        BY <1>1, <4>2, <4>3, AskedChanges
    <3>3. CASE ~ ClearRemotes /\ ~ RunCode
      <4>1. UNCHANGED inbox
        BY <1>3, <3>3 DEF User, SetTarget, Answered, Dropped, Finish
      <4>. QED
        BY <4>1, SameInbox
    <3>. QED
      BY <3>1, <3>2, <3>3
  <2>3. Settled => Settled'
    BY <2>1, SameWire DEF Settled
  <2>. QED
    BY <2>1, <2>2, <2>3, SameWire, SameSent, LinesElsewhere
<1>4. CASE Connect
  <2>. DEFINE more == <<ListSessions, Replay("log"), Replay("remotes")>>
  <2>1. /\ inbox' = inbox \o more /\ inbox = <<>>
        /\ UNCHANGED <<world, phase, registry, history, wire, feed, lost>>
    BY <1>4 DEF Connect, Send, DownIsEmpty
  <2>2. ListSessions \in ToBroker /\ Replay("log") \in ToBroker /\ Replay("remotes") \in ToBroker
    BY Messages
  <2>3. inbox' = more
    BY <2>1, <2>2
  <2>4. LogAfterList'
    BY <2>3 DEF LogAfterList, ListSessions
  <2>5. Settled => Settled'
    BY <2>1, SameWire DEF Settled
  <2>. QED
    BY <2>1, <2>4, <2>5 DEF LinesInv, Still, LineAhead
<1>5. CASE Disconnect
  <2>1. ~ up' /\ feed' = Quiet /\ wire' = <<>> /\ UNCHANGED <<world, phase>>
    BY <1>5 DEF Disconnect
  <2>2. Len(wire') = 0 /\ feed'["added"] = <<>> /\ feed'["removed"] = <<>>
    BY <2>1 DEF Quiet, Channels
  <2>. QED
    BY <2>1, <2>2 DEF LinesInv, Still, Settled, PlainWire
<1>. QED
  BY <1>2, <1>3, <1>4, <1>5

LEMMA LinesStep ==
    IInv /\ Bounded /\ DownIsEmpty /\ CallsInv /\ LinesInv /\ [Next]_vars => LinesInv'
<1>1. ASSUME LinesInv, UNCHANGED vars PROVE LinesInv'
  <2>1. UNCHANGED <<world, phase, registry, up, capturing, lost, history, feed, wire, inbox, lines>>
    BY <1>1 DEF vars, sessionVars, relayVars, channelVars, viewVars, counters
  <2>2. Settled => Settled'
    BY <2>1, SameWire DEF Settled
  <2>. QED
    BY <1>1, <2>1, <2>2, SameWire, SameInbox, SameSent, LinesElsewhere
<1>2. ASSUME IInv, Bounded, DownIsEmpty, CallsInv, LinesInv, Next PROVE LinesInv'
  BY <1>2, LinesHistory, LinesForwards, LinesServe, LinesHear, LinesRest DEF Next
<1>. QED
  BY <1>1, <1>2

LEMMA InitLines == Init => LinesInv
<1>. SUFFICES ASSUME Init, Still PROVE LinesInv
  BY DEF LinesInv
<1>1. /\ ~ up /\ wire = <<>> /\ feed["added"] = <<>> /\ feed["removed"] = <<>>
      /\ "sessions" \notin world
  BY DEF Init, Quiet, Channels, Still
<1>2. \A i \in Ids : phase[i] = "live"
  BY <1>1 DEF Init
<1>. QED
  BY <1>1, <1>2 DEF LinesInv, Settled, PlainWire

LEMMA LinesHold == LinesInv /\ Drained => LinesAreShown
<1>. SUFFICES ASSUME LinesInv, Drained, "log" \notin lost, Still,
                     NEW x \in ToSet(history["log"])
              PROVE  x \in lines
  BY DEF LinesAreShown, Still
<1>1. /\ up /\ feed = Quiet /\ inbox = <<>> /\ wire = <<>> /\ capturing = {}
  BY DEF Drained
<1>2. ToSet(feed["log"]) = {}
  BY <1>1 DEF Quiet, Channels, ToSet
<1>3. ~ LogAsked /\ ~ LogAfterList /\ ~ LineOnWire(x) /\ ~ LineSent(x)
  BY <1>1, <1>2 DEF LogAsked, LogAfterList, LineOnWire, LineSent
<1>4. LineAhead(x)
  BY <1>1 DEF LinesInv
<1>. QED
  BY <1>3, <1>4 DEF LineAhead

\* mod.rs, remotes.ts and extension.ts: whenever the window connected and however often,
\* once nothing is under way a call that can be replayed is on screen, unless the rows are
\* full, the channel dropped calls or a RemotesCleared followed it to the wire; and, while
\* the sessions stay, so is every line that the broker keeps: the window asks for the
\* sessions before it asks for their lines, so that none is dropped for want of its session.
THEOREM HistoryCorrect == Spec => []HistoryIsShown
<1>1. CallsInv /\ LinesInv => HistoryIsShown
  BY CallsHold, LinesHold DEF HistoryIsShown
<1>. QED
  BY <1>1, DownInvariance, CallsInvariance, InitLines, LinesStep, PTL DEF Spec

=============================================================================
