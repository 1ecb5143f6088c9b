--------------------------- MODULE OpRelayProofs ---------------------------
(***************************************************************************)
(* Proofs about operation relaying, for any set of requests, queue         *)
(* capacity and number of reconnects.                                      *)
(***************************************************************************)
EXTENDS OpRelay, SequenceTheorems, TLAPS

(***************************************************************************)
(* A channel's elements.                                                   *)
(***************************************************************************)
\* Appending adds one element.
LEMMA ToSetAppend ==
    ASSUME NEW S, NEW q \in Seq(S), NEW x \in S
    PROVE  Append(q, x) \in Seq(S) /\ ToSet(Append(q, x)) = ToSet(q) \cup {x}
<1>1. DOMAIN q = 1..Len(q) /\ Len(q) \in Nat
  BY LenProperties
<1>2. /\ Append(q, x) \in Seq(S) /\ Len(Append(q, x)) = Len(q) + 1
      /\ \A i \in 1..Len(q) : Append(q, x)[i] = q[i]
      /\ Append(q, x)[Len(q) + 1] = x
  BY AppendProperties
<1>3. DOMAIN Append(q, x) = 1..(Len(q) + 1)
  BY <1>2, LenProperties
<1>4. \A i \in 1..(Len(q) + 1) : i \in 1..Len(q) \/ i = Len(q) + 1
  BY <1>1
<1>5. 1..Len(q) \subseteq 1..(Len(q) + 1) /\ Len(q) + 1 \in 1..(Len(q) + 1)
  BY <1>1
<1>. QED
  BY <1>1, <1>2, <1>3, <1>4, <1>5 DEF ToSet

\* Taking the head loses at most that one.
LEMMA ToSetTail ==
    ASSUME NEW S, NEW q \in Seq(S), q # <<>>
    PROVE  /\ Head(q) \in S /\ Tail(q) \in Seq(S)
           /\ ToSet(q) = ToSet(Tail(q)) \cup {Head(q)}
<1>1. /\ Head(q) \in S /\ Tail(q) \in Seq(S) /\ Len(Tail(q)) = Len(q) - 1
      /\ \A i \in 1..Len(Tail(q)) : Tail(q)[i] = q[i + 1]
  BY HeadTailProperties
<1>2. Len(q) \in Nat \ {0} /\ DOMAIN q = 1..Len(q) /\ DOMAIN Tail(q) = 1..Len(Tail(q))
  BY <1>1, LenProperties, EmptySeq
<1>3. Head(q) = q[1] /\ 1 \in 1..Len(q)
  BY <1>2
<1>4. \A i \in 1..Len(Tail(q)) : i + 1 \in 1..Len(q)
  BY <1>1, <1>2
<1>5. \A i \in 1..Len(q) : i = 1 \/ (i - 1 \in 1..Len(Tail(q)) /\ (i - 1) + 1 = i)
  BY <1>1, <1>2
<1>6. \A i \in 1..Len(q) : i = 1 \/ \E j \in 1..Len(Tail(q)) : Tail(q)[j] = q[i]
  BY <1>1, <1>5
<1>7. ToSet(q) \subseteq ToSet(Tail(q)) \cup {Head(q)}
  <2>. SUFFICES ASSUME NEW i \in 1..Len(q) PROVE q[i] \in ToSet(Tail(q)) \cup {Head(q)}
    BY <1>2 DEF ToSet
  <2>1. CASE i = 1
    BY <2>1, <1>3
  <2>2. CASE \E j \in 1..Len(Tail(q)) : Tail(q)[j] = q[i]
    BY <2>2, <1>2 DEF ToSet
  <2>. QED
    BY <2>1, <2>2, <1>6
<1>8. ToSet(Tail(q)) \cup {Head(q)} \subseteq ToSet(q)
  BY <1>1, <1>2, <1>3, <1>4 DEF ToSet
<1>. QED
  BY <1>1, <1>7, <1>8

\* An empty channel has none.
LEMMA ToSetEmpty == ToSet(<<>>) = {}
BY DEF ToSet

(***************************************************************************)
(* The inductive invariant.  A reply is found through its request's        *)
(* session, so the proof needs that requests under way have one, and that  *)
(* what a session holds was given to it.                                   *)
(***************************************************************************)
Targeted == \A r \in Reqs : req[r] # "idle" => target[r] \in Sessions /\ task[target[r]] # "unborn"

Placed ==
    \A s \in Sessions :
        /\ \A r \in InQueue(s) : target[r] = s /\ req[r] # "idle"
        /\ \A m \in pending[s] : target[m.of] = s /\ req[m.of] # "idle" /\ m.id < nextId[s]

Settled == \A r \in Reqs : outcome[r] # {} => req[r] = "done"

IInv == TypeOK /\ Targeted /\ Placed /\ Settled /\ NoOrphan /\ EndedMeansEnded

LEMMA InitInv == Init => IInv
<1>. SUFFICES ASSUME Init PROVE IInv
  OBVIOUS
<1>. USE OpRelayAssumption DEF Init
<1>1. TypeOK
  BY DEF TypeOK, Numbers, Sessions
<1>2. Placed
  BY ToSetEmpty DEF Placed, InQueue
<1>. QED
  BY <1>1, <1>2 DEF IInv, Targeted, Settled, NoOrphan, EndedMeansEnded

\* Queues hold requests.
LEMMA ToSetInReqs ==
    ASSUME TypeOK PROVE \A t \in Sessions : \A r \in InQueue(t) : r \in Reqs
<1>. SUFFICES ASSUME NEW t \in Sessions, NEW r \in ToSet(queue[t]) PROVE r \in Reqs
  BY DEF InQueue
<1>1. queue[t] \in Seq(Reqs) /\ DOMAIN queue[t] = 1..Len(queue[t])
  BY LenProperties DEF TypeOK
<1>2. \A i \in 1..Len(queue[t]) : queue[t][i] \in Reqs
  BY <1>1, ElementOfSeq
<1>. QED
  BY <1>1, <1>2 DEF ToSet

(***************************************************************************)
(* What each step does to the queues, seen as sets.                        *)
(***************************************************************************)
LEMMA QueueKept ==
    ASSUME queue' = queue
    PROVE  \A t \in Sessions : InQueue(t)' = InQueue(t)
BY DEF InQueue

LEMMA QueueSend ==
    ASSUME TypeOK, NEW r \in Reqs, NEW s \in Sessions,
           queue' = [queue EXCEPT ![s] = Append(@, r)]
    PROVE  /\ queue' \in [Sessions -> Seq(Reqs)]
           /\ \A t \in Sessions : InQueue(t)' = IF t = s THEN InQueue(t) \cup {r} ELSE InQueue(t)
<1>1. queue \in [Sessions -> Seq(Reqs)]
  BY DEF TypeOK
<1>2. Append(queue[s], r) \in Seq(Reqs) /\ ToSet(Append(queue[s], r)) = ToSet(queue[s]) \cup {r}
  BY <1>1, ToSetAppend
<1>3. queue'[s] = Append(queue[s], r) /\ \A t \in Sessions : t # s => queue'[t] = queue[t]
  BY <1>1
<1>. QED
  BY <1>1, <1>2, <1>3 DEF InQueue

LEMMA QueueTake ==
    ASSUME TypeOK, NEW s \in Sessions, queue[s] # <<>>,
           queue' = [queue EXCEPT ![s] = Tail(@)]
    PROVE  /\ queue' \in [Sessions -> Seq(Reqs)] /\ Head(queue[s]) \in InQueue(s)
           /\ \A t \in Sessions : InQueue(t) = IF t = s THEN InQueue(t)' \cup {Head(queue[s])}
                                                        ELSE InQueue(t)'
<1>1. queue \in [Sessions -> Seq(Reqs)]
  BY DEF TypeOK
<1>2. Tail(queue[s]) \in Seq(Reqs) /\ ToSet(queue[s]) = ToSet(Tail(queue[s])) \cup {Head(queue[s])}
  BY <1>1, ToSetTail
<1>3. queue'[s] = Tail(queue[s]) /\ \A t \in Sessions : t # s => queue'[t] = queue[t]
  BY <1>1
<1>. QED
  BY <1>1, <1>2, <1>3 DEF InQueue

LEMMA QueueDrop ==
    ASSUME TypeOK, NEW s \in Sessions, queue' = [queue EXCEPT ![s] = <<>>]
    PROVE  /\ queue' \in [Sessions -> Seq(Reqs)]
           /\ \A t \in Sessions : InQueue(t)' = IF t = s THEN {} ELSE InQueue(t)
<1>1. queue \in [Sessions -> Seq(Reqs)] /\ <<>> \in Seq(Reqs)
  BY DEF TypeOK
<1>2. queue'[s] = <<>> /\ \A t \in Sessions : t # s => queue'[t] = queue[t]
  BY <1>1
<1>. QED
  BY <1>1, <1>2, ToSetEmpty DEF InQueue

\* A channel that grows by a message, or loses its head, stays a channel.
LEMMA ChannelType ==
    ASSUME NEW ch \in [Sessions -> Seq(Messages)], NEW s \in Sessions
    PROVE  /\ \A m \in Messages : [ch EXCEPT ![s] = Append(@, m)] \in [Sessions -> Seq(Messages)]
           /\ ch[s] # <<>> => /\ Head(ch[s]) \in Messages
                              /\ [ch EXCEPT ![s] = Tail(@)] \in [Sessions -> Seq(Messages)]
<1>1. \A m \in Messages : Append(ch[s], m) \in Seq(Messages)
  BY AppendProperties
<1>2. ch[s] # <<>> => Head(ch[s]) \in Messages /\ Tail(ch[s]) \in Seq(Messages)
  BY HeadTailProperties
<1>. QED
  BY <1>1, <1>2

\* Requests kept in a queue or in `pending` stay found, unless they stopped waiting.
LEMMA StillFound ==
    ASSUME IInv, target' = target,
           \A q \in Reqs : req'[q] = "waiting" =>
               \/ q \in ToSet(queue'[target[q]])
               \/ \E m \in pending'[target[q]] : q = m.of
    PROVE  NoOrphan'
BY DEF NoOrphan, InQueue, Entries, Owners

LEMMA SendStep == ASSUME IInv, NEW r \in Reqs, Send(r) PROVE IInv'
<1>. DEFINE s == target[r]
<1>. USE OpRelayAssumption DEF IInv
<1>1. s \in Sessions /\ req[r] = "sending"
  BY DEF Targeted, Send
<1>2. UNCHANGED <<target, task, nextId, pending, down, up, open, ws, running>>
  BY DEF Send
<1>3. \A t \in Sessions : \A q \in InQueue(t) : q \in Reqs
  BY ToSetInReqs
<1>4. \A t \in Sessions : \A m \in pending[t] : m.of \in Reqs
  BY DEF TypeOK, Messages
<1>5. \A q \in Reqs : req[q] = "waiting" =>
         \/ q \in ToSet(queue[target[q]]) \/ \E m \in pending[target[q]] : q = m.of
  BY DEF NoOrphan, InQueue, Entries, Owners
<1>6. CASE task[s] # "gone" /\ queue' = [queue EXCEPT ![s] = Append(@, r)]
           /\ req' = [req EXCEPT ![r] = "waiting"] /\ outcome' = outcome
  <2>. HIDE DEF s
  <2>1. /\ queue' \in [Sessions -> Seq(Reqs)]
        /\ \A t \in Sessions : InQueue(t)' = IF t = s THEN InQueue(t) \cup {r} ELSE InQueue(t)
    BY <1>1, <1>6, QueueSend
  <2>2. TypeOK'
    BY <1>1, <1>2, <1>6, <2>1 DEF TypeOK, s
  <2>3. Targeted' /\ Settled' /\ EndedMeansEnded'
    BY <1>1, <1>2, <1>6 DEF TypeOK, Targeted, Settled, EndedMeansEnded, s
  <2>4. Placed'
    <3>1. \A q \in Reqs : req[q] # "idle" => req'[q] # "idle"
      BY <1>6 DEF TypeOK
    <3>2. req'[r] # "idle" /\ target[r] = s
      BY <1>6 DEF TypeOK, s
    <3>3. \A t \in Sessions : \A q \in InQueue(t)' : target[q] = t /\ req'[q] # "idle"
      BY <1>3, <2>1, <3>1, <3>2 DEF Placed
    <3>4. \A t \in Sessions : \A m \in pending[t] :
            target[m.of] = t /\ req'[m.of] # "idle" /\ m.id < nextId[t]
      BY <1>4, <3>1 DEF Placed
    <3>. QED
      BY <1>2, <3>3, <3>4 DEF Placed
  <2>5. ASSUME NEW q \in Reqs, req'[q] = "waiting"
        PROVE  q \in ToSet(queue'[target[q]]) \/ \E m \in pending'[target[q]] : q = m.of
    <3>1. target[q] \in Sessions
      BY <1>1, <2>5, <1>6 DEF Targeted, TypeOK, s
    <3>2. \A t \in Sessions : ToSet(queue'[t]) = IF t = s THEN ToSet(queue[t]) \cup {r} ELSE ToSet(queue[t])
      BY <2>1 DEF InQueue
    <3>. QED
      BY <1>1, <1>2, <1>5, <1>6, <2>5, <3>1, <3>2 DEF TypeOK, s
  <2>6. NoOrphan'
    BY <1>2, <2>5, StillFound
  <2>. QED
    BY <2>2, <2>3, <2>4, <2>6
<1>7. CASE task[s] = "gone" /\ queue' = queue /\ req' = [req EXCEPT ![r] = "done"]
           /\ outcome' = [outcome EXCEPT ![r] = {"ended"}]
  <2>1. \A t \in Sessions : InQueue(t)' = InQueue(t)
    BY <1>7, QueueKept
  <2>2. TypeOK'
    BY <1>2, <1>7 DEF TypeOK
  <2>3. Targeted' /\ Settled' /\ EndedMeansEnded'
    BY <1>1, <1>2, <1>7 DEF TypeOK, Targeted, Settled, EndedMeansEnded
  <2>4. Placed'
    BY <1>1, <1>2, <1>3, <1>4, <1>7, <2>1 DEF TypeOK, Placed
  <2>5. \A q \in Reqs : req'[q] = "waiting" => req[q] = "waiting"
    BY <1>7 DEF TypeOK
  <2>6. NoOrphan'
    BY <1>2, <1>5, <1>7, <2>5, StillFound
  <2>. QED
    BY <2>2, <2>3, <2>4, <2>6
<1>. QED
  BY <1>6, <1>7 DEF Send

LEMMA DispatchStep == ASSUME IInv, NEW s \in Sessions, DispatchOperation(s) PROVE IInv'
<1>. USE OpRelayAssumption DEF IInv
<1>. DEFINE r == Head(queue[s])
            new == [id |-> nextId[s], of |-> r]
            old == {m \in pending[s] : m.id = nextId[s]}
<1>1. /\ queue' \in [Sessions -> Seq(Reqs)] /\ r \in InQueue(s)
      /\ \A t \in Sessions : InQueue(t) = IF t = s THEN InQueue(t)' \cup {r} ELSE InQueue(t)'
  BY QueueTake DEF DispatchOperation
<1>2. queue[s] \in Seq(Reqs) /\ queue[s] # <<>> /\ nextId[s] \in Numbers /\ nextId[s] + 1 \in Numbers
  BY DEF DispatchOperation, TypeOK, Numbers
<1>3. r \in Reqs /\ new \in Messages
  BY <1>2, HeadTailProperties DEF Messages
<1>4. old = {}
  BY <1>2 DEF Placed, Numbers, TypeOK, Messages
<1>5. pending' = [pending EXCEPT ![s] = @ \cup {new}]
  BY <1>4 DEF DispatchOperation, TypeOK
<1>6. down' = [down EXCEPT ![s] = Append(@, new)] /\ nextId' = [nextId EXCEPT ![s] = @ + 1]
      /\ UNCHANGED <<target, task, up, open, ws, running>>
  BY DEF DispatchOperation, DropReplies
<1>7. req' = req /\ outcome' = outcome
  BY <1>4 DEF DispatchOperation, DropReplies, Owners, TypeOK
<1>8. down' \in [Sessions -> Seq(Messages)]
  BY <1>3, <1>6, ChannelType DEF TypeOK
<1>. HIDE DEF new
<1>9. TypeOK'
  BY <1>1, <1>2, <1>3, <1>5, <1>6, <1>7, <1>8 DEF TypeOK
<1>10. new.of = r /\ new.id = nextId[s]
  BY DEF new
<1>. HIDE DEF r
<1>11. Targeted' /\ Settled' /\ EndedMeansEnded'
  BY <1>6, <1>7 DEF Targeted, Settled, EndedMeansEnded
<1>12. Placed'
  <2>1. \A t \in Sessions : \A q \in InQueue(t)' : target[q] = t /\ req[q] # "idle"
    BY <1>1 DEF Placed
  <2>2. \A t \in Sessions : nextId'[t] = IF t = s THEN nextId[t] + 1 ELSE nextId[t]
    BY <1>6 DEF TypeOK
  <2>3. target[r] = s /\ req[r] # "idle"
    BY <1>1 DEF Placed
  <2>4. ASSUME NEW t \in Sessions, NEW m \in pending'[t]
        PROVE  target[m.of] = t /\ req[m.of] # "idle" /\ m.id < nextId'[t]
    <3>1. m \in pending[t] \/ (t = s /\ m = new)
      BY <2>4, <1>5 DEF TypeOK
    <3>2. CASE m \in pending[t]
      <4>1. target[m.of] = t /\ req[m.of] # "idle" /\ m.id < nextId[t]
        BY <3>2 DEF Placed
      <4>2. m.id \in Nat /\ nextId[t] \in Nat
        BY <3>2 DEF TypeOK, Messages, Numbers
      <4>. QED
        BY <4>1, <4>2, <2>2
    <3>3. CASE t = s /\ m = new
      BY <3>3, <2>2, <2>3, <1>10, <1>2 DEF Numbers
    <3>. QED
      BY <3>1, <3>2, <3>3
  <2>. QED
    BY <2>1, <2>4, <1>6, <1>7 DEF Placed
<1>13. NoOrphan'
  <2>. SUFFICES ASSUME NEW q \in Reqs, req[q] = "waiting"
                PROVE  q \in ToSet(queue'[target[q]]) \/ \E m \in pending'[target[q]] : q = m.of
    BY <1>6, <1>7, StillFound
  <2>1. target[q] \in Sessions /\ q \in InQueue(target[q]) \cup {m.of : m \in pending[target[q]]}
    BY DEF NoOrphan, Targeted, Entries, Owners
  <2>2. q \in ToSet(queue'[target[q]]) \/ (target[q] = s /\ q = r) \/ \E m \in pending[target[q]] : q = m.of
    BY <2>1, <1>1 DEF InQueue
  <2>3. \A t \in Sessions : pending[t] \subseteq pending'[t]
    BY <1>5 DEF TypeOK
  <2>4. new \in pending'[s]
    BY <1>5 DEF TypeOK
  <2>. QED
    BY <2>1, <2>2, <2>3, <2>4, <1>10
<1>. QED
  BY <1>9, <1>11, <1>12, <1>13

LEMMA ResultStep == ASSUME IInv, NEW s \in Sessions, OperationResult(s) PROVE IInv'
<1>. USE OpRelayAssumption DEF IInv
<1>. DEFINE answer == Head(up[s])
            entry  == {m \in pending[s] : m.id = answer.id}
            heard  == {r \in Owners(entry) : req[r] = "waiting"}
<1>1. /\ pending' = [pending EXCEPT ![s] = @ \ entry]
      /\ req' = [r \in Reqs |-> IF r \in heard THEN "done" ELSE req[r]]
      /\ outcome' = [r \in Reqs |-> IF r \in heard THEN {answer.of} ELSE outcome[r]]
      /\ up' = [up EXCEPT ![s] = Tail(@)] /\ up[s] # <<>>
      /\ UNCHANGED <<target, task, queue, nextId, down, open, ws, running>>
  BY DEF OperationResult
<1>2. \A t \in Sessions : InQueue(t)' = InQueue(t)
  BY <1>1, QueueKept
<1>3. answer \in Messages /\ up' \in [Sessions -> Seq(Messages)]
  BY <1>1, ChannelType DEF TypeOK
<1>4. answer.of \in Reqs /\ answer.of # "ended"
  BY <1>3 DEF Messages
<1>5. \A r \in heard : req[r] = "waiting" /\ \E m \in entry : r = m.of
  BY DEF Owners
<1>6. \A m \in pending[s] : m.id = answer.id => m \in entry
  OBVIOUS
<1>7. \A r \in Reqs : req[r] = "waiting" /\ r \notin heard => \A m \in entry : r # m.of
  BY DEF Owners
<1>. HIDE DEF heard, entry, answer
<1>8. TypeOK'
  BY <1>1, <1>3, <1>4 DEF TypeOK
<1>9. \A t \in Sessions : pending'[t] \subseteq pending[t]
                          /\ \A m \in pending[t] : m \in pending'[t] \/ m \in entry
  BY <1>1 DEF TypeOK
<1>10. \A r \in Reqs : /\ req'[r] = IF r \in heard THEN "done" ELSE req[r]
                       /\ outcome'[r] = IF r \in heard THEN {answer.of} ELSE outcome[r]
  BY <1>1
<1>11. \A m \in UNION {pending[t] : t \in Sessions} : m.of \in Reqs
  BY DEF TypeOK, Messages
<1>12. Targeted' /\ Settled' /\ EndedMeansEnded'
  BY <1>1, <1>4, <1>5, <1>10 DEF Targeted, Settled, EndedMeansEnded
<1>13. Placed'
  <2>1. \A t \in Sessions : \A r \in InQueue(t) : r \in Reqs
    BY ToSetInReqs
  <2>. QED
    BY <2>1, <1>1, <1>2, <1>5, <1>9, <1>10, <1>11 DEF Placed
<1>14. NoOrphan'
  <2>. SUFFICES ASSUME NEW q \in Reqs, req'[q] = "waiting"
                PROVE  q \in InQueue(target[q]) \/ \E m \in pending'[target[q]] : q = m.of
    BY <1>1, <1>2 DEF NoOrphan, Entries, Owners, InQueue
  <2>1. req[q] = "waiting" /\ q \notin heard
    BY <1>10
  <2>2. target[q] \in Sessions /\ (q \in InQueue(target[q]) \/ \E m \in pending[target[q]] : q = m.of)
    BY <2>1 DEF NoOrphan, Targeted, Entries, Owners
  <2>. QED
    BY <2>1, <2>2, <1>7, <1>9
<1>. QED
  BY <1>8, <1>12, <1>13, <1>14

LEMMA LeaveStep == ASSUME IInv, NEW s \in Sessions, Leave(s) PROVE IInv'
<1>. USE OpRelayAssumption DEF IInv
<1>. DEFINE dropped == {r \in Owners(pending[s]) : req[r] = "waiting"}
<1>1. /\ task' = [task EXCEPT ![s] = "leaving"] /\ pending' = [pending EXCEPT ![s] = {}]
      /\ UNCHANGED <<target, queue, nextId, down, up, open, ws, running>>
  BY DEF Leave, DropReplies
<1>2. \A r \in Reqs : /\ req'[r] = IF r \in dropped THEN "done" ELSE req[r]
                      /\ outcome'[r] = IF r \in dropped THEN {"ended"} ELSE outcome[r]
  BY DEF Leave, DropReplies
<1>3. \A t \in Sessions : InQueue(t)' = InQueue(t)
  BY <1>1, QueueKept
<1>4. \A r \in dropped : req[r] = "waiting" /\ target[r] = s
  BY DEF Owners, Placed
<1>5. \A r \in Reqs : req[r] = "waiting" /\ r \notin dropped => \A m \in pending[s] : r # m.of
  BY DEF Owners
<1>6. req' \in [Reqs -> {"idle", "sending", "waiting", "done"}]
      /\ outcome' \in [Reqs -> SUBSET (Reqs \cup {"ended", "timeout"})]
  BY DEF Leave, DropReplies, TypeOK
<1>. HIDE DEF dropped
<1>7. TypeOK'
  BY <1>1, <1>6 DEF TypeOK
<1>8. \A t \in Sessions : /\ task'[t] = IF t = s THEN "leaving" ELSE task[t]
                          /\ pending'[t] = IF t = s THEN {} ELSE pending[t]
  BY <1>1 DEF TypeOK
<1>9. Targeted' /\ Settled'
  BY <1>1, <1>2, <1>4, <1>8 DEF Targeted, Settled
<1>10. EndedMeansEnded'
  BY <1>1, <1>2, <1>4, <1>8 DEF EndedMeansEnded, Targeted, Settled
<1>11. Placed'
  <2>1. \A t \in Sessions : \A q \in InQueue(t) : q \in Reqs
    BY ToSetInReqs
  <2>2. \A t \in Sessions : \A m \in pending[t] : m.of \in Reqs
    BY DEF TypeOK, Messages
  <2>. QED
    BY <2>1, <2>2, <1>1, <1>2, <1>3, <1>8 DEF Placed
<1>12. NoOrphan'
  <2>. SUFFICES ASSUME NEW q \in Reqs, req'[q] = "waiting"
                PROVE  q \in ToSet(queue'[target[q]]) \/ \E m \in pending'[target[q]] : q = m.of
    BY <1>1, StillFound
  <2>1. req[q] = "waiting" /\ q \notin dropped
    BY <1>2
  <2>2. target[q] \in Sessions
        /\ (q \in ToSet(queue[target[q]]) \/ \E m \in pending[target[q]] : q = m.of)
    BY <2>1 DEF NoOrphan, Targeted, Entries, Owners, InQueue
  <2>. QED
    BY <2>1, <2>2, <1>1, <1>5, <1>8
<1>. QED
  BY <1>7, <1>9, <1>10, <1>11, <1>12

LEMMA EndStep == ASSUME IInv, NEW s \in Sessions, End(s) PROVE IInv'
<1>. USE OpRelayAssumption DEF IInv
<1>. DEFINE dropped == {r \in InQueue(s) : req[r] = "waiting"}
<1>1. /\ task' = [task EXCEPT ![s] = "gone"] /\ queue' = [queue EXCEPT ![s] = <<>>]
      /\ UNCHANGED <<target, pending, nextId, down, up, open, ws, running>>
  BY DEF End, DropReplies
<1>2. \A r \in Reqs : /\ req'[r] = IF r \in dropped THEN "done" ELSE req[r]
                      /\ outcome'[r] = IF r \in dropped THEN {"ended"} ELSE outcome[r]
  BY DEF End, DropReplies
<1>3. /\ queue' \in [Sessions -> Seq(Reqs)]
      /\ \A t \in Sessions : InQueue(t)' = IF t = s THEN {} ELSE InQueue(t)
  BY <1>1, QueueDrop
<1>4. \A r \in dropped : req[r] = "waiting" /\ target[r] = s
  BY DEF Placed
<1>5. \A r \in Reqs : req[r] = "waiting" /\ r \notin dropped => r \notin ToSet(queue[s])
  BY DEF InQueue
<1>6. req' \in [Reqs -> {"idle", "sending", "waiting", "done"}]
      /\ outcome' \in [Reqs -> SUBSET (Reqs \cup {"ended", "timeout"})]
  BY DEF End, DropReplies, TypeOK
<1>. HIDE DEF dropped
<1>7. TypeOK'
  BY <1>1, <1>3, <1>6 DEF TypeOK
<1>8. \A t \in Sessions : task'[t] = IF t = s THEN "gone" ELSE task[t]
  BY <1>1 DEF TypeOK
<1>9. Targeted' /\ Settled'
  BY <1>1, <1>2, <1>4, <1>8 DEF Targeted, Settled
<1>10. EndedMeansEnded'
  BY <1>1, <1>2, <1>4, <1>8 DEF EndedMeansEnded, Targeted, Settled
<1>11. Placed'
  <2>1. \A t \in Sessions : \A q \in InQueue(t) : q \in Reqs
    BY ToSetInReqs
  <2>2. \A t \in Sessions : \A m \in pending[t] : m.of \in Reqs
    BY DEF TypeOK, Messages
  <2>. QED
    BY <2>1, <2>2, <1>1, <1>2, <1>3 DEF Placed
<1>12. NoOrphan'
  <2>. SUFFICES ASSUME NEW q \in Reqs, req'[q] = "waiting"
                PROVE  q \in ToSet(queue'[target[q]]) \/ \E m \in pending'[target[q]] : q = m.of
    BY <1>1, StillFound
  <2>1. req[q] = "waiting" /\ q \notin dropped
    BY <1>2
  <2>2. target[q] \in Sessions
        /\ (q \in ToSet(queue[target[q]]) \/ \E m \in pending[target[q]] : q = m.of)
    BY <2>1 DEF NoOrphan, Targeted, Entries, Owners, InQueue
  <2>3. target[q] # s => queue'[target[q]] = queue[target[q]]
    BY <2>2, <1>1 DEF TypeOK
  <2>. QED
    BY <2>1, <2>2, <2>3, <1>1, <1>5
<1>. QED
  BY <1>7, <1>9, <1>10, <1>11, <1>12

\* The steps that leave the queues, the pending replies and the numbers alone.
LEMMA OtherSteps ==
    ASSUME IInv, UNCHANGED <<queue, nextId, pending>>, TypeOK',
           \A r \in Reqs : \/ UNCHANGED <<req[r], target[r], outcome[r]>>
                           \/ /\ req[r] = "idle" /\ req'[r] = "sending"
                              /\ target'[r] \in Sessions /\ task[target'[r]] # "unborn"
                              /\ outcome'[r] = outcome[r]
                           \/ /\ req[r] = "waiting" /\ req'[r] = "done"
                              /\ target'[r] = target[r] /\ outcome'[r] = {"timeout"}
                           \/ /\ req[r] \in {"sending", "waiting"} /\ req'[r] = "done"
                              /\ target'[r] = target[r] /\ outcome'[r] = outcome[r],
           \A s \in Sessions : task'[s] = task[s] \/ (task[s] = "unborn" /\ task'[s] = "serve")
    PROVE  IInv'
<1>. USE DEF IInv
<1>1. \A t \in Sessions : InQueue(t)' = InQueue(t)
  BY QueueKept
<1>2. Targeted' /\ Settled' /\ EndedMeansEnded'
  BY DEF Targeted, Settled, EndedMeansEnded
<1>3. Placed'
  <2>1. \A t \in Sessions : \A q \in InQueue(t) : q \in Reqs
    BY ToSetInReqs
  <2>2. \A t \in Sessions : \A m \in pending[t] : m.of \in Reqs
    BY DEF TypeOK, Messages
  <2>. QED
    BY <2>1, <2>2, <1>1 DEF Placed
<1>4. NoOrphan'
  <2>. SUFFICES ASSUME NEW q \in Reqs, req'[q] = "waiting"
                PROVE  q \in ToSet(queue'[target'[q]]) \cup {m.of : m \in pending'[target'[q]]}
    BY DEF NoOrphan, InQueue, Entries, Owners
  <2>1. req[q] = "waiting" /\ target'[q] = target[q]
    OBVIOUS
  <2>. QED
    BY <2>1 DEF NoOrphan, InQueue, Entries, Owners
<1>. QED
  BY <1>2, <1>3, <1>4

\* In particular, steps that leave the requests alone too.
LEMMA QuietSteps ==
    ASSUME IInv, UNCHANGED <<queue, nextId, pending>>, TypeOK',
           UNCHANGED <<req, target, outcome>>,
           \A s \in Sessions : task'[s] = task[s] \/ (task[s] = "unborn" /\ task'[s] = "serve")
    PROVE  IInv'
BY OtherSteps

\* Every step of a requester, a session's task, the client or the network preserves
\* the invariant.
LEMMA Step == IInv /\ [Next]_vars => IInv'
<1>. SUFFICES ASSUME IInv, [Next]_vars PROVE IInv'
  OBVIOUS
<1>. USE DEF reqVars, taskVars
<1>0. TypeOK
  BY DEF IInv
<1>1. ASSUME NEW r \in Reqs, NEW s \in Sessions, Ask(r, s) PROVE IInv'
  <2>1. TypeOK'
    BY <1>0, <1>1 DEF Ask, TypeOK, Sessions
  <2>2. /\ UNCHANGED <<queue, nextId, pending, outcome, task>>
        /\ req[r] = "idle" /\ req'[r] = "sending" /\ target'[r] = s /\ task[s] # "unborn"
        /\ \A q \in Reqs : q # r => UNCHANGED <<req[q], target[q]>>
    BY <1>0, <1>1 DEF Ask, TypeOK
  <2>3. \A q \in Reqs : \/ UNCHANGED <<req[q], target[q], outcome[q]>>
                        \/ /\ req[q] = "idle" /\ req'[q] = "sending"
                           /\ target'[q] \in Sessions /\ task[target'[q]] # "unborn"
                           /\ outcome'[q] = outcome[q]
    BY <2>2
  <2>. QED
    BY <2>1, <2>2, <2>3, OtherSteps
<1>2. ASSUME NEW r \in Reqs, Timeout(r) PROVE IInv'
  <2>1. TypeOK'
    BY <1>0, <1>2 DEF Timeout, TypeOK
  <2>2. /\ UNCHANGED <<queue, nextId, pending, target, task>>
        /\ req[r] = "waiting" /\ req'[r] = "done" /\ outcome'[r] = {"timeout"}
        /\ \A q \in Reqs : q # r => UNCHANGED <<req[q], outcome[q]>>
    BY <1>0, <1>2 DEF Timeout, TypeOK
  <2>3. \A q \in Reqs : \/ UNCHANGED <<req[q], target[q], outcome[q]>>
                        \/ /\ req[q] = "waiting" /\ req'[q] = "done"
                           /\ target'[q] = target[q] /\ outcome'[q] = {"timeout"}
    BY <2>2
  <2>. QED
    BY <2>1, <2>2, <2>3, OtherSteps
<1>3. ASSUME NEW s \in Sessions, Drop(s) PROVE IInv'
  <2>1. TypeOK'
    BY <1>0, <1>3 DEF Drop, TypeOK
  <2>. QED
    BY <1>3, <2>1, QuietSteps DEF Drop
<1>4. ASSUME NEW s \in Sessions, Connect(s) PROVE IInv'
  <2>1. TypeOK'
    BY <1>0, <1>4 DEF Connect, TypeOK, Sessions
  <2>2. \A t \in Sessions : task'[t] = task[t] \/ (task[t] = "unborn" /\ task'[t] = "serve")
    BY <1>0, <1>4 DEF Connect, TypeOK
  <2>. QED
    BY <1>4, <2>1, <2>2, QuietSteps DEF Connect
<1>5. ASSUME Disconnected PROVE IInv'
  <2>1. TypeOK'
    BY <1>0, <1>5, OpRelayAssumption DEF Disconnected, TypeOK
  <2>. QED
    BY <1>5, <2>1, QuietSteps DEF Disconnected
<1>6. ASSUME OnOperation PROVE IInv'
  <2>1. ws \in Sessions
    BY <1>0, <1>6 DEF OnOperation, TypeOK, Sessions
  <2>2. Head(down[ws]) \in Messages /\ down' \in [Sessions -> Seq(Messages)]
    BY <1>0, <1>6, <2>1, ChannelType DEF OnOperation, TypeOK
  <2>3. TypeOK'
    BY <1>0, <1>6, <2>2 DEF OnOperation, TypeOK
  <2>4. UNCHANGED <<reqVars, taskVars>>
    BY <1>6 DEF OnOperation
  <2>. QED
    BY <2>3, <2>4, QuietSteps
<1>7. ASSUME NEW m \in Messages, Answer(m) PROVE IInv'
  <2>1. up' \in [Sessions -> Seq(Messages)]
    BY <1>0, <1>7, ChannelType DEF Answer, TypeOK
  <2>2. TypeOK'
    BY <1>0, <1>7, <2>1 DEF Answer, TypeOK
  <2>. QED
    BY <1>7, <2>2, QuietSteps DEF Answer
<1>8. ASSUME NEW r \in Reqs, Abandon(r) PROVE IInv'
  <2>1. TypeOK'
    BY <1>0, <1>8 DEF Abandon, TypeOK
  <2>2. /\ UNCHANGED <<queue, nextId, pending, target, outcome, task>>
        /\ req[r] \in {"sending", "waiting"} /\ req'[r] = "done"
        /\ \A q \in Reqs : q # r => req'[q] = req[q]
    BY <1>0, <1>8 DEF Abandon, TypeOK
  <2>3. \A q \in Reqs : \/ UNCHANGED <<req[q], target[q], outcome[q]>>
                        \/ /\ req[q] \in {"sending", "waiting"} /\ req'[q] = "done"
                           /\ target'[q] = target[q] /\ outcome'[q] = outcome[q]
    BY <2>2
  <2>. QED
    BY <2>1, <2>2, <2>3, OtherSteps
<1>9. CASE UNCHANGED vars
  <2>1. TypeOK'
    BY <1>0, <1>9 DEF vars, TypeOK
  <2>. QED
    BY <1>9, <2>1, QuietSteps DEF vars
<1>. QED
  BY <1>1, <1>2, <1>3, <1>4, <1>5, <1>6, <1>7, <1>8, <1>9, SendStep, DispatchStep, ResultStep,
     LeaveStep, EndStep DEF Next

LEMMA Invariant == Spec => []IInv
BY InitInv, Step, PTL DEF Spec

\* The variables keep their types.
THEOREM TypeCorrect == Spec => []TypeOK
<1>1. IInv => TypeOK
  BY DEF IInv
<1>. QED
  BY <1>1, Invariant, PTL

\* No waiting request is ever without a live reply in its session's queue or among
\* its pending operations.
THEOREM NothingOrphaned == Spec => []NoOrphan
<1>1. IInv => NoOrphan
  BY DEF IInv
<1>. QED
  BY <1>1, Invariant, PTL

\* "The session ended" is only answered for a session that did.
THEOREM EndedCorrect == Spec => []EndedMeansEnded
<1>1. IInv => EndedMeansEnded
  BY DEF IInv
<1>. QED
  BY <1>1, Invariant, PTL

(***************************************************************************)
(* Answers.  A number stays the name of one request in its session: what   *)
(* was dispatched has a number below the counter, and `pending` has no     *)
(* other request under it.                                                 *)
(***************************************************************************)
\* The operations and answers under way, in whatever session, old ones included.
Sent == running \cup UNION {ToSet(down[t]) \cup ToSet(up[t]) : t \in Sessions}

Paired ==
    \A m \in Sent :
        /\ req[m.of] # "idle" /\ m.id < nextId[target[m.of]]
        /\ \A n \in pending[target[m.of]] : n.id = m.id => n.of = m.of

\* Whose result was told has been asked.
Asked == \A r, q \in Reqs : outcome[r] = {q} => req[q] # "idle"

PInv == IInv /\ Paired /\ Asked /\ AnswersStayPaired

LEMMA ChannelTake ==
    ASSUME NEW ch \in [Sessions -> Seq(Messages)], NEW s \in Sessions, ch[s] # <<>>
    PROVE  /\ Head(ch[s]) \in ToSet(ch[s])
           /\ \A t \in Sessions : ToSet([ch EXCEPT ![s] = Tail(@)][t]) \subseteq ToSet(ch[t])
<1>1. ToSet(ch[s]) = ToSet(Tail(ch[s])) \cup {Head(ch[s])}
  BY ToSetTail
<1>. QED
  BY <1>1

LEMMA ChannelPut ==
    ASSUME NEW ch \in [Sessions -> Seq(Messages)], NEW s \in Sessions, NEW m \in Messages
    PROVE  \A t \in Sessions : ToSet([ch EXCEPT ![s] = Append(@, m)][t]) \subseteq ToSet(ch[t]) \cup {m}
<1>1. ToSet(Append(ch[s], m)) = ToSet(ch[s]) \cup {m}
  BY ToSetAppend
<1>. QED
  BY <1>1

LEMMA SentTyped == TypeOK => Sent \subseteq Messages
<1>. SUFFICES ASSUME TypeOK, NEW t \in Sessions, NEW ch \in {down[t], up[t]}
              PROVE  ToSet(ch) \subseteq Messages
  BY DEF Sent, TypeOK
<1>1. ch \in Seq(Messages)
  BY DEF TypeOK
<1>. QED
  BY <1>1, ElementOfSeq, LenProperties DEF ToSet

\* Where nothing new is sent, numbers name what they named.
LEMMA PairsKept ==
    ASSUME IInv, Paired, Sent' \subseteq Sent, nextId' = nextId,
           \A t \in Sessions : pending'[t] \subseteq pending[t],
           \A r \in Reqs : req[r] # "idle" => req'[r] # "idle" /\ target'[r] = target[r]
    PROVE  Paired'
<1>. SUFFICES ASSUME NEW m \in Sent'
              PROVE  /\ req'[m.of] # "idle" /\ m.id < nextId[target'[m.of]]
                     /\ \A n \in pending'[target'[m.of]] : n.id = m.id => n.of = m.of
  BY DEF Paired
<1>1. m \in Sent /\ m.of \in Reqs
  BY SentTyped DEF IInv, Messages
<1>2. req'[m.of] # "idle" /\ target'[m.of] = target[m.of] /\ target[m.of] \in Sessions
  BY <1>1 DEF Paired, IInv, Targeted
<1>. QED
  BY <1>1, <1>2 DEF Paired

\* Where nobody is told a result, results stay with their requests.
LEMMA AnswersKept ==
    ASSUME IInv, Asked, AnswersStayPaired,
           \A r \in Reqs : /\ outcome'[r] \in {outcome[r], {"ended"}, {"timeout"}}
                           /\ req[r] # "idle" => req'[r] # "idle" /\ target'[r] = target[r]
    PROVE  Asked' /\ AnswersStayPaired'
<1>. SUFFICES ASSUME NEW r \in Reqs, NEW q \in Reqs, outcome'[r] = {q}
              PROVE  req'[q] # "idle" /\ (q = r \/ target'[q] # target'[r])
  BY DEF Asked, AnswersStayPaired
<1>1. outcome[r] = {q}
  BY OpRelayAssumption
<1>2. req[q] # "idle" /\ req[r] # "idle" /\ (q = r \/ target[q] # target[r])
  BY <1>1 DEF Asked, AnswersStayPaired, IInv, Settled
<1>. QED
  BY <1>2

\* The steps that send nothing.
LEMMA StillPaired ==
    ASSUME PInv, UNCHANGED <<nextId, down, up, running>>,
           \A t \in Sessions : pending'[t] \subseteq pending[t],
           \A r \in Reqs : /\ outcome'[r] \in {outcome[r], {"ended"}, {"timeout"}}
                           /\ req[r] # "idle" => req'[r] # "idle" /\ target'[r] = target[r]
    PROVE  Paired' /\ Asked' /\ AnswersStayPaired'
<1>1. Sent' = Sent
  BY DEF Sent
<1>. QED
  BY <1>1, PairsKept, AnswersKept DEF PInv

LEMMA DispatchPairs ==
    ASSUME PInv, NEW s \in Sessions, DispatchOperation(s)
    PROVE  Paired' /\ Asked' /\ AnswersStayPaired'
<1>0. TypeOK /\ Placed /\ Targeted /\ Paired /\ Asked /\ AnswersStayPaired
  BY DEF PInv, IInv
<1>. DEFINE r == Head(queue[s])
            new == [id |-> nextId[s], of |-> r]
            old == {m \in pending[s] : m.id = nextId[s]}
<1>1. r \in InQueue(s) /\ r \in Reqs
  <2>1. r \in InQueue(s)
    BY <1>0, QueueTake DEF DispatchOperation, TypeOK
  <2>. QED
    BY <1>0, <2>1, ToSetInReqs
<1>2. nextId[s] \in Numbers /\ nextId[s] + 1 \in Numbers /\ new \in Messages
  BY <1>0, <1>1, OpRelayAssumption DEF DispatchOperation, TypeOK, Numbers, Messages
<1>3. old = {}
  BY <1>0, <1>2 DEF Placed, Numbers, TypeOK, Messages
<1>4. /\ pending' = [pending EXCEPT ![s] = @ \cup {new}]
      /\ req' = req /\ outcome' = outcome
  BY <1>0, <1>3 DEF DispatchOperation, DropReplies, Owners, TypeOK
<1>5. down' = [down EXCEPT ![s] = Append(@, new)] /\ nextId' = [nextId EXCEPT ![s] = @ + 1]
      /\ UNCHANGED <<target, up, running>>
  BY DEF DispatchOperation, DropReplies
<1>6. new.of = r /\ new.id = nextId[s] /\ target[r] = s /\ req[r] # "idle"
  BY <1>0, <1>1 DEF Placed
<1>. HIDE DEF new, r
<1>7. Sent' \subseteq Sent \cup {new}
  <2>1. \A t \in Sessions : ToSet(down'[t]) \subseteq ToSet(down[t]) \cup {new}
    BY <1>0, <1>2, <1>5, ChannelPut DEF TypeOK
  <2>. QED
    BY <2>1, <1>5 DEF Sent
<1>8. \A t \in Sessions : /\ nextId'[t] = IF t = s THEN nextId[t] + 1 ELSE nextId[t]
                          /\ pending'[t] = IF t = s THEN pending[t] \cup {new} ELSE pending[t]
                          /\ nextId[t] \in Nat
  <2>1. nextId \in [Sessions -> Numbers] /\ pending \in [Sessions -> SUBSET Messages]
    BY <1>0 DEF TypeOK
  <2>2. Numbers \subseteq Nat
    BY DEF Numbers
  <2>. QED
    BY <1>4, <1>5, <2>1, <2>2
<1>9. Paired'
  <2>. SUFFICES ASSUME NEW m \in Sent'
                PROVE  /\ req[m.of] # "idle" /\ m.id < nextId'[target[m.of]]
                       /\ \A n \in pending'[target[m.of]] : n.id = m.id => n.of = m.of
    BY <1>4, <1>5 DEF Paired
  <2>1. CASE m = new
    <3>1. \A n \in pending[s] : n.id # nextId[s]
      BY <1>3
    <3>2. target[m.of] = s /\ m.id = nextId[s] /\ req[m.of] # "idle"
      BY <2>1, <1>6
    <3>3. nextId'[s] = nextId[s] + 1 /\ nextId[s] \in Nat /\ pending'[s] = pending[s] \cup {new}
      BY <1>8
    <3>4. nextId[s] < nextId'[s]
      BY <3>3
    <3>5. \A n \in pending'[s] : n.id = m.id => n.of = m.of
      BY <2>1, <3>1, <3>2, <3>3
    <3>. QED
      BY <3>2, <3>4, <3>5
  <2>2. CASE m \in Sent
    <3>1. /\ m.of \in Reqs /\ m.id \in Nat /\ req[m.of] # "idle"
          /\ target[m.of] \in Sessions /\ m.id < nextId[target[m.of]]
      BY <1>0, <2>2, SentTyped DEF Messages, Numbers, Paired, Targeted
    <3>2. m.id < nextId'[target[m.of]]
      <4>. DEFINE t == target[m.of]
      <4>1. nextId[t] \in Nat /\ nextId'[t] \in {nextId[t], nextId[t] + 1}
        BY <3>1, <1>8
      <4>2. m.id \in Nat /\ m.id < nextId[t]
        BY <3>1
      <4>. HIDE DEF t
      <4>3. m.id < nextId'[t]
        BY <4>1, <4>2
      <4>. QED
        BY <4>3 DEF t
    <3>3. ASSUME NEW n \in pending'[target[m.of]], n.id = m.id PROVE n.of = m.of
      <4>1. n \in pending[target[m.of]]
        <5>1. CASE target[m.of] = s
          <6>1. n \in pending[s] \cup {new}
            BY <1>8, <3>3, <5>1
          <6>2. n # new
            <7>1. nextId[s] \in Nat /\ m.id \in Nat /\ m.id < nextId[s]
              BY <1>8, <3>1, <5>1
            <7>2. m.id # nextId[s]
              BY <7>1
            <7>. QED
              BY <7>2, <3>3, <1>6
          <6>. QED
            BY <6>1, <6>2, <5>1
        <5>2. CASE target[m.of] # s
          BY <1>8, <3>1, <3>3, <5>2
        <5>. QED
          BY <5>1, <5>2
      <4>. QED
        BY <1>0, <4>1, <3>3, <2>2 DEF Paired
    <3>. QED
      BY <3>1, <3>2, <3>3
  <2>. QED
    BY <2>1, <2>2, <1>7
<1>10. Asked' /\ AnswersStayPaired'
  BY <1>0, <1>4, <1>5 DEF Asked, AnswersStayPaired
<1>. QED
  BY <1>9, <1>10

LEMMA ResultPairs ==
    ASSUME PInv, NEW s \in Sessions, OperationResult(s)
    PROVE  Paired' /\ Asked' /\ AnswersStayPaired'
<1>. USE DEF PInv, IInv
<1>. DEFINE answer == Head(up[s])
            entry  == {m \in pending[s] : m.id = answer.id}
            heard  == {r \in Owners(entry) : req[r] = "waiting"}
<1>1. /\ pending' = [pending EXCEPT ![s] = @ \ entry]
      /\ req' = [r \in Reqs |-> IF r \in heard THEN "done" ELSE req[r]]
      /\ outcome' = [r \in Reqs |-> IF r \in heard THEN {answer.of} ELSE outcome[r]]
      /\ up' = [up EXCEPT ![s] = Tail(@)] /\ up[s] # <<>>
      /\ UNCHANGED <<target, nextId, down, running>>
  BY DEF OperationResult
<1>2. answer \in ToSet(up[s]) /\ \A t \in Sessions : ToSet(up'[t]) \subseteq ToSet(up[t])
  BY <1>1, ChannelTake DEF TypeOK
<1>3. Sent' \subseteq Sent /\ answer \in Sent
  BY <1>1, <1>2 DEF Sent
<1>4. answer.of \in Reqs /\ req[answer.of] # "idle"
  BY <1>3, SentTyped DEF Messages, Paired
<1>5. \A r \in heard : r = answer.of \/ target[answer.of] # target[r]
  <2>. SUFFICES ASSUME NEW r \in heard, target[answer.of] = target[r] PROVE r = answer.of
    OBVIOUS
  <2>1. PICK m \in pending[s] : m.id = answer.id /\ r = m.of
    BY DEF Owners
  <2>2. target[r] = s
    BY <2>1 DEF Placed
  <2>. QED
    BY <2>1, <2>2, <1>3 DEF Paired
<1>. HIDE DEF answer, entry, heard
<1>6. \A r \in Reqs : /\ req'[r] = IF r \in heard THEN "done" ELSE req[r]
                      /\ outcome'[r] = IF r \in heard THEN {answer.of} ELSE outcome[r]
  BY <1>1
<1>7. Paired'
  <2>1. \A t \in Sessions : pending'[t] \subseteq pending[t]
    BY <1>1 DEF TypeOK
  <2>2. \A r \in Reqs : req[r] # "idle" => req'[r] # "idle" /\ target'[r] = target[r]
    BY <1>1, <1>6
  <2>. QED
    BY <1>1, <1>3, <2>1, <2>2, PairsKept
<1>8. Asked' /\ AnswersStayPaired'
  <2>. SUFFICES ASSUME NEW r \in Reqs, NEW q \in Reqs, outcome'[r] = {q}
                PROVE  req'[q] # "idle" /\ (q = r \/ target[q] # target[r])
    BY <1>1 DEF Asked, AnswersStayPaired
  <2>1. CASE r \in heard
    <3>1. q = answer.of
      BY <2>1, <1>6
    <3>. QED
      BY <2>1, <3>1, <1>4, <1>5, <1>6
  <2>2. CASE r \notin heard
    BY <2>2, <1>6 DEF Asked, AnswersStayPaired
  <2>. QED
    BY <2>1, <2>2
<1>. QED
  BY <1>7, <1>8

\* The client takes an operation, or answers one.
LEMMA ClientPairs ==
    ASSUME PInv, OnOperation \/ \E m \in Messages : Answer(m)
    PROVE  Paired' /\ Asked' /\ AnswersStayPaired'
<1>. USE DEF PInv, IInv
<1>1. UNCHANGED <<reqVars, taskVars>>
  BY DEF OnOperation, Answer
<1>2. CASE OnOperation
  <2>1. ws \in Sessions /\ down[ws] # <<>>
    BY <1>2 DEF OnOperation, TypeOK, Sessions
  <2>2. /\ Head(down[ws]) \in ToSet(down[ws])
        /\ \A t \in Sessions : ToSet(down'[t]) \subseteq ToSet(down[t])
    BY <1>2, <2>1, ChannelTake DEF OnOperation, TypeOK
  <2>. QED
    <3>1. Sent' \subseteq Sent
      BY <1>2, <2>1, <2>2 DEF OnOperation, Sent
    <3>. QED
      BY <1>1, <3>1, PairsKept, AnswersKept DEF reqVars, taskVars
<1>3. ASSUME NEW m \in Messages, Answer(m) PROVE Sent' \subseteq Sent
  <2>1. \A t \in Sessions : ToSet(up'[t]) \subseteq ToSet(up[t]) \cup {m}
    <3>1. CASE ws \in open
      BY <1>3, <3>1, ChannelPut DEF Answer, TypeOK
    <3>2. CASE ws \notin open
      BY <1>3, <3>2 DEF Answer
    <3>. QED
      BY <3>1, <3>2
  <2>. QED
    BY <1>3, <2>1 DEF Answer, Sent
<1>. QED
  BY <1>1, <1>2, <1>3, PairsKept, AnswersKept DEF reqVars, taskVars

LEMMA PairsStep == PInv /\ [Next]_vars => PInv'
<1>. SUFFICES ASSUME PInv, [Next]_vars PROVE Paired' /\ Asked' /\ AnswersStayPaired'
  BY Step DEF PInv
<1>. USE DEF reqVars, taskVars
<1>0. TypeOK
  BY DEF PInv, IInv
<1>1. ASSUME NEW r \in Reqs, Send(r) \/ Timeout(r) \/ Abandon(r) \/ \E s \in Sessions : Ask(r, s)
      PROVE  Paired' /\ Asked' /\ AnswersStayPaired'
  <2>1. UNCHANGED <<nextId, pending, down, up, running>>
    BY <1>1 DEF Send, Timeout, Abandon, Ask
  <2>2. \A q \in Reqs : outcome'[q] \in {outcome[q], {"ended"}, {"timeout"}}
    BY <1>0, <1>1 DEF TypeOK, Send, Timeout, Abandon, Ask
  <2>3. \A q \in Reqs : req[q] # "idle" => req'[q] # "idle" /\ target'[q] = target[q]
    BY <1>0, <1>1 DEF TypeOK, Send, Timeout, Abandon, Ask
  <2>. QED
    BY <2>1, <2>2, <2>3, StillPaired
<1>2. ASSUME NEW s \in Sessions, Leave(s) \/ End(s)
      PROVE  Paired' /\ Asked' /\ AnswersStayPaired'
  <2>1. /\ UNCHANGED <<nextId, down, up, running>>
        /\ \A t \in Sessions : pending'[t] \subseteq pending[t]
    BY <1>0, <1>2 DEF TypeOK, Leave, End
  <2>2. PICK R : DropReplies(R)
    BY <1>2 DEF Leave, End
  <2>3. \A q \in Reqs : /\ outcome'[q] \in {outcome[q], {"ended"}, {"timeout"}}
                        /\ req[q] # "idle" => req'[q] # "idle" /\ target'[q] = target[q]
    BY <2>2 DEF DropReplies
  <2>. QED
    BY <2>1, <2>3, StillPaired
<1>3. ASSUME (\E s \in Sessions : Drop(s) \/ Connect(s)) \/ Disconnected \/ UNCHANGED vars
      PROVE  Paired' /\ Asked' /\ AnswersStayPaired'
  <2>1. UNCHANGED <<reqVars, nextId, pending, down, up, running>>
    BY <1>3 DEF Drop, Connect, Disconnected, vars
  <2>. QED
    BY <2>1, StillPaired
<1>. QED
  BY <1>1, <1>2, <1>3, DispatchPairs, ResultPairs, ClientPairs DEF Next

LEMMA InitPairs == Init => PInv
<1>. SUFFICES ASSUME Init PROVE Paired /\ Asked /\ AnswersStayPaired
  BY InitInv DEF PInv
<1>1. Sent = {}
  BY ToSetEmpty DEF Init, Sent
<1>. QED
  BY <1>1 DEF Init, Paired, Asked, AnswersStayPaired

\* Within a session every result reaches the request it is of, in whatever order the
\* client's threads finish and however late.
THEOREM PairedCorrect == Spec => []AnswersStayPaired
<1>1. PInv => AnswersStayPaired
  BY DEF PInv
<1>. QED
  BY <1>1, InitPairs, PairsStep, PTL DEF Spec

=============================================================================
