------------------------------ MODULE OpRelay ------------------------------
(***************************************************************************)
(* One operation's way from an upstream to the game and back.              *)
(*                                                                         *)
(* A requester (Verde's dispatch, or the task a control's RunCode spawns)  *)
(* puts the operation and a oneshot reply into the session's bounded queue.*)
(* The session's task numbers it, remembers the reply in `pending` and     *)
(* sends it; the client runs each operation in a thread of its own and     *)
(* answers with the number on whatever socket it has by then; the answer's *)
(* number finds the reply.  The client reconnects after a lost socket: each*)
(* socket is a session of its own, with its own queue, numbers and         *)
(* `pending`, and the task of the old session may outlive its socket.      *)
(***************************************************************************)
EXTENDS Naturals, Sequences, SequencesExt

CONSTANTS
    Reqs,         \* the requests
    Timed,        \* those of Verde, which wait no longer than OP_TIMEOUT
    Ids,          \* bound: a session's u32 counter takes the values 0..Ids-1, it does not wrap
    Cap,          \* capacity of a session's queue
    MaxSessions   \* bound: how often the client connects

ASSUME OpRelayAssumption ==
    /\ Timed \subseteq Reqs
    /\ Reqs \cap {"ended", "timeout"} = {}
    /\ Cap \in Nat \ {0} /\ MaxSessions \in Nat \ {0} /\ Ids \in Nat \ {0}

Sessions == 1..MaxSessions
Numbers  == 0..(Ids - 1)
Messages == [id : Numbers, of : Reqs]

VARIABLES
    req,       \* req[r]: "idle", "sending", "waiting" or "done"
    target,    \* target[r]: the session r was given to, 0 before
    outcome,   \* outcome[r]: {} before the end or when it was abandoned, else the request
               \*   whose result it got, or {"ended"}, {"timeout"}
    task,      \* task[s]: the session's task: "unborn", "serve", "leaving", "gone"
    queue,     \* queue[s]: op_rx
    nextId,    \* nextId[s]: Session.next_op_id
    pending,   \* pending[s]: Session.pending, as the set of its entries
    down, up,  \* down[s], up[s]: operations to the client, answers to the broker
    open,      \* the sessions whose socket is open
    ws,        \* the session of the client's socket `_ws`, 0 without one
    running    \* the operations the client's threads are performing

reqVars  == <<req, target, outcome>>
taskVars == <<task, queue, nextId, pending>>
vars == <<reqVars, taskVars, down, up, open, ws, running>>

\* The reply of each request in R is dropped unanswered: a waiter gets RecvError.
DropReplies(R) ==
    /\ req' = [r \in Reqs |-> IF r \in R /\ req[r] = "waiting" THEN "done" ELSE req[r]]
    /\ outcome' = [r \in Reqs |-> IF r \in R /\ req[r] = "waiting" THEN {"ended"} ELSE outcome[r]]
    /\ UNCHANGED target

Owners(S)   == {m.of : m \in S}
InQueue(s)  == ToSet(queue[s])

(***************************************************************************)
(* The requesters.                                                         *)
(***************************************************************************)
\* A clone of the session's op_sink: a control finds a registered session's, Verde's
\* connection holds the mirror, and with it the sink, even after the session ended.
Ask(r, s) ==
    /\ req[r] = "idle"
    /\ task[s] = "serve" \/ (r \in Timed /\ task[s] # "unborn")
    /\ req' = [req EXCEPT ![r] = "sending"]
    /\ target' = [target EXCEPT ![r] = s]
    /\ UNCHANGED <<outcome, taskVars, down, up, open, ws, running>>

\* sink.send: waits for a place in the queue, fails once op_rx is gone.
Send(r) ==
    LET s == target[r] IN
    /\ req[r] = "sending"
    /\ \/ /\ task[s] # "gone" /\ Len(queue[s]) < Cap
          /\ queue' = [queue EXCEPT ![s] = Append(@, r)]
          /\ req' = [req EXCEPT ![r] = "waiting"]
          /\ outcome' = outcome
       \/ /\ task[s] = "gone"
          /\ req' = [req EXCEPT ![r] = "done"]
          /\ outcome' = [outcome EXCEPT ![r] = {"ended"}]
          /\ queue' = queue
    /\ UNCHANGED <<target, task, nextId, pending, down, up, open, ws, running>>

\* Mutant: the timeout is around the send, not around the wait for the result.
Timeout_OnSend(r) ==
    /\ r \in Timed /\ req[r] = "sending"
    /\ req' = [req EXCEPT ![r] = "done"]
    /\ outcome' = [outcome EXCEPT ![r] = {"timeout"}]
    /\ UNCHANGED <<target, taskVars, down, up, open, ws, running>>

\* timeout(OP_TIMEOUT, result): the reply's receiver is dropped, its entry stays.
Timeout(r) ==
    /\ r \in Timed /\ req[r] = "waiting"
    /\ req' = [req EXCEPT ![r] = "done"]
    /\ outcome' = [outcome EXCEPT ![r] = {"timeout"}]
    /\ UNCHANGED <<target, taskVars, down, up, open, ws, running>>

\* Another session is greeted, or the connection to Verde ends: its operations in
\* flight are dropped with their futures, and nobody is told.
Abandon(r) ==
    /\ r \in Timed /\ req[r] \in {"sending", "waiting"}
    /\ req' = [req EXCEPT ![r] = "done"]
    /\ UNCHANGED <<target, outcome, taskVars, down, up, open, ws, running>>

(***************************************************************************)
(* The session's task.                                                     *)
(***************************************************************************)
\* Mutant: the counter stays where it is.
DispatchOperation_SameId(s) ==
    /\ task[s] = "serve" /\ queue[s] # <<>> /\ nextId[s] + 1 < Ids
    /\ LET r   == Head(queue[s])
           id  == nextId[s]
           old == {m \in pending[s] : m.id = id}
       IN  /\ pending' = [pending EXCEPT ![s] = (@ \ old) \cup {[id |-> id, of |-> r]}]
           /\ down' = [down EXCEPT ![s] = Append(@, [id |-> id, of |-> r])]
           /\ DropReplies(Owners(old))
    /\ queue' = [queue EXCEPT ![s] = Tail(@)]
    /\ UNCHANGED <<nextId, task, up, open, ws, running>>

\* dispatch_operation: pending.insert drops the reply it replaces, if any.
DispatchOperation(s) ==
    /\ task[s] = "serve" /\ queue[s] # <<>> /\ nextId[s] + 1 < Ids
    /\ LET r   == Head(queue[s])
           id  == nextId[s]
           old == {m \in pending[s] : m.id = id}
       IN  /\ nextId' = [nextId EXCEPT ![s] = id + 1]
           /\ pending' = [pending EXCEPT ![s] = (@ \ old) \cup {[id |-> id, of |-> r]}]
           /\ down' = [down EXCEPT ![s] = Append(@, [id |-> id, of |-> r])]
           /\ DropReplies(Owners(old))
    /\ queue' = [queue EXCEPT ![s] = Tail(@)]
    /\ UNCHANGED <<task, up, open, ws, running>>

\* Mutant: an answer resolves the oldest outstanding request, whatever its number.
OperationResult_InOrder(s) ==
    /\ task[s] = "serve" /\ up[s] # <<>>
    /\ LET answer == Head(up[s])
           entry  == {m \in pending[s] : \A n \in pending[s] : m.id <= n.id}
           heard  == {r \in Owners(entry) : req[r] = "waiting"}
       IN  /\ pending' = [pending EXCEPT ![s] = @ \ entry]
           /\ req' = [r \in Reqs |-> IF r \in heard THEN "done" ELSE req[r]]
           /\ outcome' = [r \in Reqs |-> IF r \in heard THEN {answer.of} ELSE outcome[r]]
    /\ up' = [up EXCEPT ![s] = Tail(@)]
    /\ UNCHANGED <<target, task, queue, nextId, down, open, ws, running>>

\* handle(OperationResult): the number finds and removes the reply; a number that is
\* unknown, or whose requester gave up, drops the result.
OperationResult(s) ==
    /\ task[s] = "serve" /\ up[s] # <<>>
    /\ LET answer == Head(up[s])
           entry  == {m \in pending[s] : m.id = answer.id}
           heard  == {r \in Owners(entry) : req[r] = "waiting"}
       IN  /\ pending' = [pending EXCEPT ![s] = @ \ entry]
           /\ req' = [r \in Reqs |-> IF r \in heard THEN "done" ELSE req[r]]
           /\ outcome' = [r \in Reqs |-> IF r \in heard THEN {answer.of} ELSE outcome[r]]
    /\ up' = [up EXCEPT ![s] = Tail(@)]
    /\ UNCHANGED <<target, task, queue, nextId, down, open, ws, running>>

\* Mutant: the session's pending replies outlive its removal.
Leave_KeepsReplies(s) ==
    /\ task[s] = "serve" /\ s \notin open
    /\ task' = [task EXCEPT ![s] = "leaving"]
    /\ pending' = [pending EXCEPT ![s] = {}]
    /\ UNCHANGED <<reqVars, queue, nextId, down, up, open, ws, running>>

\* The socket is closed: sessions.remove drops the Session and every pending reply.
Leave(s) ==
    /\ task[s] = "serve" /\ s \notin open
    /\ task' = [task EXCEPT ![s] = "leaving"]
    /\ pending' = [pending EXCEPT ![s] = {}]
    /\ DropReplies(Owners(pending[s]))
    /\ UNCHANGED <<queue, nextId, down, up, open, ws, running>>

\* handle_connection returns: op_rx is dropped with what is queued.
End(s) ==
    /\ task[s] = "leaving"
    /\ task' = [task EXCEPT ![s] = "gone"]
    /\ queue' = [queue EXCEPT ![s] = <<>>]
    /\ DropReplies(InQueue(s))
    /\ UNCHANGED <<nextId, pending, down, up, open, ws, running>>

(***************************************************************************)
(* The client and the network.                                             *)
(***************************************************************************)
Drop(s) ==
    /\ s \in open
    /\ open' = open \ {s}
    /\ UNCHANGED <<reqVars, taskVars, down, up, ws, running>>

\* _onDisconnected.
Disconnected ==
    /\ ws # 0 /\ ws \notin open
    /\ ws' = 0
    /\ UNCHANGED <<reqVars, taskVars, down, up, open, running>>

\* _attempt, and the session the broker registers for it.
Connect(s) ==
    /\ ws = 0 /\ task[s] = "unborn" /\ \A t \in Sessions : t < s => task[t] # "unborn"
    /\ ws' = s
    /\ open' = open \cup {s}
    /\ task' = [task EXCEPT ![s] = "serve"]
    /\ UNCHANGED <<reqVars, queue, nextId, pending, down, up, running>>

\* _onOperation starts: the socket callback's thread runs the operation, which may
\* yield, so several run at once.
OnOperation ==
    /\ ws # 0 /\ down[ws] # <<>>
    /\ running' = running \cup {Head(down[ws])}
    /\ down' = [down EXCEPT ![ws] = Tail(@)]
    /\ UNCHANGED <<reqVars, taskVars, up, open, ws>>

\* _onOperation ends: _send reads `_ws` now, not when the operation came in.
Answer(m) ==
    /\ m \in running
    /\ running' = running \ {m}
    /\ up' = IF ws \in open THEN [up EXCEPT ![ws] = Append(@, m)] ELSE up
    /\ UNCHANGED <<reqVars, taskVars, down, open, ws>>

-----------------------------------------------------------------------------
Init ==
    /\ req = [r \in Reqs |-> "idle"]
    /\ target = [r \in Reqs |-> 0]
    /\ outcome = [r \in Reqs |-> {}]
    /\ task = [s \in Sessions |-> "unborn"]
    /\ queue = [s \in Sessions |-> <<>>]
    /\ nextId = [s \in Sessions |-> 0]
    /\ pending = [s \in Sessions |-> {}]
    /\ down = [s \in Sessions |-> <<>>]
    /\ up = [s \in Sessions |-> <<>>]
    /\ open = {} /\ ws = 0 /\ running = {}

Next ==
    \/ \E r \in Reqs : Send(r) \/ Timeout(r) \/ Abandon(r) \/ \E s \in Sessions : Ask(r, s)
    \/ \E s \in Sessions : \/ DispatchOperation(s) \/ OperationResult(s) \/ Leave(s)
                           \/ End(s) \/ Drop(s) \/ Connect(s)
    \/ Disconnected \/ OnOperation
    \/ \E m \in Messages : Answer(m)

Spec == Init /\ [][Next]_vars

(***************************************************************************)
(* Tasks keep being polled, and a full queue's senders are served in turn. *)
(* The client owes nobody an answer: an operation may run for ever.  That  *)
(* the session's task gets on with its queue assumes that its client drains*)
(* the socket (PeersDrain of module Sessions): Verde's timeout does not    *)
(* cover the wait for a place in the queue.                                *)
(***************************************************************************)
LiveSpec ==
    /\ Spec
    /\ \A r \in Reqs : SF_vars(Send(r)) /\ WF_vars(Timeout(r))
    /\ \A s \in Sessions : /\ WF_vars(DispatchOperation(s)) /\ WF_vars(Leave(s))
                           /\ WF_vars(End(s))

-----------------------------------------------------------------------------
Entries(s) == Owners(pending[s])

\* The variables keep their types.
TypeOK ==
    /\ req \in [Reqs -> {"idle", "sending", "waiting", "done"}]
    /\ target \in [Reqs -> 0..MaxSessions]
    /\ outcome \in [Reqs -> SUBSET (Reqs \cup {"ended", "timeout"})]
    /\ task \in [Sessions -> {"unborn", "serve", "leaving", "gone"}]
    /\ queue \in [Sessions -> Seq(Reqs)]
    /\ nextId \in [Sessions -> Numbers]
    /\ pending \in [Sessions -> SUBSET Messages]
    /\ down \in [Sessions -> Seq(Messages)] /\ up \in [Sessions -> Seq(Messages)]
    /\ open \subseteq Sessions /\ ws \in 0..MaxSessions
    /\ running \subseteq Messages

\* A requester that waits has a live reply somewhere, in its session's queue or among
\* its pending operations: no exit, timeout or stray answer leaves a control's RunCode,
\* which has no timeout, waiting for nothing.
NoOrphan ==
    \A r \in Reqs : req[r] = "waiting" =>
        r \in InQueue(target[r]) \cup Entries(target[r])

\* "session disconnected before it answered" / "session_ended" is only told of a
\* session that did leave: no second operation pushes a reply out of `pending`.
EndedMeansEnded ==
    \A r \in Reqs : outcome[r] = {"ended"} => task[target[r]] \in {"leaving", "gone"}

\* Within a session an answer reaches the request it answers, in whatever order the
\* client's threads finish, late answers of timed-out requests included.
AnswersStayPaired ==
    \A r, q \in Reqs : outcome[r] = {q} => q = r \/ target[q] # target[r]

\* `id` correlates the OperationResult the client replies with: a request gets
\* the result of its own operation.
AnswerIsMine == \A r, q \in Reqs : outcome[r] = {q} => q = r

\* Verde's operation ends, whether or not the client answers: with a result, an error or
\* the end of what it was asked through.
VerdeSettles == \A r \in Timed : req[r] = "sending" ~> req[r] = "done"

=============================================================================
