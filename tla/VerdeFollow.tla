---------------------------- MODULE VerdeFollow ----------------------------
(***************************************************************************)
(* The task that keeps Verde showing the active session: it runs while its *)
(* switch is on, dials Verde, and for each active session reads a snapshot *)
(* and a change feed, then the session's mirror, and serves both until the *)
(* active session changes or the socket dies.                              *)
(*                                                                         *)
(* The store is behind an async lock and every read below is a lock of its *)
(* own, so the active session may change between any two of them.          *)
(***************************************************************************)
EXTENDS SessionSlot

CONSTANT Verde   \* the upstream this task serves

ASSUME VerdeAssumption == Verde \in Upstreams /\ NoSession \notin Conns

VARIABLES
    vpc,       \* where the task is
    unseen,    \* the watched id changed since the task last marked it seen
    feedOf,    \* the session whose snapshot and feed the task holds
    mirrorOf   \* the session whose mirror answers Verde's requests

taskVars == <<vpc, unseen, feedOf, mirrorOf>>
allVars  == <<slotVars, taskVars>>

VPCs == {"paused", "dial", "see", "populate", "subscribe", "pair", "greet",
         "serve", "await"}

\* start: wait until the switch is on.
Enable == /\ vpc = "paused" /\ gate[Verde]
          /\ vpc' = "dial"
          /\ UNCHANGED <<slotVars, unseen, feedOf, mirrorOf>>

\* Mutant: the switch is only looked at between two connections.
Disable_BetweenConnections ==
    /\ vpc = "dial" /\ ~ gate[Verde]
    /\ vpc' = "paused"
    /\ UNCHANGED <<slotVars, unseen, feedOf, mirrorOf>>

\* start: the select drops the connect loop wherever it is.
Disable == /\ vpc # "paused" /\ ~ gate[Verde]
           /\ vpc' = "paused"
           /\ UNCHANGED <<slotVars, unseen, feedOf, mirrorOf>>

\* connect_loop: connected, and a fresh receiver of the current id, which has
\* seen the value it starts from.  A failed attempt is a retry after a delay.
Dial == /\ vpc = "dial"
        /\ vpc' = "see"
        /\ unseen' = FALSE
        /\ UNCHANGED <<slotVars, feedOf, mirrorOf>>

\* borrow_and_update, before anything is read.
See == /\ vpc = "see"
       /\ vpc' = "populate"
       /\ unseen' = FALSE
       /\ UNCHANGED <<slotVars, feedOf, mirrorOf>>

\* wait_current_dom_populated: ends with nodes, with a timeout or with no session.
Populate == /\ vpc = "populate"
            /\ vpc' = "subscribe"
            /\ UNCHANGED <<slotVars, unseen, feedOf, mirrorOf>>

\* subscribe_current_dom: snapshot and feed of whoever is active now.
Subscribe ==
    /\ vpc = "subscribe"
    /\ vpc' = IF current = NoSession THEN "await" ELSE "pair"
    /\ feedOf' = current
    /\ UNCHANGED <<slotVars, unseen, mirrorOf>>

\* Mutant: the id is marked seen with the mirror.
Pair_MarksSeen ==
    /\ vpc = "pair"
    /\ vpc' = IF current = NoSession THEN "await" ELSE "greet"
    /\ mirrorOf' = current
    /\ unseen' = FALSE
    /\ UNCHANGED <<slotVars, feedOf>>

\* The mirror and security level of whoever is active now.
Pair ==
    /\ vpc = "pair"
    /\ vpc' = IF current = NoSession THEN "await" ELSE "greet"
    /\ mirrorOf' = current
    /\ UNCHANGED <<slotVars, unseen, feedOf>>

\* current.changed().await without a session: the socket is not read meanwhile.
Await == /\ vpc = "await" /\ unseen
         /\ vpc' = "see"
         /\ unseen' = FALSE
         /\ UNCHANGED <<slotVars, feedOf, mirrorOf>>

\* The snapshot is sent, or the socket is gone.
Greet == /\ vpc = "greet"
         /\ vpc' \in {"serve", "dial"}
         /\ UNCHANGED <<slotVars, unseen, feedOf, mirrorOf>>

\* Mutant: the feed is kept over a switch, only the mirror is read again.
Switched_KeepsFeed ==
    /\ vpc = "serve" /\ unseen
    /\ vpc' = "pair"
    /\ unseen' = FALSE
    /\ UNCHANGED <<slotVars, feedOf, mirrorOf>>

\* serve: the active session changed (Served::Switched).
Switched == /\ vpc = "serve" /\ unseen
            /\ vpc' = "see"
            /\ unseen' = FALSE
            /\ UNCHANGED <<slotVars, feedOf, mirrorOf>>

\* serve: Verde closed, failed or fell silent, or the feed's mirror was dropped
\* with its session (Served::Closed).
Closed == /\ vpc = "serve"
          /\ vpc' = "dial"
          /\ UNCHANGED <<slotVars, unseen, feedOf, mirrorOf>>

\* Mutant: a session that fills the empty slot is not announced.
StoreStep_FirstUnannounced ==
    /\ SlotNext
    /\ unseen' = (unseen \/ (current # NoSession /\ current' # current))
    /\ UNCHANGED <<vpc, feedOf, mirrorOf>>

\* watch: a step of the store that moves the active session is unseen.
StoreStep == /\ SlotNext
             /\ unseen' = (unseen \/ current' # current)
             /\ UNCHANGED <<vpc, feedOf, mirrorOf>>

Init == /\ SlotInit
        /\ vpc = "paused" /\ unseen = FALSE
        /\ feedOf = NoSession /\ mirrorOf = NoSession

Follow == \/ Dial \/ See \/ Populate \/ Subscribe \/ Pair \/ Await \/ Greet \/ Switched

Next == Enable \/ Disable \/ Follow \/ Closed \/ StoreStep

Spec == Init /\ [][Next]_allVars

(***************************************************************************)
(* The task is polled (WF), a select with several ready arms takes each in *)
(* the end (SF), Verde answers a dial in the end and its socket does not   *)
(* always die before the snapshot (SF of Greet into serve).                *)
(***************************************************************************)
LiveSpec == /\ Spec /\ WF_allVars(Enable) /\ WF_allVars(Disable) /\ SF_allVars(Follow)
            /\ SF_allVars(Greet /\ vpc' = "serve")

-----------------------------------------------------------------------------
\* The task's variables keep their types.
TypeOK ==
    /\ store \subseteq Conns /\ served \subseteq Conns
    /\ current \in Conns \cup {NoSession}
    /\ wanted \in [Upstreams -> BOOLEAN] /\ gate \in [Upstreams -> BOOLEAN]
    /\ vpc \in VPCs /\ unseen \in BOOLEAN
    /\ feedOf \in Conns \cup {NoSession} /\ mirrorOf \in Conns \cup {NoSession}

\* Snapshot, feed and mirror come from two reads of "the current session".  When
\* they are served they are the active session's, all of them, or a switch that
\* makes the task read them again is already pending: Verde is never left showing
\* one session and sending its operations to another.
ServesOneSession ==
    vpc \in {"greet", "serve"} /\ ~ unseen => feedOf = current /\ mirrorOf = current

\* The task sleeps without a session only while there is none, or its wake-up is
\* pending: a session activated between the reads is not missed.
NoLostWakeup == vpc = "await" /\ ~ unseen => current = NoSession

\* Once the active session and the switch stay put, Verde is served from that session
\* again and again, however the connection fails in between.
FollowsActive ==
    \A c \in Conns :
        <>[](current = c /\ gate[Verde])
            => []<>(vpc = "serve" /\ feedOf = c /\ mirrorOf = c)

\* A switched-off upstream is dropped wherever its task is ("disabling drops any live
\* connection").
OffPauses == ~ gate[Verde] ~> vpc = "paused" \/ gate[Verde]

=============================================================================
