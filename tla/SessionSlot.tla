---------------------------- MODULE SessionSlot ----------------------------
(***************************************************************************)
(* What the session store promises the upstream tasks: a set of sessions,  *)
(* at most one of them active, and a switch per upstream that is on while  *)
(* it is wanted and some session is being served.  Module Sessions         *)
(* implements it; the upstream tasks are checked against it.               *)
(***************************************************************************)
EXTENDS Naturals

CONSTANTS Conns, Upstreams, NoSession

VARIABLES
    store,     \* the sessions that can be active
    current,   \* the active one, or NoSession
    served,    \* the sessions that count for the switches
    wanted,    \* wanted[u]: upstream u is asked for
    gate       \* gate[u]: u's task may run

slotVars == <<store, current, served, wanted, gate>>

SlotInit ==
    /\ store = {} /\ current = NoSession /\ served = {}
    /\ wanted \in [Upstreams -> BOOLEAN]
    /\ gate = [u \in Upstreams |-> FALSE]

\* The first session of an empty store becomes the active one.
Join(c) ==
    /\ c \notin store
    /\ store' = store \cup {c}
    /\ current' = IF store = {} THEN c ELSE current
    /\ UNCHANGED <<served, wanted, gate>>

\* The active session leaves the slot empty behind it.
Leave(c) ==
    /\ c \in store
    /\ store' = store \ {c}
    /\ current' = IF current = c THEN NoSession ELSE current
    /\ UNCHANGED <<served, wanted, gate>>

\* On request of the session itself or of a control connection.
Select(c) ==
    /\ c \in store
    /\ current' = c
    /\ UNCHANGED <<store, served, wanted, gate>>

Switch(s, w) ==
    /\ served' = s /\ wanted' = w
    /\ gate' = [u \in Upstreams |-> s # {} /\ w[u]]
    /\ UNCHANGED <<store, current>>

StartServing(c) == c \in store /\ Switch(served \cup {c}, wanted)
\* A session stops counting after it left the store.
StopServing(c)  == c \in served \ store /\ Switch(served \ {c}, wanted)
\* A served session turns an upstream on or off.
Want(u, on)     == served # {} /\ Switch(served, [wanted EXCEPT ![u] = on])

SlotNext ==
    \/ \E c \in Conns : \/ Join(c) \/ Leave(c) \/ Select(c)
                        \/ StartServing(c) \/ StopServing(c)
    \/ \E u \in Upstreams, on \in BOOLEAN : Want(u, on)

SlotSpec == SlotInit /\ [][SlotNext]_slotVars

=============================================================================
