------------------------- MODULE VerdeFollowProofs -------------------------
(***************************************************************************)
(* Proofs about the task that follows the active session, for any set of   *)
(* sessions and upstreams.                                                 *)
(***************************************************************************)
EXTENDS VerdeFollow, TLAPS

\* What a read of the current session established holds until the id changes, and
\* then the change is unseen: the task only marks it seen where it holds no read.
ReadsAreCurrent ==
    /\ vpc \in {"pair", "greet", "serve"} /\ ~ unseen => feedOf = current
    /\ vpc \in {"greet", "serve"} /\ ~ unseen => mirrorOf = current
    /\ vpc = "await" /\ ~ unseen => current = NoSession

IInv == TypeOK /\ ReadsAreCurrent

LEMMA InitInv == Init => IInv
BY DEF Init, SlotInit, IInv, TypeOK, ReadsAreCurrent, VPCs

LEMMA Step == IInv /\ [Next]_allVars => IInv'
<1>. SUFFICES ASSUME IInv, [Next]_allVars PROVE IInv'
  OBVIOUS
<1>. USE DEF IInv, TypeOK, ReadsAreCurrent, VPCs, slotVars
<1>1. CASE Enable
  BY <1>1 DEF Enable
<1>2. CASE Disable
  BY <1>2 DEF Disable
<1>3. CASE Dial
  BY <1>3 DEF Dial
<1>4. CASE See
  BY <1>4 DEF See
<1>5. CASE Populate
  BY <1>5 DEF Populate
<1>6. CASE Subscribe
  BY <1>6 DEF Subscribe
<1>7. CASE Pair
  BY <1>7 DEF Pair
<1>8. CASE Await
  BY <1>8 DEF Await
<1>9. CASE Greet
  BY <1>9 DEF Greet
<1>10. CASE Switched
  BY <1>10 DEF Switched
<1>11. CASE Closed
  BY <1>11 DEF Closed
<1>12. CASE StoreStep
  <2>1. /\ store' \subseteq Conns /\ served' \subseteq Conns
        /\ current' \in Conns \cup {NoSession}
        /\ wanted' \in [Upstreams -> BOOLEAN] /\ gate' \in [Upstreams -> BOOLEAN]
    BY <1>12 DEF StoreStep, SlotNext, Join, Leave, Select, StartServing, StopServing,
                 Want, Switch
  <2>2. unseen' = (unseen \/ current' # current) /\ UNCHANGED <<vpc, feedOf, mirrorOf>>
    BY <1>12 DEF StoreStep
  <2>. QED
    BY <2>1, <2>2
<1>13. CASE UNCHANGED allVars
  BY <1>13 DEF allVars, taskVars
<1>. QED
  BY <1>1, <1>2, <1>3, <1>4, <1>5, <1>6, <1>7, <1>8, <1>9, <1>10, <1>11, <1>12, <1>13
  DEF Next, Follow

\* The task's variables keep their types, whatever the store does.
THEOREM TypeCorrect == Spec => []TypeOK
<1>1. IInv => TypeOK
  BY DEF IInv
<1>. QED
  BY <1>1, InitInv, Step, PTL DEF Spec

\* Snapshot, feed and mirror served to Verde are the active session's, or a rebuild
\* is pending.
THEOREM OneSession == Spec => []ServesOneSession
<1>1. IInv => ServesOneSession
  BY DEF IInv, ReadsAreCurrent, ServesOneSession
<1>. QED
  BY <1>1, InitInv, Step, PTL DEF Spec

\* The task never sleeps over an activation.
THEOREM WakesUp == Spec => []NoLostWakeup
<1>1. IInv => NoLostWakeup
  BY DEF IInv, ReadsAreCurrent, NoLostWakeup
<1>. QED
  BY <1>1, InitInv, Step, PTL DEF Spec

=============================================================================
