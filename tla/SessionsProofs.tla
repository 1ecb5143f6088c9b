--------------------------- MODULE SessionsProofs ---------------------------
(***************************************************************************)
(* Proofs about the session store, for any set of connections, controls,   *)
(* spy configs and upstreams.                                              *)
(***************************************************************************)
EXTENDS Sessions, FiniteSetTheorems, TLAPS

\* The states in which a connection's task owns a SessionGuard for certain, and
\* those in which it may.
Guarded      == {"serve", "pong", "reply", "activate", "untrack"}
MayBeGuarded == Guarded \cup {"remove", "retract"}

\* Where a task can be while its session is stored, announced and counted.
Places ==
    /\ store = {c \in Conns : pc[c] \in Registered}
    /\ \A c \in announced : pc[c] \in (Registered \ {"announce"}) \cup {"retract"}
    /\ \A c \in tracked : pc[c] \in MayBeGuarded
    /\ \A c \in Conns : pc[c] \in Guarded => c \in tracked

Counted == IsFiniteSet(tracked) /\ SwitchesReflectSessions

\* The inductive invariant.  TypeOK needs Counted (the count is decremented), which
\* needs Places (the decremented guard was counted), which needs the task's state.
IInv ==
    /\ TypeOK
    /\ Places
    /\ CurrentIsStored
    /\ GuardHasSender
    /\ Counted

\* The count is positive exactly when some guard is alive.
LEMMA CountPositive ==
    ASSUME NEW S, IsFiniteSet(S)
    PROVE  Cardinality(S) \in Nat /\ (Cardinality(S) > 0 <=> S # {})
BY FS_CardinalityType, FS_EmptySet

\* Taking a guard, or dropping a live one, moves the count of the guards by one.
LEMMA GuardCount ==
    ASSUME NEW S, IsFiniteSet(S), NEW c
    PROVE  /\ IsFiniteSet(S \cup {c})
           /\ c \notin S => Cardinality(S \cup {c}) = Cardinality(S) + 1
           /\ IsFiniteSet(S \ {c})
           /\ c \in S => Cardinality(S \ {c}) = Cardinality(S) - 1
BY FS_CardinalityType, FS_AddElement, FS_RemoveElement

LEMMA InitInv == Init => IInv
<1>. SUFFICES ASSUME Init PROVE IInv
  OBVIOUS
<1>. USE DEF Init
<1>1. TypeOK
  BY SessionsAssumption DEF TypeOK, PCs
<1>2. Places
  BY DEF Places, Registered, Sending, Guarded, MayBeGuarded
<1>3. CurrentIsStored
  BY DEF CurrentIsStored
<1>4. GuardHasSender
  BY SessionsAssumption DEF GuardHasSender, Sending
<1>5. Counted
  BY FS_EmptySet DEF Counted, SwitchesReflectSessions
<1>. QED
  BY <1>1, <1>2, <1>3, <1>4, <1>5 DEF IInv

\* Every step of every task preserves the inductive invariant: one step of the proof
\* per action.
LEMMA Step == IInv /\ [Next]_vars => IInv'
<1>. SUFFICES ASSUME IInv, [Next]_vars PROVE IInv'
  OBVIOUS
<1>. USE SessionsAssumption DEF IInv, TypeOK, Places, CurrentIsStored, GuardHasSender,
         Counted, SwitchesReflectSessions, PCs, Registered, Sending, Guarded, MayBeGuarded
<1>. USE DEF taskVars, storeVars, spyVars, gateVars, ctlVars, Goto
<1>1. ASSUME NEW c \in Conns, Stall(c) PROVE IInv'
  BY <1>1 DEF Stall
<1>2. ASSUME NEW c \in Conns, Resume(c) PROVE IInv'
  BY <1>2 DEF Resume
<1>3. ASSUME NEW c \in Conns, Close(c) PROVE IInv'
  BY <1>3 DEF Close
<1>4. ASSUME NEW c \in Conns, Accept(c) PROVE IInv'
  BY <1>4 DEF Accept
<1>5. ASSUME NEW c \in Conns, Hello(c) PROVE IInv'
  BY <1>5 DEF Hello
<1>6. ASSUME NEW c \in Conns, Insert(c) PROVE IInv'
  BY <1>6 DEF Insert, InsertSession
<1>7. ASSUME NEW c \in Conns, Announce(c) PROVE IInv'
  BY <1>7 DEF Announce
<1>8. ASSUME NEW c \in Conns, Arm(c) PROVE IInv'
  BY <1>8 DEF Arm
<1>9. ASSUME NEW c \in Conns, ArmSent(c) PROVE IInv'
  BY <1>9 DEF ArmSent
<1>10. ASSUME NEW c \in Conns, Track(c) PROVE IInv'
  <2>1. c \notin tracked
    BY <1>10 DEF Track
  <2>2. IsFiniteSet(tracked') /\ sessions' = Cardinality(tracked')
    BY <1>10, <2>1, GuardCount DEF Track, TrackSession, Apply
  <2>3. sessions' \in Nat /\ (sessions' > 0 <=> tracked' # {})
    BY <2>2, CountPositive
  <2>4. \A u \in Upstreams : gate'[u] <=> wanted'[u] /\ tracked' # {}
    BY <1>10, <2>3 DEF Track, TrackSession, Apply
  <2>5. TypeOK' /\ Places' /\ CurrentIsStored' /\ GuardHasSender'
    BY <1>10, <2>3 DEF Track, TrackSession, Apply
  <2>. QED
    BY <2>2, <2>4, <2>5
<1>11. ASSUME NEW c \in Conns, OnPing(c) PROVE IInv'
  BY <1>11 DEF OnPing, Respond
<1>12. ASSUME NEW c \in Conns, OnRelay(c) PROVE IInv'
  BY <1>12 DEF OnRelay, Respond
<1>13. ASSUME NEW c \in Conns, PongSent(c) PROVE IInv'
  BY <1>13 DEF PongSent
<1>14. ASSUME NEW c \in Conns, ReplySent(c) PROVE IInv'
  BY <1>14 DEF ReplySent
<1>15. ASSUME NEW c \in Conns, OnRequestActive(c) PROVE IInv'
  BY <1>15 DEF OnRequestActive
<1>16. ASSUME NEW c \in Conns, Activate(c) PROVE IInv'
  BY <1>16 DEF Activate, SetCurrent
<1>17. ASSUME NEW c \in Conns, SeeClose(c) PROVE IInv'
  BY <1>17 DEF SeeClose
<1>18. ASSUME NEW c \in Conns, Remove(c) PROVE IInv'
  BY <1>18 DEF Remove, RemoveSession
<1>19. ASSUME NEW c \in Conns, Retract(c) PROVE IInv'
  BY <1>19 DEF Retract
<1>20. ASSUME NEW c \in Conns, Untrack(c) PROVE IInv'
  <2>1. c \in tracked
    BY <1>20 DEF Untrack
  <2>2. IsFiniteSet(tracked') /\ sessions' = Cardinality(tracked')
    BY <1>20, <2>1, GuardCount DEF Untrack, DropGuard, Apply
  <2>3. sessions' \in Nat /\ (sessions' > 0 <=> tracked' # {})
    BY <2>2, CountPositive
  <2>4. \A u \in Upstreams : gate'[u] <=> wanted'[u] /\ tracked' # {}
    BY <1>20, <2>3 DEF Untrack, DropGuard, Apply
  <2>5. TypeOK' /\ Places' /\ CurrentIsStored' /\ GuardHasSender'
    BY <1>20, <2>3 DEF Untrack, DropGuard, Apply
  <2>. QED
    BY <2>2, <2>4, <2>5
<1>21. ASSUME NEW c \in Conns, NEW u \in Upstreams, NEW on \in BOOLEAN,
            OnSetUpstream(c, u, on) PROVE IInv'
  <2>1. sessions > 0 <=> tracked # {}
    BY CountPositive
  <2>2. Counted'
    BY <1>21, <2>1 DEF OnSetUpstream, Respond, ControlsSet, Apply
  <2>3. TypeOK' /\ Places' /\ CurrentIsStored' /\ GuardHasSender'
    BY <1>21 DEF OnSetUpstream, Respond, ControlsSet, Apply
  <2>. QED
    BY <2>2, <2>3
<1>22. ASSUME NEW k \in Controls, NEW id \in Conns, SwapActive(k, id) PROVE IInv'
  BY <1>22 DEF SwapActive, SetCurrent
<1>23. ASSUME NEW k \in Controls, NEW config \in Configs, SetSpy(k, config) PROVE IInv'
  BY <1>23 DEF SetSpy
<1>24. ASSUME NEW k \in Controls, ListIds(k) PROVE IInv'
  BY <1>24 DEF ListIds
<1>25. ASSUME NEW k \in Controls, NEW id \in Conns, PushNext(k, id) PROVE IInv'
  BY <1>25 DEF PushNext
<1>26. ASSUME NEW k \in Controls, PushSent(k) PROVE IInv'
  BY <1>26 DEF PushSent
<1>27. ASSUME NEW k \in Controls, PushDone(k) PROVE IInv'
  BY <1>27 DEF PushDone
<1>28. ASSUME NEW c \in Conns, BadFrame(c) PROVE IInv'
  BY <1>28 DEF BadFrame
<1>29. ASSUME UNCHANGED vars PROVE IInv'
  BY <1>29 DEF vars
<1>. QED
  BY <1>1, <1>2, <1>3, <1>4, <1>5, <1>6, <1>7, <1>8, <1>9, <1>10, <1>11, <1>12, <1>13,
     <1>14, <1>15, <1>16, <1>17, <1>18, <1>19, <1>20, <1>21, <1>22, <1>23, <1>24,
     <1>25, <1>26, <1>27, <1>28, <1>29 DEF Next, Register, Serve, Unregister, Socket, Command

\* The variables keep their types, `sessions` a natural number among them: no exit
\* path drops a guard it did not take.
THEOREM TypeCorrect == Spec => []TypeOK
<1>1. IInv => TypeOK
  BY DEF IInv
<1>. QED
  BY <1>1, InitInv, Step, PTL DEF Spec

\* The active id always names a stored session.
THEOREM CurrentCorrect == Spec => []CurrentIsStored
<1>1. IInv => CurrentIsStored
  BY DEF IInv
<1>. QED
  BY <1>1, InitInv, Step, PTL DEF Spec

\* No exit path of a connection's task leaves a stored session, an unretracted
\* announcement or a counted guard behind.
THEOREM ExitCorrect == Spec => []NothingLeaks
<1>1. IInv => NothingLeaks
  BY DEF IInv, TypeOK, Places, NothingLeaks, Registered, Sending, Guarded, MayBeGuarded
<1>. QED
  BY <1>1, InitInv, Step, PTL DEF Spec

\* The write guard of the store is never kept by a task that is not sending.
THEOREM GuardCorrect == Spec => []GuardHasSender
<1>1. IInv => GuardHasSender
  BY DEF IInv
<1>. QED
  BY <1>1, InitInv, Step, PTL DEF Spec

\* Each upstream's switch is on exactly while wanted with a served session.
THEOREM SwitchesCorrect == Spec => []SwitchesReflectSessions
<1>1. IInv => SwitchesReflectSessions
  BY DEF IInv, Counted
<1>. QED
  BY <1>1, InitInv, Step, PTL DEF Spec

\* Joins and leaves move the active slot only as documented.
THEOREM MembershipCorrect == Spec => MembershipKeepsActive
<1>. DEFINE Keeps == store' # store =>
                       \/ store = {} /\ current' \in store'
                       \/ store # {} /\ current' = IF current \in store' THEN current ELSE NoSession
<1>1. IInv /\ [Next]_vars => [Keeps]_vars
  <2>. SUFFICES ASSUME IInv, Next PROVE Keeps
    BY DEF vars
  <2>. USE SessionsAssumption DEF IInv, TypeOK, CurrentIsStored, Places
  <2>1. ASSUME NEW c \in Conns, Insert(c) PROVE Keeps
    BY <2>1 DEF Insert, InsertSession
  <2>2. ASSUME NEW c \in Conns, Remove(c) PROVE Keeps
    BY <2>2 DEF Remove, RemoveSession
  <2>3. CASE store' = store
    BY <2>3
  <2>4. store' # store => \E c \in Conns : Insert(c) \/ Remove(c)
    BY DEF Next, Register, Serve, Unregister, Socket, Command, storeVars, Stall, Resume,
           Close, Accept, Hello, Announce, Arm, ArmSent, Track, OnPing, OnRelay, Respond,
           OnSetUpstream, PongSent, ReplySent, OnRequestActive, Activate, SeeClose, BadFrame, Retract,
           Untrack, SwapActive, SetSpy, ListIds, PushNext, PushSent, PushDone
  <2>. QED
    BY <2>1, <2>2, <2>3, <2>4
<1>. QED
  BY <1>1, InitInv, Step, PTL DEF Spec, MembershipKeepsActive

-----------------------------------------------------------------------------
(* The spy config, with one control connection.                            *)

SingleControl == \A j, k \in Controls : j = k

\* Control k's handler has still to push to c.
Owed(k, c) ==
    \/ ctl[k] = "list"
    \/ ctl[k] \in {"push", "send"} /\ c \in ctlIds[k]
    \/ ctl[k] = "send" /\ ctlTo[k] = c

\* Whoever is behind, or about to be told an older config, is owed a push of the
\* current one.
SpyInv ==
    /\ \A k \in Controls : ctl[k] # "idle" => ctlCfg[k] = spy
    /\ \A c \in Conns :
          pc[c] \in Armed /\ link[c] # "down" /\ told[c] # {spy} => \E k \in Controls : Owed(k, c)
    /\ \A c \in Conns :
          pc[c] = "arming" /\ armCfg[c] # spy => \E k \in Controls : Owed(k, c)

LEMMA SpyStep ==
    ASSUME SingleControl, IInv, SpyInv, [Next]_vars
    PROVE  SpyInv'
<1>. USE SessionsAssumption DEF SpyInv, Owed
<1>. USE DEF IInv, TypeOK, Places, GuardHasSender, PCs, Registered, Sending, Armed,
         taskVars, storeVars, spyVars, gateVars, ctlVars, Goto
<1>1. ASSUME NEW c \in Conns, Stall(c) PROVE SpyInv'
  BY <1>1 DEF Stall
<1>2. ASSUME NEW c \in Conns, Resume(c) PROVE SpyInv'
  BY <1>2 DEF Resume
<1>3. ASSUME NEW c \in Conns, Close(c) PROVE SpyInv'
  BY <1>3 DEF Close
<1>4. ASSUME NEW c \in Conns, Accept(c) PROVE SpyInv'
  BY <1>4 DEF Accept
<1>5. ASSUME NEW c \in Conns, Hello(c) PROVE SpyInv'
  BY <1>5 DEF Hello
<1>6. ASSUME NEW c \in Conns, Insert(c) PROVE SpyInv'
  BY <1>6 DEF Insert
<1>7. ASSUME NEW c \in Conns, Announce(c) PROVE SpyInv'
  BY <1>7 DEF Announce
<1>8. ASSUME NEW c \in Conns, Arm(c) PROVE SpyInv'
  BY <1>8 DEF Arm
<1>9. ASSUME NEW c \in Conns, ArmSent(c) PROVE SpyInv'
  BY <1>9 DEF ArmSent
<1>10. ASSUME NEW c \in Conns, Track(c) PROVE SpyInv'
  BY <1>10 DEF Track
<1>11. ASSUME NEW c \in Conns, OnPing(c) PROVE SpyInv'
  BY <1>11 DEF OnPing, Respond
<1>12. ASSUME NEW c \in Conns, OnRelay(c) PROVE SpyInv'
  BY <1>12 DEF OnRelay, Respond
<1>13. ASSUME NEW c \in Conns, PongSent(c) PROVE SpyInv'
  BY <1>13 DEF PongSent
<1>14. ASSUME NEW c \in Conns, ReplySent(c) PROVE SpyInv'
  BY <1>14 DEF ReplySent
<1>15. ASSUME NEW c \in Conns, OnRequestActive(c) PROVE SpyInv'
  BY <1>15 DEF OnRequestActive
<1>16. ASSUME NEW c \in Conns, Activate(c) PROVE SpyInv'
  BY <1>16 DEF Activate
<1>17. ASSUME NEW c \in Conns, SeeClose(c) PROVE SpyInv'
  BY <1>17 DEF SeeClose
<1>18. ASSUME NEW c \in Conns, Remove(c) PROVE SpyInv'
  BY <1>18 DEF Remove
<1>19. ASSUME NEW c \in Conns, Retract(c) PROVE SpyInv'
  BY <1>19 DEF Retract
<1>20. ASSUME NEW c \in Conns, Untrack(c) PROVE SpyInv'
  BY <1>20 DEF Untrack
<1>21. ASSUME NEW c \in Conns, NEW u \in Upstreams, NEW on \in BOOLEAN,
            OnSetUpstream(c, u, on) PROVE SpyInv'
  BY <1>21, SingleControl DEF OnSetUpstream, Respond, SingleControl
<1>22. ASSUME NEW k \in Controls, NEW id \in Conns, SwapActive(k, id) PROVE SpyInv'
  BY <1>22, SingleControl DEF SwapActive, SingleControl
<1>23. ASSUME NEW k \in Controls, NEW config \in Configs, SetSpy(k, config) PROVE SpyInv'
  BY <1>23, SingleControl DEF SetSpy, SingleControl
<1>24. ASSUME NEW k \in Controls, ListIds(k) PROVE SpyInv'
  BY <1>24, SingleControl DEF ListIds, SingleControl
<1>25. ASSUME NEW k \in Controls, NEW id \in Conns, PushNext(k, id) PROVE SpyInv'
  <2>1. \A j \in Controls : j = k
    BY SingleControl DEF SingleControl
  <2>2. ASSUME NEW d \in store, Owed(k, d) PROVE Owed(k, d)'
    BY <1>25, <2>2 DEF PushNext
  <2>3. \A d \in store : (\E j \in Controls : Owed(j, d)) => \E j \in Controls : Owed(j, d)'
    BY <2>1, <2>2
  <2>4. UNCHANGED <<pc, link, told, armCfg, spy>> /\ \A j \in Controls : ctlCfg'[j] = spy
    BY <1>25, <2>1 DEF PushNext
  <2>5. \A d \in Conns : pc[d] \in Armed \cup {"arming"} => d \in store
    OBVIOUS
  <2>. HIDE DEF Owed
  <2>. QED
    BY <2>3, <2>4, <2>5
<1>26. ASSUME NEW k \in Controls, PushSent(k) PROVE SpyInv'
  <2>1. \A j \in Controls : j = k
    BY SingleControl DEF SingleControl
  <2>2. ASSUME NEW d \in Conns, d # ctlTo[k], Owed(k, d) PROVE Owed(k, d)'
    BY <1>26, <2>2 DEF PushSent
  <2>3. \A d \in Conns : d # ctlTo[k] /\ (\E j \in Controls : Owed(j, d))
                           => \E j \in Controls : Owed(j, d)'
    BY <2>1, <2>2
  <2>4. /\ UNCHANGED <<pc, link, armCfg, spy>>
        /\ \A j \in Controls : ctlCfg'[j] = spy
        /\ \A d \in Conns : d # ctlTo[k] => told'[d] = told[d]
        /\ \A d \in Conns : d = ctlTo[k] => told'[d] = {spy} \/ link[d] = "down"
        /\ \A d \in Conns : pc[d] # "arming"
    BY <1>26, <2>1 DEF PushSent, Fails
  <2>. HIDE DEF Owed
  <2>. QED
    BY <2>3, <2>4
<1>27. ASSUME NEW k \in Controls, PushDone(k) PROVE SpyInv'
  <2>1. \A j \in Controls : j = k
    BY SingleControl DEF SingleControl
  <2>2. \A d \in Conns : ~ Owed(k, d)
    BY <1>27 DEF PushDone
  <2>3. \A d \in Conns : ~ \E j \in Controls : Owed(j, d)
    BY <2>1, <2>2
  <2>4. \A j \in Controls : ctl'[j] = "idle"
    BY <1>27, <2>1 DEF PushDone
  <2>5. UNCHANGED <<pc, link, told, armCfg, spy>>
    BY <1>27 DEF PushDone
  <2>. HIDE DEF Owed
  <2>. QED
    BY <2>3, <2>4, <2>5
<1>28. ASSUME NEW c \in Conns, BadFrame(c) PROVE SpyInv'
  BY <1>28 DEF BadFrame
<1>29. ASSUME UNCHANGED vars PROVE SpyInv'
  BY <1>29, SingleControl DEF vars, SingleControl
<1>. HIDE DEF SpyInv, IInv
<1>. QED
  BY <1>1, <1>2, <1>3, <1>4, <1>5, <1>6, <1>7, <1>8, <1>9, <1>10, <1>11, <1>12, <1>13,
     <1>14, <1>15, <1>16, <1>17, <1>18, <1>19, <1>20, <1>21, <1>22, <1>23, <1>24,
     <1>25, <1>26, <1>27, <1>28, <1>29 DEF Next, Register, Serve, Unregister, Socket, Command

\* With one control connection, served sessions are told what `Sessions::spy` says
\* as soon as no SetSpy is in progress.
THEOREM SpyCorrect ==
    ASSUME SingleControl
    PROVE  Spec => []SpySettled
<1>1. Init => SpyInv
  BY DEF Init, SpyInv, Owed, Armed
<1>2. IInv /\ SpyInv /\ [Next]_vars => SpyInv'
  BY SpyStep, SingleControl
<1>3. SpyInv => SpySettled
  BY DEF SpyInv, SpySettled, Owed
<1>. QED
  BY <1>1, <1>2, <1>3, InitInv, Step, PTL DEF Spec

-----------------------------------------------------------------------------
(* The upstream tasks' view.                                               *)

\* The switches as the abstract specification computes them.
LEMMA GateOfTracked ==
    ASSUME NEW S, IsFiniteSet(S), NEW n, n = Cardinality(S), NEW w,
           gate' = [u \in Upstreams |-> n > 0 /\ w[u]]
    PROVE  gate' = [u \in Upstreams |-> S # {} /\ w[u]]
BY CountPositive

\* The session store implements what the upstream tasks are checked against.
THEOREM StoreImplementsSlot == Spec => ImplementsSlot
<1>1. Init => Slot!SlotInit
  BY DEF Init, Slot!SlotInit
<1>2. IInv /\ [Next]_vars => [Slot!SlotNext]_(Slot!slotVars)
  <2>. SUFFICES ASSUME IInv, [Next]_vars PROVE [Slot!SlotNext]_(Slot!slotVars)
    OBVIOUS
  <2>. USE DEF Slot!SlotNext, Slot!slotVars
  <2>1. ASSUME NEW c \in Conns, Insert(c) PROVE Slot!Join(c)
    BY <2>1 DEF Insert, InsertSession, Slot!Join, IInv, Places, Registered, Sending, gateVars
  <2>2. ASSUME NEW c \in Conns, Remove(c) PROVE Slot!Leave(c)
    BY <2>2 DEF Remove, RemoveSession, Slot!Leave, IInv, Places, Registered, gateVars
  <2>3. ASSUME NEW id \in Conns, SetCurrent(id), UNCHANGED <<store, tracked, wanted, gate>>
        PROVE  Slot!Select(id) \/ UNCHANGED Slot!slotVars
    BY <2>3 DEF SetCurrent, Slot!Select
  <2>4. ASSUME NEW c \in Conns, Activate(c)
        PROVE  SetCurrent(c) /\ UNCHANGED <<store, tracked, wanted, gate>>
    BY <2>4 DEF Activate, gateVars
  <2>5. ASSUME NEW k \in Controls, NEW id \in Conns, SwapActive(k, id)
        PROVE  SetCurrent(id) /\ UNCHANGED <<store, tracked, wanted, gate>>
    BY <2>5 DEF SwapActive, gateVars
  <2>6. ASSUME NEW c \in Conns, Track(c) PROVE Slot!StartServing(c)
    <3>1. c \in store /\ c \notin tracked
      BY <2>6 DEF Track, IInv, Places, Registered, MayBeGuarded, Guarded
    <3>2. IsFiniteSet(tracked \cup {c}) /\ sessions + 1 = Cardinality(tracked \cup {c})
      BY <3>1, GuardCount DEF IInv, Counted, SwitchesReflectSessions
    <3>3. gate' = [u \in Upstreams |-> tracked \cup {c} # {} /\ wanted[u]]
      BY <2>6, <3>2, GateOfTracked DEF Track, TrackSession, Apply
    <3>. QED
      BY <2>6, <3>1, <3>3 DEF Track, TrackSession, Apply, storeVars, Slot!StartServing, Slot!Switch
  <2>7. ASSUME NEW c \in Conns, Untrack(c) PROVE Slot!StopServing(c)
    <3>1. c \in tracked \ store
      BY <2>7 DEF Untrack, IInv, Places, Registered, Sending, Guarded
    <3>2. IsFiniteSet(tracked \ {c}) /\ sessions - 1 = Cardinality(tracked \ {c})
      BY <3>1, GuardCount DEF IInv, Counted, SwitchesReflectSessions
    <3>3. gate' = [u \in Upstreams |-> tracked \ {c} # {} /\ wanted[u]]
      BY <2>7, <3>2, GateOfTracked DEF Untrack, DropGuard, Apply
    <3>. QED
      BY <2>7, <3>1, <3>3 DEF Untrack, DropGuard, Apply, storeVars, Slot!StopServing, Slot!Switch
  <2>8. ASSUME NEW c \in Conns, NEW u \in Upstreams, NEW on \in BOOLEAN, OnSetUpstream(c, u, on)
        PROVE  Slot!Want(u, on)
    <3>1. tracked # {}
      BY <2>8 DEF OnSetUpstream, Respond, IInv, Places, Guarded
    <3>2. gate' = [v \in Upstreams |-> tracked # {} /\ wanted'[v]]
      <4>1. IsFiniteSet(tracked) /\ sessions = Cardinality(tracked)
        BY DEF IInv, Counted, SwitchesReflectSessions
      <4>2. gate' = [v \in Upstreams |-> sessions > 0 /\ wanted'[v]]
        BY <2>8 DEF OnSetUpstream, ControlsSet, Apply
      <4>. QED
        BY <4>1, <4>2, GateOfTracked
    <3>. QED
      BY <2>8, <3>1, <3>2 DEF OnSetUpstream, Respond, ControlsSet, Apply, storeVars, Slot!Want, Slot!Switch
  <2>9. ASSUME UNCHANGED <<store, current, tracked, wanted, gate>> PROVE UNCHANGED Slot!slotVars
    BY <2>9
  <2>10. UNCHANGED vars => UNCHANGED <<store, current, tracked, wanted, gate>>
    BY DEF vars, storeVars, gateVars
  <2>11. ASSUME NEW c \in Conns, Register(c) \/ Serve(c) \/ Unregister(c) \/ Socket(c)
         PROVE  \/ Insert(c) \/ Remove(c) \/ Activate(c) \/ Track(c) \/ Untrack(c)
                \/ \E u \in Upstreams, on \in BOOLEAN : OnSetUpstream(c, u, on)
                \/ UNCHANGED <<store, current, tracked, wanted, gate>>
    BY <2>11 DEF Register, Serve, Unregister, Socket, Stall, Resume, Close, Accept, Hello,
       Announce, Arm, ArmSent, OnPing, OnRelay, Respond, PongSent, ReplySent,
       OnRequestActive, SeeClose, BadFrame, Retract, storeVars, gateVars
  <2>12. ASSUME NEW k \in Controls, Command(k)
         PROVE  \/ \E id \in Conns : SwapActive(k, id)
                \/ UNCHANGED <<store, current, tracked, wanted, gate>>
    BY <2>12 DEF Command, SetSpy, ListIds, PushNext, PushSent, PushDone, storeVars, gateVars
  <2>. HIDE DEF Slot!slotVars
  <2>. QED
    BY <2>1, <2>2, <2>3, <2>4, <2>5, <2>6, <2>7, <2>8, <2>9, <2>10, <2>11, <2>12 DEF Next
<1>. QED
  BY <1>1, <1>2, InitInv, Step, PTL DEF Spec, ImplementsSlot, Slot!SlotSpec

=============================================================================
