------------------------ MODULE InputOperations_proof ------------------------
(***************************************************************************)
(* Safety of InputOperations for any number of calls, sessions, controls   *)
(* and faults.                                                             *)
(*                                                                         *)
(* OneSender is not inductive: it says nothing of the lock.  The argument  *)
(* is about who holds clones of the lock's guard: they all belong to one   *)
(* call (OneOwner), and whatever may send input, the request future, the   *)
(* detached task or the release cleanup, holds one (GuardsHeld).           *)
(*                                                                         *)
(* The second part is about the sessions (SessionsInv) and about who will  *)
(* release what is pressed: a guard while the session can be used          *)
(* (ReleaseCovered), a guard or a cleanup on any session (HeldByOperation).*)
(* With the latter the lock refines ExclusiveInput.                        *)
(*                                                                         *)
(* The third part is about where pointer input goes: clicks on elements    *)
(* (ElementInv), buttons that come up (ButtonInv) and pictures of a window *)
(* (CropInv), for any desktop, scale, window and order of changes.         *)
(***************************************************************************)
EXTENDS InputOperations, KwinElements, SequenceTheorems, FiniteSetTheorems, WellFoundedInduction, TLAPS

Holding == {"prepare", "starting", "measuring", "ready", "fallback", "inline"}

OneOwner == \A g, h \in holders : g[1] = h[1]

GuardsHeld ==
    \A c \in Calls :
        /\ pc[c] \in Holding => <<c, "call">> \in holders
        /\ job[c] # "none" /\ pc[c] # "inline" => <<c, "task">> \in holders
        /\ cleanup[c] # "none" => <<c, "cleanup">> \in holders

ArmedWhileGuarded ==
    \A c \in Calls : job[c] \in {"pressing", "releasing"} => armed[c] > 0

IInv == TypeOK /\ OneOwner /\ GuardsHeld /\ ArmedWhileGuarded

(* The server starts with nobody holding the lock and nothing running. *)
LEMMA InitIInv == Init => IInv
  <1> SUFFICES ASSUME Init PROVE IInv
    OBVIOUS
  <1> USE DEF Init
  <1>1. TypeOK
    BY ConstantsAssumption DEF TypeOK, Sending, Finished
  <1>2. OneOwner /\ GuardsHeld /\ ArmedWhileGuarded
    BY DEF OneOwner, GuardsHeld, Holding, ArmedWhileGuarded
  <1> QED
    BY <1>1, <1>2 DEF IInv

(* Removing a waiting call leaves a queue of calls. *)
LEMMA RemovalTyped ==
    ASSUME NEW q \in Seq(Calls), NEW i \in DOMAIN q
    PROVE  SubSeq(q, 1, i - 1) \o SubSeq(q, i + 1, Len(q)) \in Seq(Calls)
  <1>1. i \in 1..Len(q) /\ Len(q) \in Nat
    BY LenProperties
  <1>2. \A j \in 1..Len(q) : q[j] \in Calls
    BY ElementOfSeq
  <1>3. SubSeq(q, 1, i - 1) \in Seq(Calls) /\ SubSeq(q, i + 1, Len(q)) \in Seq(Calls)
    BY <1>1, <1>2, SubSeqProperties
  <1> QED
    BY <1>3, ConcatProperties

(* An event that may have landed leaves a set of controls pressed. *)
LEMMA LandingTyped ==
    ASSUME TypeOK, ArmedWhileGuarded, NEW c \in Calls,
           UNCHANGED held \/ EventLands(c)
    PROVE  held' \in [Sessions \cup {Local} -> SUBSET Keys]
  <1> USE DEF TypeOK
  <1>1. CASE UNCHANGED held
    BY <1>1
  <1>2. CASE EventLands(c)
    <2>1. CASE job[c] = "pressing"
      <3>1. armed[c] \in Keys
        BY <2>1, ConstantsAssumption DEF ArmedWhileGuarded, Keys
      <3> QED
        BY <1>2, <2>1, <3>1 DEF EventLands
    <2>2. CASE job[c] = "releasing"
      BY <1>2, <2>2 DEF EventLands
    <2>3. CASE job[c] \notin {"pressing", "releasing"}
      BY <1>2, <2>3 DEF EventLands
    <2> QED
      BY <2>1, <2>2, <2>3
  <1> QED
    BY <1>1, <1>2

(* The parts of a step that several actions share. *)
LEMMA DropTyped ==
    ASSUME TypeOK, NEW c \in Calls, DropReleaseGuard(c)
    PROVE  /\ armed' \in [Calls -> 0..MaxKeys]
           /\ portalLock' \in Calls \cup {None}
           /\ cleanup' \in [Calls -> {"none", "release", "close"}]
  <1> USE ConstantsAssumption DEF TypeOK, DropReleaseGuard
  <1>1. armed' \in [Calls -> 0..MaxKeys]
    OBVIOUS
  <1>2. portalLock' \in Calls \cup {None}
    OBVIOUS
  <1>3. cleanup' \in [Calls -> {"none", "release", "close"}]
    OBVIOUS
  <1> QED
    BY <1>1, <1>2, <1>3

(* The end of a request keeps the variables it resets within their types. *)
LEMMA ReturnTyped ==
    ASSUME TypeOK, NEW c \in Calls, Return(c)
    PROVE  /\ holders' \subseteq Calls \X {"call", "task", "cleanup"}
           /\ pc' \in [Calls -> {"idle", "queued", "prepare", "starting", "measuring",
                                 "ready", "fallback", "awaiting", "inline"}]
           /\ job' \in [Calls -> {"none", "wait", "check"} \cup Sending \cup Finished]
           /\ left' \in [Calls -> 0..MaxStrokes]
           /\ dev' \in [Calls -> Devices \cup {None}]
           /\ sess' \in [Calls -> Sessions \cup {None}]
  <1> USE ConstantsAssumption DEF TypeOK, Return
  <1>1. holders' \subseteq Calls \X {"call", "task", "cleanup"}
    BY DEF CleanupGuard
  <1>2. pc' \in [Calls -> {"idle", "queued", "prepare", "starting", "measuring",
                          "ready", "fallback", "awaiting", "inline"}]
    OBVIOUS
  <1>3. job' \in [Calls -> {"none", "wait", "check"} \cup Sending \cup Finished]
    OBVIOUS
  <1>4. left' \in [Calls -> 0..MaxStrokes]
    OBVIOUS
  <1>5. dev' \in [Calls -> Devices \cup {None}]
    OBVIOUS
  <1>6. sess' \in [Calls -> Sessions \cup {None}]
    OBVIOUS
  <1> QED
    BY <1>1, <1>2, <1>3, <1>4, <1>5, <1>6

(* Every step keeps the types, given that an event in flight has an armed control. *)
LEMMA TypeStep == IInv /\ [Next]_vars => TypeOK'
  <1> SUFFICES ASSUME IInv, [Next]_vars PROVE TypeOK'
    OBVIOUS
  <1> USE ConstantsAssumption DEF IInv, TypeOK, Keys, Sending, Guarded, Finished
  <1>1. ASSUME NEW c \in Calls, Begin(c) PROVE TypeOK'
    BY <1>1 DEF Begin, lockVars, callVars, jobVars, sessionVars
  <1>2. ASSUME NEW c \in Calls, Acquire(c) PROVE TypeOK'
    BY SMTT(30), <1>2 DEF Acquire, lockVars, callVars, jobVars, sessionVars
  <1>3. ASSUME NEW c \in Calls, Refuse(c) PROVE TypeOK'
    BY <1>3 DEF Refuse, lockVars, callVars, jobVars, sessionVars, Return, CleanupGuard
  <1>4. ASSUME NEW c \in Calls, RefuseAndClear(c) PROVE TypeOK'
    BY <1>4
    DEF RefuseAndClear, lockVars, callVars, jobVars, sessionVars, Return, CleanupGuard,
        ClearSession
  <1>5. ASSUME NEW c \in Calls, RunCommand(c) PROVE TypeOK'
    BY SMTT(30), <1>5 DEF RunCommand, lockVars, callVars, jobVars, sessionVars
  <1>6. ASSUME NEW c \in Calls, RunPixelflux(c) PROVE TypeOK'
    BY <1>6 DEF RunPixelflux, lockVars, callVars, jobVars, sessionVars
  <1>7. ASSUME NEW c \in Calls, NEW d \in Devices, UseCachedSession(c, d) PROVE TypeOK'
    BY <1>7 DEF UseCachedSession, lockVars, callVars, jobVars, sessionVars
  <1>8. ASSUME NEW c \in Calls, NEW d \in Devices, EnsureSession(c, d) PROVE TypeOK'
    BY <1>8 DEF EnsureSession, lockVars, callVars, jobVars, sessionVars
  <1>9. ASSUME NEW c \in Calls, NEW s \in Sessions, StartPointerSession(c, s) PROVE TypeOK'
    BY <1>9 DEF StartPointerSession, NewSession, lockVars, jobVars
  <1>10. ASSUME NEW c \in Calls, NEW s \in Sessions, StartKeyboardSession(c, s) PROVE TypeOK'
    BY <1>10 DEF StartKeyboardSession, NewSession, lockVars, jobVars
  <1>11. ASSUME NEW c \in Calls, CacheSession(c) PROVE TypeOK'
    BY <1>11 DEF CacheSession, lockVars, callVars, jobVars, sessionVars
  <1>12. ASSUME NEW c \in Calls, StartFails(c) PROVE TypeOK'
    BY <1>12
    DEF StartFails, lockVars, callVars, jobVars, sessionVars, Return, CleanupGuard
  <1>13. ASSUME NEW c \in Calls, StartFallsBack(c) PROVE TypeOK'
    BY <1>13 DEF StartFallsBack, lockVars, callVars, jobVars, sessionVars
  <1>14. ASSUME NEW c \in Calls, RunInline(c) PROVE TypeOK'
    BY <1>14 DEF RunInline, lockVars, callVars, jobVars, sessionVars
  <1>15. ASSUME NEW c \in Calls, RunPortalTask(c) PROVE TypeOK'
    BY <1>15 DEF RunPortalTask, lockVars, callVars, jobVars, sessionVars
  <1>16. ASSUME NEW c \in Calls, PasteRefused(c) PROVE TypeOK'
    BY <1>16 DEF PasteRefused, lockVars, callVars, jobVars, sessionVars
  <1>17. ASSUME NEW c \in Calls, TakePortalLock(c) PROVE TypeOK'
    BY <1>17 DEF TakePortalLock, lockVars, callVars, jobVars, sessionVars
  <1>18. ASSUME NEW c \in Calls, Checked(c) PROVE TypeOK'
    BY <1>18 DEF Checked, lockVars, callVars, jobVars, sessionVars
  <1>19. ASSUME NEW c \in Calls, Press(c) PROVE TypeOK'
    BY <1>19 DEF Press, lockVars, callVars, jobVars, sessionVars
  <1>20. ASSUME NEW c \in Calls, PressDone(c) PROVE TypeOK'
    <2>1. armed[c] \in 1..MaxKeys
      BY <1>20 DEF PressDone, ArmedWhileGuarded
    <2>2. held' \in [Sessions \cup {Local} -> SUBSET Keys]
      BY <1>20, <2>1 DEF PressDone
    <2> QED
      BY <1>20, <2>2 DEF PressDone, lockVars, callVars, sessionVars
  <1>21. ASSUME NEW c \in Calls, Release(c) PROVE TypeOK'
    BY <1>21 DEF Release, lockVars, callVars, jobVars, sessionVars
  <1>22. ASSUME NEW c \in Calls, ReleaseDone(c) PROVE TypeOK'
    <2>1. held' \in [Sessions \cup {Local} -> SUBSET (1..MaxKeys)]
      BY <1>22 DEF ReleaseDone
    <2>2. armed[c] \in 1..MaxKeys
      BY <1>22 DEF ReleaseDone, ArmedWhileGuarded
    <2>3. armed' \in [Calls -> 0..MaxKeys]
      BY <1>22, <2>2 DEF ReleaseDone
    <2>4. job' \in [Calls -> {"none", "wait", "check"} \cup Sending \cup Finished]
      BY <1>22 DEF ReleaseDone
    <2> QED
      BY <1>22, <2>1, <2>3, <2>4 DEF ReleaseDone, lockVars, callVars, sessionVars
  <1>23. ASSUME NEW c \in Calls, FinishInline(c) PROVE TypeOK'
    BY <1>23
    DEF FinishInline, lockVars, callVars, jobVars, sessionVars, Return, CleanupGuard,
        DropReleaseGuard
  <1>24. ASSUME NEW c \in Calls, FinishTask(c) PROVE TypeOK'
    BY <1>24 DEF FinishTask, lockVars, callVars, jobVars, sessionVars, DropReleaseGuard
  <1>25. ASSUME NEW c \in Calls, FailInline(c) PROVE TypeOK'
    <2>1. held' \in [Sessions \cup {Local} -> SUBSET Keys]
      BY <1>25, LandingTyped DEF FailInline
    <2>2. DropReleaseGuard(c) /\ Return(c)
      BY <1>25 DEF FailInline
    <2>3. /\ valid' \subseteq Sessions /\ closing' \subseteq Sessions
          /\ cache' \in [Devices -> Sessions \cup {None}]
      BY <1>25 DEF FailInline
    <2> QED
      BY <1>25, <2>1, <2>2, <2>3, DropTyped, ReturnTyped DEF FailInline
  <1>26. ASSUME NEW c \in Calls, FailTask(c) PROVE TypeOK'
    <2>1. held' \in [Sessions \cup {Local} -> SUBSET Keys]
      BY <1>26, LandingTyped DEF FailTask
    <2>2. DropReleaseGuard(c)
      BY <1>26 DEF FailTask
    <2>3. /\ valid' \subseteq Sessions /\ closing' \subseteq Sessions
          /\ left' \in [Calls -> 0..MaxStrokes]
      BY <1>26 DEF FailTask
    <2>4. holders' \subseteq Calls \X {"call", "task", "cleanup"}
      BY <1>26 DEF FailTask, CleanupGuard
    <2>5. job' \in [Calls -> {"none", "wait", "check"} \cup Sending \cup Finished]
      BY <1>26 DEF FailTask
    <2> QED
      BY <1>26, <2>1, <2>2, <2>3, <2>4, <2>5, DropTyped DEF FailTask, callVars
  <1>27. ASSUME NEW c \in Calls, CommandPress(c) PROVE TypeOK'
    BY <1>27 DEF CommandPress, lockVars, callVars, jobVars, sessionVars
  <1>28. ASSUME NEW c \in Calls, CommandDone(c) PROVE TypeOK'
    BY <1>28 DEF CommandDone, lockVars, callVars, jobVars, sessionVars
  <1>29. ASSUME NEW c \in Calls, CommandFails(c) PROVE TypeOK'
    BY <1>29 DEF CommandFails, lockVars, callVars, jobVars, sessionVars
  <1>30. ASSUME NEW c \in Calls, ReceiveOk(c) PROVE TypeOK'
    BY <1>30
    DEF ReceiveOk, lockVars, callVars, jobVars, sessionVars, Return, CleanupGuard
  <1>31. ASSUME NEW c \in Calls, ReceiveError(c) PROVE TypeOK'
    BY <1>31
    DEF ReceiveError, lockVars, callVars, jobVars, sessionVars, Return, CleanupGuard,
        ClearSession
  <1>32. ASSUME NEW c \in Calls, ReceiveRefusal(c) PROVE TypeOK'
    BY <1>32
    DEF ReceiveRefusal, lockVars, callVars, jobVars, sessionVars, Return, CleanupGuard
  <1>33. ASSUME NEW c \in Calls, PasteFallsBack(c) PROVE TypeOK'
    BY <1>33 DEF PasteFallsBack, sessionVars
  <1>34. ASSUME NEW c \in Calls, DropTaskResult(c) PROVE TypeOK'
    BY <1>34
    DEF DropTaskResult, lockVars, callVars, jobVars, sessionVars, Return, CleanupGuard
  <1>35. ASSUME NEW c \in Calls, CancelQueued(c) PROVE TypeOK'
    <2>1. PICK i \in DOMAIN queue :
              queue' = SubSeq(queue, 1, i - 1) \o SubSeq(queue, i + 1, Len(queue))
      BY <1>35 DEF CancelQueued
    <2>2. queue' \in Seq(Calls)
      BY <2>1, RemovalTyped
    <2> QED
      BY <1>35, <2>2 DEF CancelQueued, jobVars, sessionVars
  <1>36. ASSUME NEW c \in Calls, CancelPreparing(c) PROVE TypeOK'
    BY <1>36
    DEF CancelPreparing, lockVars, callVars, jobVars, sessionVars, Return, CleanupGuard
  <1>37. ASSUME NEW c \in Calls, CancelAwaiting(c) PROVE TypeOK'
    BY <1>37 DEF CancelAwaiting, lockVars, callVars, jobVars, sessionVars
  <1>38. ASSUME NEW c \in Calls, CancelInline(c) PROVE TypeOK'
    <2>1. held' \in [Sessions \cup {Local} -> SUBSET Keys]
      BY <1>38, LandingTyped DEF CancelInline
    <2>2. DropReleaseGuard(c) /\ Return(c)
      BY <1>38 DEF CancelInline
    <2> QED
      BY <1>38, <2>1, <2>2, DropTyped, ReturnTyped DEF CancelInline
  <1>39. ASSUME NEW c \in Calls, CleanupRelease(c) PROVE TypeOK'
    BY <1>39 DEF CleanupRelease, lockVars, callVars, jobVars, sessionVars
  <1>40. ASSUME NEW c \in Calls, CleanupClose(c) PROVE TypeOK'
    BY <1>40 DEF CleanupClose, lockVars, callVars, jobVars, sessionVars
  <1>41. ASSUME NEW s \in Sessions, CloseSession(s) PROVE TypeOK'
    BY <1>41 DEF CloseSession, lockVars, callVars, jobVars, sessionVars
  <1>42. ASSUME NEW s \in Sessions, Disconnect(s) PROVE TypeOK'
    BY <1>42 DEF Disconnect, lockVars, callVars, jobVars, sessionVars
  <1>43. ASSUME NEW s \in Sessions, Revoke(s) PROVE TypeOK'
    BY <1>43 DEF Revoke, lockVars, callVars, jobVars, sessionVars
  <1>44. CASE UNCHANGED vars
    BY <1>44 DEF vars, lockVars, callVars, jobVars, sessionVars
  <1> QED
    BY <1>1, <1>2, <1>3, <1>4, <1>5, <1>6, <1>7, <1>8, <1>9, <1>10, <1>11, <1>12,
       <1>13, <1>14, <1>15, <1>16, <1>17, <1>18, <1>19, <1>20, <1>21, <1>22, <1>23,
       <1>24, <1>25, <1>26, <1>27, <1>28, <1>29, <1>30, <1>31, <1>32, <1>33, <1>34,
       <1>35, <1>36, <1>37, <1>38, <1>39, <1>40, <1>41, <1>42, <1>43, <1>44
    DEF Next, Progress, Prepare, PortalInput, CommandInput, Receive, Cancel, Cleanup

(* While some activity of c holds the lock, every other call is at rest or waiting. *)
Owns(c) == \E h \in holders : h[1] = c

AtRest(x) == pc[x] \notin Holding /\ job[x] = "none" /\ cleanup[x] = "none"

LEMMA OthersAtRest ==
    ASSUME OneOwner, GuardsHeld, NEW c \in Calls, Owns(c), NEW x \in Calls, x # c
    PROVE  AtRest(x)
  <1>1. PICK h \in holders : h[1] = c
    BY DEF Owns
  <1>2. \A r : <<x, r>> \notin holders
    <2> SUFFICES ASSUME NEW r, <<x, r>> \in holders PROVE FALSE
      OBVIOUS
    <2>1. <<x, r>>[1] = h[1]
      BY <1>1 DEF OneOwner
    <2> QED
      BY <1>1, <2>1
  <1> QED
    BY <1>2 DEF GuardsHeld, AtRest, Holding

(* A step of the owner c that leaves the other calls alone keeps the lock's clones
   in one hand, provided c's own activities still hold theirs. *)
LEMMA OwnerStep ==
    ASSUME OneOwner, GuardsHeld, NEW c \in Calls, Owns(c),
           \A h \in holders' : h \in holders \/ h[1] = c,
           \A x \in Calls \ {c} : /\ pc'[x] = pc[x] /\ job'[x] = job[x]
                                  /\ cleanup'[x] = cleanup[x],
           /\ pc'[c] \in Holding => <<c, "call">> \in holders'
           /\ job'[c] # "none" /\ pc'[c] # "inline" => <<c, "task">> \in holders'
           /\ cleanup'[c] # "none" => <<c, "cleanup">> \in holders'
    PROVE  OneOwner' /\ GuardsHeld'
  <1>1. \A h \in holders : h[1] = c
    BY DEF OneOwner, Owns
  <1>2. OneOwner'
    BY <1>1 DEF OneOwner
  <1>3. ASSUME NEW x \in Calls, x # c
        PROVE  pc'[x] \notin Holding /\ job'[x] = "none" /\ cleanup'[x] = "none"
    BY <1>3, OthersAtRest DEF AtRest
  <1>4. GuardsHeld'
    BY <1>3 DEF GuardsHeld
  <1> QED
    BY <1>2, <1>4

(* The owner's request ends. *)
LEMMA OwnerReturns ==
    ASSUME IInv, NEW c \in Calls, Owns(c), Return(c),
           UNCHANGED <<armed, cleanup>> \/ DropReleaseGuard(c)
    PROVE  (OneOwner /\ GuardsHeld /\ ArmedWhileGuarded)'
  <1> USE DEF IInv
  <1>1. \A h \in holders' : h \in holders \/ h[1] = c
    BY DEF Return, CleanupGuard
  <1>2. \A x \in Calls \ {c} : /\ pc'[x] = pc[x] /\ job'[x] = job[x]
                               /\ cleanup'[x] = cleanup[x] /\ armed'[x] = armed[x]
    BY DEF TypeOK, Return, DropReleaseGuard
  <1>3. pc'[c] = "idle" /\ job'[c] = "none"
    BY DEF TypeOK, Return
  <1>4. cleanup'[c] # "none" => <<c, "cleanup">> \in holders'
    <2>1. cleanup[c] # "none" => <<c, "cleanup">> \in holders
      BY DEF GuardsHeld
    <2>2. cleanup'[c] = cleanup[c] \/ armed[c] # 0
      BY DEF TypeOK, DropReleaseGuard
    <2> QED
      BY <2>1, <2>2 DEF Return, CleanupGuard
  <1>5. OneOwner' /\ GuardsHeld'
    BY <1>1, <1>2, <1>3, <1>4, OwnerStep DEF Holding
  <1>6. ArmedWhileGuarded'
    BY <1>2, <1>3 DEF ArmedWhileGuarded
  <1> QED
    BY <1>5, <1>6

(* Who may be the owner. *)
LEMMA OwnsWhenActive ==
    ASSUME GuardsHeld, NEW c \in Calls,
           pc[c] \in Holding \/ job[c] # "none" \/ cleanup[c] # "none"
    PROVE  Owns(c)
  <1>1. \E r \in {"call", "task", "cleanup"} : <<c, r>> \in holders
    BY DEF GuardsHeld, Holding
  <1> QED
    BY <1>1 DEF Owns

(* Every step keeps the clones of the lock with one call, and one clone with each
   activity that may send: the lock is taken only when nobody holds a clone, and any
   other step is a step of the owner. *)
LEMMA GuardStep == IInv /\ [Next]_vars => (OneOwner /\ GuardsHeld /\ ArmedWhileGuarded)'
  <1> DEFINE Inv == OneOwner /\ GuardsHeld /\ ArmedWhileGuarded
  <1> SUFFICES ASSUME IInv, [Next]_vars PROVE Inv'
    OBVIOUS
  <1> USE DEF IInv
  <1>1. ASSUME NEW c \in Calls, Begin(c) PROVE Inv'
    BY <1>1
    DEF OneOwner, GuardsHeld, ArmedWhileGuarded, TypeOK, Holding, Begin, lockVars,
        callVars, jobVars
  <1>2. ASSUME NEW c \in Calls, Acquire(c) PROVE Inv'
    BY <1>2
    DEF OneOwner, GuardsHeld, ArmedWhileGuarded, TypeOK, Holding, Acquire, lockVars,
        callVars, jobVars
  <1>3. ASSUME NEW c \in Calls, Refuse(c) PROVE Inv'
    <2>1. Owns(c)
      BY <1>3, OwnsWhenActive DEF Refuse, Holding, Guarded, Finished
    <2> QED
      BY <1>3, <2>1, OwnerReturns DEF Refuse
  <1>4. ASSUME NEW c \in Calls, RefuseAndClear(c) PROVE Inv'
    <2>1. Owns(c)
      BY <1>4, OwnsWhenActive DEF RefuseAndClear, Holding, Guarded, Finished
    <2> QED
      BY <1>4, <2>1, OwnerReturns DEF RefuseAndClear
  <1>5. ASSUME NEW c \in Calls, RunCommand(c) PROVE Inv'
    <2>1. Owns(c)
      BY <1>5, OwnsWhenActive DEF RunCommand, Holding, Guarded
    <2>2. \A h \in holders' : h \in holders \/ h[1] = c
      BY <1>5 DEF RunCommand
    <2>3. \A x \in Calls \ {c} : /\ pc'[x] = pc[x] /\ job'[x] = job[x]
                                 /\ cleanup'[x] = cleanup[x] /\ armed'[x] = armed[x]
      BY <1>5 DEF TypeOK, RunCommand, callVars, jobVars
    <2>4. /\ pc'[c] \in Holding => <<c, "call">> \in holders'
          /\ job'[c] # "none" /\ pc'[c] # "inline" => <<c, "task">> \in holders'
          /\ cleanup'[c] # "none" => <<c, "cleanup">> \in holders'
      BY <1>5 DEF TypeOK, GuardsHeld, RunCommand, callVars, jobVars, Holding
    <2>5. OneOwner' /\ GuardsHeld'
      BY <2>1, <2>2, <2>3, <2>4, OwnerStep
    <2>6. ArmedWhileGuarded'
      BY <1>5, <2>3 DEF TypeOK, ArmedWhileGuarded, RunCommand, jobVars
    <2> QED
      BY <2>5, <2>6
  <1>6. ASSUME NEW c \in Calls, RunPixelflux(c) PROVE Inv'
    <2>1. Owns(c)
      BY <1>6, OwnsWhenActive DEF RunPixelflux, Holding, Guarded
    <2>2. \A h \in holders' : h \in holders \/ h[1] = c
      BY <1>6 DEF RunPixelflux
    <2>3. \A x \in Calls \ {c} : /\ pc'[x] = pc[x] /\ job'[x] = job[x]
                                 /\ cleanup'[x] = cleanup[x] /\ armed'[x] = armed[x]
      BY <1>6 DEF TypeOK, RunPixelflux, callVars, jobVars
    <2>4. /\ pc'[c] \in Holding => <<c, "call">> \in holders'
          /\ job'[c] # "none" /\ pc'[c] # "inline" => <<c, "task">> \in holders'
          /\ cleanup'[c] # "none" => <<c, "cleanup">> \in holders'
      BY <1>6 DEF TypeOK, GuardsHeld, RunPixelflux, callVars, jobVars, Holding
    <2>5. OneOwner' /\ GuardsHeld'
      BY <2>1, <2>2, <2>3, <2>4, OwnerStep
    <2>6. ArmedWhileGuarded'
      BY <1>6, <2>3 DEF TypeOK, ArmedWhileGuarded, RunPixelflux, jobVars
    <2> QED
      BY <2>5, <2>6
  <1>7. ASSUME NEW c \in Calls, NEW d \in Devices, UseCachedSession(c, d) PROVE Inv'
    BY <1>7
    DEF OneOwner, GuardsHeld, ArmedWhileGuarded, TypeOK, Holding, UseCachedSession,
        lockVars, callVars, jobVars
  <1>8. ASSUME NEW c \in Calls, NEW d \in Devices, EnsureSession(c, d) PROVE Inv'
    BY <1>8
    DEF OneOwner, GuardsHeld, ArmedWhileGuarded, TypeOK, Holding, EnsureSession,
        lockVars, callVars, jobVars
  <1>9. ASSUME NEW c \in Calls, NEW s \in Sessions, StartPointerSession(c, s) PROVE Inv'
    BY <1>9
    DEF OneOwner, GuardsHeld, ArmedWhileGuarded, TypeOK, Holding, StartPointerSession,
        lockVars, callVars, jobVars, NewSession
  <1>10. ASSUME NEW c \in Calls, NEW s \in Sessions, StartKeyboardSession(c, s) PROVE Inv'
    BY <1>10
    DEF OneOwner, GuardsHeld, ArmedWhileGuarded, TypeOK, Holding, StartKeyboardSession,
        lockVars, callVars, jobVars, NewSession
  <1>11. ASSUME NEW c \in Calls, CacheSession(c) PROVE Inv'
    BY <1>11
    DEF OneOwner, GuardsHeld, ArmedWhileGuarded, TypeOK, Holding, CacheSession,
        lockVars, callVars, jobVars
  <1>12. ASSUME NEW c \in Calls, StartFails(c) PROVE Inv'
    <2>1. Owns(c)
      BY <1>12, OwnsWhenActive DEF StartFails, Holding, Guarded, Finished
    <2> QED
      BY <1>12, <2>1, OwnerReturns DEF StartFails
  <1>13. ASSUME NEW c \in Calls, StartFallsBack(c) PROVE Inv'
    BY <1>13
    DEF OneOwner, GuardsHeld, ArmedWhileGuarded, TypeOK, Holding, StartFallsBack,
        lockVars, callVars, jobVars
  <1>14. ASSUME NEW c \in Calls, RunInline(c) PROVE Inv'
    BY <1>14
    DEF OneOwner, GuardsHeld, ArmedWhileGuarded, TypeOK, Holding, RunInline, lockVars,
        callVars, jobVars
  <1>15. ASSUME NEW c \in Calls, RunPortalTask(c) PROVE Inv'
    <2>1. Owns(c)
      BY <1>15, OwnsWhenActive DEF RunPortalTask, Holding, Guarded
    <2>2. \A h \in holders' : h \in holders \/ h[1] = c
      BY <1>15 DEF RunPortalTask
    <2>3. \A x \in Calls \ {c} : /\ pc'[x] = pc[x] /\ job'[x] = job[x]
                                 /\ cleanup'[x] = cleanup[x] /\ armed'[x] = armed[x]
      BY <1>15 DEF TypeOK, RunPortalTask, callVars, jobVars
    <2>4. /\ pc'[c] \in Holding => <<c, "call">> \in holders'
          /\ job'[c] # "none" /\ pc'[c] # "inline" => <<c, "task">> \in holders'
          /\ cleanup'[c] # "none" => <<c, "cleanup">> \in holders'
      BY <1>15 DEF TypeOK, GuardsHeld, RunPortalTask, callVars, jobVars, Holding
    <2>5. OneOwner' /\ GuardsHeld'
      BY <2>1, <2>2, <2>3, <2>4, OwnerStep
    <2>6. ArmedWhileGuarded'
      BY <1>15, <2>3 DEF TypeOK, ArmedWhileGuarded, RunPortalTask, jobVars
    <2> QED
      BY <2>5, <2>6
  <1>16. ASSUME NEW c \in Calls, PasteRefused(c) PROVE Inv'
    BY <1>16
    DEF OneOwner, GuardsHeld, ArmedWhileGuarded, TypeOK, Holding, PasteRefused,
        lockVars, callVars, jobVars
  <1>17. ASSUME NEW c \in Calls, TakePortalLock(c) PROVE Inv'
    BY <1>17
    DEF OneOwner, GuardsHeld, ArmedWhileGuarded, TypeOK, Holding, TakePortalLock,
        lockVars, callVars, jobVars
  <1>18. ASSUME NEW c \in Calls, Checked(c) PROVE Inv'
    BY <1>18
    DEF OneOwner, GuardsHeld, ArmedWhileGuarded, TypeOK, Holding, Checked, lockVars,
        callVars, jobVars
  <1>19. ASSUME NEW c \in Calls, Press(c) PROVE Inv'
    BY <1>19
    DEF OneOwner, GuardsHeld, ArmedWhileGuarded, TypeOK, Holding, Press, lockVars,
        callVars, jobVars
  <1>20. ASSUME NEW c \in Calls, PressDone(c) PROVE Inv'
    BY <1>20
    DEF OneOwner, GuardsHeld, ArmedWhileGuarded, TypeOK, Holding, PressDone, lockVars,
        callVars, jobVars
  <1>21. ASSUME NEW c \in Calls, Release(c) PROVE Inv'
    BY <1>21
    DEF OneOwner, GuardsHeld, ArmedWhileGuarded, TypeOK, Holding, Release, lockVars,
        callVars, jobVars
  <1>22. ASSUME NEW c \in Calls, ReleaseDone(c) PROVE Inv'
    BY <1>22
    DEF OneOwner, GuardsHeld, ArmedWhileGuarded, TypeOK, Holding, ReleaseDone,
        lockVars, callVars, jobVars
  <1>23. ASSUME NEW c \in Calls, FinishInline(c) PROVE Inv'
    <2>1. Owns(c)
      BY <1>23, OwnsWhenActive DEF FinishInline, Holding, Guarded, Finished
    <2> QED
      BY <1>23, <2>1, OwnerReturns DEF FinishInline
  <1>24. ASSUME NEW c \in Calls, FinishTask(c) PROVE Inv'
    BY <1>24
    DEF OneOwner, GuardsHeld, ArmedWhileGuarded, TypeOK, Holding, FinishTask, lockVars,
        callVars, jobVars, DropReleaseGuard
  <1>25. ASSUME NEW c \in Calls, FailInline(c) PROVE Inv'
    <2>1. Owns(c)
      BY <1>25, OwnsWhenActive DEF FailInline, Holding, Guarded, Finished
    <2> QED
      BY <1>25, <2>1, OwnerReturns DEF FailInline
  <1>26. ASSUME NEW c \in Calls, FailTask(c) PROVE Inv'
    <2>1. Owns(c)
      BY <1>26, OwnsWhenActive DEF FailTask, Holding, Guarded
    <2>2. \A h \in holders' : h \in holders \/ h[1] = c
      BY <1>26 DEF FailTask, CleanupGuard, Detached, Guarded
    <2>3. \A x \in Calls \ {c} : /\ pc'[x] = pc[x] /\ job'[x] = job[x]
                                 /\ cleanup'[x] = cleanup[x] /\ armed'[x] = armed[x]
      BY <1>26 DEF TypeOK, FailTask, callVars, jobVars, DropReleaseGuard
    <2>4. /\ pc'[c] \in Holding => <<c, "call">> \in holders'
          /\ job'[c] # "none" /\ pc'[c] # "inline" => <<c, "task">> \in holders'
          /\ cleanup'[c] # "none" => <<c, "cleanup">> \in holders'
      BY <1>26
      DEF TypeOK, GuardsHeld, FailTask, callVars, jobVars, Holding, CleanupGuard,
          Detached, Guarded, DropReleaseGuard
    <2>5. OneOwner' /\ GuardsHeld'
      BY <2>1, <2>2, <2>3, <2>4, OwnerStep
    <2>6. ArmedWhileGuarded'
      BY <1>26, <2>3 DEF TypeOK, ArmedWhileGuarded, FailTask, jobVars
    <2> QED
      BY <2>5, <2>6
  <1>27. ASSUME NEW c \in Calls, CommandPress(c) PROVE Inv'
    BY <1>27
    DEF OneOwner, GuardsHeld, ArmedWhileGuarded, TypeOK, Holding, CommandPress,
        lockVars, callVars, jobVars
  <1>28. ASSUME NEW c \in Calls, CommandDone(c) PROVE Inv'
    BY <1>28
    DEF OneOwner, GuardsHeld, ArmedWhileGuarded, TypeOK, Holding, CommandDone,
        lockVars, callVars, jobVars
  <1>29. ASSUME NEW c \in Calls, CommandFails(c) PROVE Inv'
    BY <1>29
    DEF OneOwner, GuardsHeld, ArmedWhileGuarded, TypeOK, Holding, CommandFails,
        lockVars, callVars, jobVars
  <1>30. ASSUME NEW c \in Calls, ReceiveOk(c) PROVE Inv'
    <2>1. Owns(c)
      BY <1>30, OwnsWhenActive DEF ReceiveOk, Holding, Guarded, Finished
    <2> QED
      BY <1>30, <2>1, OwnerReturns DEF ReceiveOk
  <1>31. ASSUME NEW c \in Calls, ReceiveError(c) PROVE Inv'
    <2>1. Owns(c)
      BY <1>31, OwnsWhenActive DEF ReceiveError, Holding, Guarded, Finished
    <2> QED
      BY <1>31, <2>1, OwnerReturns DEF ReceiveError
  <1>32. ASSUME NEW c \in Calls, ReceiveRefusal(c) PROVE Inv'
    <2>1. Owns(c)
      BY <1>32, OwnsWhenActive DEF ReceiveRefusal, Holding, Guarded, Finished
    <2> QED
      BY <1>32, <2>1, OwnerReturns DEF ReceiveRefusal
  <1>33. ASSUME NEW c \in Calls, PasteFallsBack(c) PROVE Inv'
    <2>1. Owns(c)
      BY <1>33, OwnsWhenActive DEF PasteFallsBack, Holding, Guarded
    <2>2. \A h \in holders' : h \in holders \/ h[1] = c
      BY <1>33 DEF PasteFallsBack
    <2>3. \A x \in Calls \ {c} : /\ pc'[x] = pc[x] /\ job'[x] = job[x]
                                 /\ cleanup'[x] = cleanup[x] /\ armed'[x] = armed[x]
      BY <1>33 DEF TypeOK, PasteFallsBack, callVars, jobVars
    <2>4. /\ pc'[c] \in Holding => <<c, "call">> \in holders'
          /\ job'[c] # "none" /\ pc'[c] # "inline" => <<c, "task">> \in holders'
          /\ cleanup'[c] # "none" => <<c, "cleanup">> \in holders'
      BY <1>33 DEF TypeOK, GuardsHeld, PasteFallsBack, callVars, jobVars, Holding
    <2>5. OneOwner' /\ GuardsHeld'
      BY <2>1, <2>2, <2>3, <2>4, OwnerStep
    <2>6. ArmedWhileGuarded'
      BY <1>33, <2>3 DEF TypeOK, ArmedWhileGuarded, PasteFallsBack, jobVars
    <2> QED
      BY <2>5, <2>6
  <1>34. ASSUME NEW c \in Calls, DropTaskResult(c) PROVE Inv'
    <2>1. Owns(c)
      BY <1>34, OwnsWhenActive DEF DropTaskResult, Holding, Guarded, Finished
    <2> QED
      BY <1>34, <2>1, OwnerReturns DEF DropTaskResult
  <1>35. ASSUME NEW c \in Calls, CancelQueued(c) PROVE Inv'
    <2>1. /\ pc' = [pc EXCEPT ![c] = "idle"] /\ pc[c] = "queued"
          /\ UNCHANGED <<holders, job, armed, cleanup>>
      BY <1>35 DEF CancelQueued, jobVars
    <2>2. OneOwner' /\ ArmedWhileGuarded'
      BY <2>1 DEF OneOwner, ArmedWhileGuarded
    <2>3. GuardsHeld'
      BY <2>1 DEF GuardsHeld, TypeOK, Holding
    <2> QED
      BY <2>2, <2>3
  <1>36. ASSUME NEW c \in Calls, CancelPreparing(c) PROVE Inv'
    <2>1. Owns(c)
      BY <1>36, OwnsWhenActive DEF CancelPreparing, Holding, Guarded, Finished
    <2> QED
      BY <1>36, <2>1, OwnerReturns DEF CancelPreparing
  <1>37. ASSUME NEW c \in Calls, CancelAwaiting(c) PROVE Inv'
    <2>1. /\ pc' = [pc EXCEPT ![c] = "idle"] /\ pc[c] = "awaiting"
          /\ holders' = holders \ {<<c, "call">>} /\ UNCHANGED <<job, armed, cleanup>>
      BY <1>37 DEF CancelAwaiting, jobVars
    <2>2. OneOwner'
      BY <2>1 DEF OneOwner
    <2>3. ASSUME NEW x \in Calls
          PROVE  /\ pc'[x] \in Holding => <<x, "call">> \in holders'
                 /\ job'[x] # "none" /\ pc'[x] # "inline" => <<x, "task">> \in holders'
                 /\ cleanup'[x] # "none" => <<x, "cleanup">> \in holders'
      <3>1. CASE x = c
        BY <2>1, <3>1 DEF GuardsHeld, TypeOK, Holding
      <3>2. CASE x # c
        BY <2>1, <3>2 DEF GuardsHeld, TypeOK
      <3> QED
        BY <3>1, <3>2
    <2>4. ArmedWhileGuarded'
      BY <2>1 DEF ArmedWhileGuarded
    <2> QED
      BY <2>2, <2>3, <2>4 DEF GuardsHeld
  <1>38. ASSUME NEW c \in Calls, CancelInline(c) PROVE Inv'
    <2>1. Owns(c)
      BY <1>38, OwnsWhenActive DEF CancelInline, Holding, Guarded, Finished
    <2> QED
      BY <1>38, <2>1, OwnerReturns DEF CancelInline
  <1>39. ASSUME NEW c \in Calls, CleanupRelease(c) PROVE Inv'
    BY <1>39
    DEF OneOwner, GuardsHeld, ArmedWhileGuarded, TypeOK, Holding, CleanupRelease,
        lockVars, callVars, jobVars
  <1>40. ASSUME NEW c \in Calls, CleanupClose(c) PROVE Inv'
    BY <1>40
    DEF OneOwner, GuardsHeld, ArmedWhileGuarded, TypeOK, Holding, CleanupClose,
        lockVars, callVars, jobVars
  <1>41. ASSUME NEW s \in Sessions, CloseSession(s) PROVE Inv'
    BY <1>41
    DEF OneOwner, GuardsHeld, ArmedWhileGuarded, TypeOK, Holding, CloseSession,
        lockVars, callVars, jobVars
  <1>42. ASSUME NEW s \in Sessions, Disconnect(s) PROVE Inv'
    BY <1>42
    DEF OneOwner, GuardsHeld, ArmedWhileGuarded, TypeOK, Holding, Disconnect, lockVars,
        callVars, jobVars
  <1>43. ASSUME NEW s \in Sessions, Revoke(s) PROVE Inv'
    BY <1>43
    DEF OneOwner, GuardsHeld, ArmedWhileGuarded, TypeOK, Holding, Revoke, lockVars,
        callVars, jobVars
  <1>44. CASE UNCHANGED vars
    BY <1>44
    DEF OneOwner, GuardsHeld, ArmedWhileGuarded, TypeOK, Holding, vars, lockVars,
        callVars, jobVars
  <1> QED
    BY <1>1, <1>2, <1>3, <1>4, <1>5, <1>6, <1>7, <1>8, <1>9, <1>10, <1>11,
       <1>12, <1>13, <1>14, <1>15, <1>16, <1>17, <1>18, <1>19, <1>20, <1>21, <1>22,
       <1>23, <1>24, <1>25, <1>26, <1>27, <1>28, <1>29, <1>30, <1>31, <1>32, <1>33,
       <1>34, <1>35, <1>36, <1>37, <1>38, <1>39, <1>40, <1>41, <1>42, <1>43, <1>44
    DEF Next, Progress, Prepare, PortalInput, CommandInput, Receive, Cancel, Cleanup

(* The clones of the input lock always belong to one call, and each activity of a call
   that may send input holds one. *)
THEOREM Invariance == Spec => []IInv
  <1>1. IInv /\ [Next]_vars => IInv'
    BY TypeStep, GuardStep DEF IInv
  <1> QED
    BY InitIInv, <1>1, PTL DEF Spec

(* Every variable keeps to its declared values, for every bound. *)
THEOREM TypeCorrect == Spec => []TypeOK
  <1>1. IInv => TypeOK
    BY DEF IInv
  <1> QED
    BY Invariance, <1>1, PTL

(* No two tool calls can ever send input at the same time, however requests are
   cancelled and whatever fails. *)
THEOREM InputIsExclusive == Spec => []OneSender
  <1>1. IInv => OneSender
    <2> SUFFICES ASSUME IInv, NEW c1 \in Calls, NEW c2 \in Calls,
                        Sends(c1), Sends(c2), c1 # c2
                 PROVE  FALSE
      BY DEF OneSender
    <2>1. Owns(c1)
      BY OwnsWhenActive DEF IInv, Sends, Sending
    <2>2. AtRest(c2)
      BY <2>1, OthersAtRest DEF IInv
    <2> QED
      BY <2>2 DEF AtRest, Sends, Sending
  <1> QED
    BY Invariance, <1>1, PTL

-----------------------------------------------------------------------------
(* The sessions.  What a guard may have pressed, on which session, and who is about to
   close that session: relations between the stages of a call, its session and the
   controls that are down. *)

\* The request is queued or chooses its route: it has no input future.
Preparing == {"queued", "prepare", "starting", "measuring", "ready", "fallback"}

\* Only a running input future has a guard with controls on its list.
ArmedIsGuarded == \A c \in Calls : armed[c] > 0 => job[c] \in Guarded

\* A call that prepares runs nothing, and a cleanup follows a future that has ended.
StagesAgree ==
    \A c \in Calls :
        /\ pc[c] \in Preparing => job[c] = "none" /\ cleanup[c] = "none"
        /\ cleanup[c] # "none" => job[c] \in {"none", "err"}

Stages == ArmedIsGuarded /\ StagesAgree

(* Every step keeps the stages of a call in this order. *)
LEMMA StageStep == IInv /\ Stages /\ [Next]_vars => Stages'
  <1> SUFFICES ASSUME IInv, Stages, [Next]_vars PROVE Stages'
    OBVIOUS
  <1> USE DEF IInv
  <1>1. ASSUME NEW c \in Calls, Begin(c) PROVE Stages'
    BY <1>1
    DEF Begin, jobVars, sessionVars, Stages, ArmedIsGuarded, StagesAgree, Preparing,
        TypeOK, Guarded, ArmedWhileGuarded
  <1>2. ASSUME NEW c \in Calls, Acquire(c) PROVE Stages'
    BY <1>2
    DEF Acquire, jobVars, sessionVars, Stages, ArmedIsGuarded, StagesAgree, Preparing,
        TypeOK, Guarded, ArmedWhileGuarded
  <1>3. ASSUME NEW c \in Calls, Refuse(c) PROVE Stages'
    BY <1>3
    DEF Refuse, Return, sessionVars, Stages, ArmedIsGuarded, StagesAgree, Preparing,
        TypeOK, Guarded, ArmedWhileGuarded
  <1>4. ASSUME NEW c \in Calls, RefuseAndClear(c) PROVE Stages'
    BY <1>4
    DEF RefuseAndClear, Return, ClearSession, Stages, ArmedIsGuarded, StagesAgree,
        Preparing, TypeOK, Guarded, ArmedWhileGuarded
  <1>5. ASSUME NEW c \in Calls, RunCommand(c) PROVE Stages'
    BY <1>5
    DEF RunCommand, sessionVars, Stages, ArmedIsGuarded, StagesAgree, Preparing, TypeOK,
        Guarded, ArmedWhileGuarded
  <1>6. ASSUME NEW c \in Calls, RunPixelflux(c) PROVE Stages'
    BY <1>6
    DEF RunPixelflux, sessionVars, Stages, ArmedIsGuarded, StagesAgree, Preparing, TypeOK,
        Guarded, ArmedWhileGuarded
  <1>7. ASSUME NEW c \in Calls, NEW d \in Devices, UseCachedSession(c, d) PROVE Stages'
    BY <1>7
    DEF UseCachedSession, lockVars, jobVars, sessionVars, Stages, ArmedIsGuarded,
        StagesAgree, Preparing, TypeOK, Guarded, ArmedWhileGuarded
  <1>8. ASSUME NEW c \in Calls, NEW d \in Devices, EnsureSession(c, d) PROVE Stages'
    BY <1>8
    DEF EnsureSession, InitLockHeld, lockVars, jobVars, Stages, ArmedIsGuarded,
        StagesAgree, Preparing, TypeOK, Guarded, ArmedWhileGuarded
  <1>9. ASSUME NEW c \in Calls, NEW s \in Sessions, StartPointerSession(c, s) PROVE Stages'
    BY <1>9
    DEF StartPointerSession, NewSession, Unreferenced, lockVars, jobVars, Stages,
        ArmedIsGuarded, StagesAgree, Preparing, TypeOK, Guarded, ArmedWhileGuarded
  <1>10. ASSUME NEW c \in Calls, NEW s \in Sessions, StartKeyboardSession(c, s)
        PROVE  Stages'
    BY <1>10
    DEF StartKeyboardSession, NewSession, Unreferenced, lockVars, jobVars, Stages,
        ArmedIsGuarded, StagesAgree, Preparing, TypeOK, Guarded, ArmedWhileGuarded
  <1>11. ASSUME NEW c \in Calls, CacheSession(c) PROVE Stages'
    BY <1>11
    DEF CacheSession, lockVars, jobVars, Stages, ArmedIsGuarded, StagesAgree, Preparing,
        TypeOK, Guarded, ArmedWhileGuarded
  <1>12. ASSUME NEW c \in Calls, StartFails(c) PROVE Stages'
    BY <1>12
    DEF StartFails, Return, sessionVars, Stages, ArmedIsGuarded, StagesAgree, Preparing,
        TypeOK, Guarded, ArmedWhileGuarded
  <1>13. ASSUME NEW c \in Calls, StartFallsBack(c) PROVE Stages'
    BY <1>13
    DEF StartFallsBack, lockVars, jobVars, sessionVars, Stages, ArmedIsGuarded,
        StagesAgree, Preparing, TypeOK, Guarded, ArmedWhileGuarded
  <1>14. ASSUME NEW c \in Calls, RunInline(c) PROVE Stages'
    BY <1>14
    DEF RunInline, lockVars, sessionVars, Stages, ArmedIsGuarded, StagesAgree, Preparing,
        TypeOK, Guarded, ArmedWhileGuarded
  <1>15. ASSUME NEW c \in Calls, RunPortalTask(c) PROVE Stages'
    BY <1>15
    DEF RunPortalTask, sessionVars, Stages, ArmedIsGuarded, StagesAgree, Preparing,
        TypeOK, Guarded, ArmedWhileGuarded
  <1>16. ASSUME NEW c \in Calls, PasteRefused(c) PROVE Stages'
    BY <1>16
    DEF PasteRefused, Detached, lockVars, callVars, sessionVars, Stages, ArmedIsGuarded,
        StagesAgree, Preparing, TypeOK, Guarded, ArmedWhileGuarded
  <1>17. ASSUME NEW c \in Calls, TakePortalLock(c) PROVE Stages'
    BY <1>17
    DEF TakePortalLock, callVars, sessionVars, Stages, ArmedIsGuarded, StagesAgree,
        Preparing, TypeOK, Guarded, ArmedWhileGuarded
  <1>18. ASSUME NEW c \in Calls, Checked(c) PROVE Stages'
    BY <1>18
    DEF Checked, lockVars, callVars, sessionVars, Stages, ArmedIsGuarded, StagesAgree,
        Preparing, TypeOK, Guarded, ArmedWhileGuarded
  <1>19. ASSUME NEW c \in Calls, Press(c) PROVE Stages'
    BY <1>19
    DEF Press, lockVars, callVars, sessionVars, Stages, ArmedIsGuarded, StagesAgree,
        Preparing, TypeOK, Guarded, ArmedWhileGuarded
  <1>20. ASSUME NEW c \in Calls, PressDone(c) PROVE Stages'
    BY <1>20
    DEF PressDone, lockVars, callVars, sessionVars, Stages, ArmedIsGuarded, StagesAgree,
        Preparing, TypeOK, Guarded, ArmedWhileGuarded
  <1>21. ASSUME NEW c \in Calls, Release(c) PROVE Stages'
    BY <1>21
    DEF Release, lockVars, callVars, sessionVars, Stages, ArmedIsGuarded, StagesAgree,
        Preparing, TypeOK, Guarded, ArmedWhileGuarded
  <1>22. ASSUME NEW c \in Calls, ReleaseDone(c) PROVE Stages'
    BY <1>22
    DEF ReleaseDone, lockVars, callVars, sessionVars, Stages, ArmedIsGuarded, StagesAgree,
        Preparing, TypeOK, Guarded, ArmedWhileGuarded
  <1>23. ASSUME NEW c \in Calls, FinishInline(c) PROVE Stages'
    BY <1>23
    DEF FinishInline, Return, DropReleaseGuard, sessionVars, Stages, ArmedIsGuarded,
        StagesAgree, Preparing, TypeOK, Guarded, ArmedWhileGuarded
  <1>24. ASSUME NEW c \in Calls, FinishTask(c) PROVE Stages'
    BY <1>24
    DEF FinishTask, DropReleaseGuard, Detached, callVars, sessionVars, Stages,
        ArmedIsGuarded, StagesAgree, Preparing, TypeOK, Guarded, ArmedWhileGuarded
  <1>25. ASSUME NEW c \in Calls, FailInline(c) PROVE Stages'
    BY <1>25
    DEF FailInline, Return, DropReleaseGuard, EventLands, Condemned, Stages,
        ArmedIsGuarded, StagesAgree, Preparing, TypeOK, Guarded, ArmedWhileGuarded
  <1>26. ASSUME NEW c \in Calls, FailTask(c) PROVE Stages'
    BY <1>26
    DEF FailTask, CleanupGuard, DropReleaseGuard, EventLands, Condemned, Detached,
        callVars, Stages, ArmedIsGuarded, StagesAgree, Preparing, TypeOK, Guarded,
        ArmedWhileGuarded
  <1>27. ASSUME NEW c \in Calls, CommandPress(c) PROVE Stages'
    BY <1>27
    DEF CommandPress, lockVars, callVars, sessionVars, Stages, ArmedIsGuarded,
        StagesAgree, Preparing, TypeOK, Guarded, ArmedWhileGuarded
  <1>28. ASSUME NEW c \in Calls, CommandDone(c) PROVE Stages'
    BY <1>28
    DEF CommandDone, lockVars, callVars, sessionVars, Stages, ArmedIsGuarded, StagesAgree,
        Preparing, TypeOK, Guarded, ArmedWhileGuarded
  <1>29. ASSUME NEW c \in Calls, CommandFails(c) PROVE Stages'
    BY <1>29
    DEF CommandFails, lockVars, callVars, sessionVars, Stages, ArmedIsGuarded,
        StagesAgree, Preparing, TypeOK, Guarded, ArmedWhileGuarded
  <1>30. ASSUME NEW c \in Calls, ReceiveOk(c) PROVE Stages'
    BY <1>30
    DEF ReceiveOk, Return, sessionVars, Stages, ArmedIsGuarded, StagesAgree, Preparing,
        TypeOK, Guarded, ArmedWhileGuarded
  <1>31. ASSUME NEW c \in Calls, ReceiveError(c) PROVE Stages'
    BY <1>31
    DEF ReceiveError, Return, ClearSession, sessionVars, Stages, ArmedIsGuarded,
        StagesAgree, Preparing, TypeOK, Guarded, ArmedWhileGuarded
  <1>32. ASSUME NEW c \in Calls, ReceiveRefusal(c) PROVE Stages'
    BY <1>32
    DEF ReceiveRefusal, Return, sessionVars, Stages, ArmedIsGuarded, StagesAgree,
        Preparing, TypeOK, Guarded, ArmedWhileGuarded
  <1>33. ASSUME NEW c \in Calls, PasteFallsBack(c) PROVE Stages'
    BY <1>33
    DEF PasteFallsBack, sessionVars, Stages, ArmedIsGuarded, StagesAgree, Preparing,
        TypeOK, Guarded, ArmedWhileGuarded
  <1>34. ASSUME NEW c \in Calls, DropTaskResult(c) PROVE Stages'
    BY <1>34
    DEF DropTaskResult, Return, sessionVars, Stages, ArmedIsGuarded, StagesAgree,
        Preparing, TypeOK, Guarded, ArmedWhileGuarded, Finished
  <1>35. ASSUME NEW c \in Calls, CancelQueued(c) PROVE Stages'
    BY <1>35
    DEF CancelQueued, jobVars, sessionVars, Stages, ArmedIsGuarded, StagesAgree,
        Preparing, TypeOK, Guarded, ArmedWhileGuarded
  <1>36. ASSUME NEW c \in Calls, CancelPreparing(c) PROVE Stages'
    BY <1>36
    DEF CancelPreparing, Return, sessionVars, Stages, ArmedIsGuarded, StagesAgree,
        Preparing, TypeOK, Guarded, ArmedWhileGuarded
  <1>37. ASSUME NEW c \in Calls, CancelAwaiting(c) PROVE Stages'
    BY <1>37
    DEF CancelAwaiting, jobVars, sessionVars, Stages, ArmedIsGuarded, StagesAgree,
        Preparing, TypeOK, Guarded, ArmedWhileGuarded
  <1>38. ASSUME NEW c \in Calls, CancelInline(c) PROVE Stages'
    BY <1>38
    DEF CancelInline, Return, DropReleaseGuard, EventLands, Condemned, Stages,
        ArmedIsGuarded, StagesAgree, Preparing, TypeOK, Guarded, ArmedWhileGuarded
  <1>39. ASSUME NEW c \in Calls, CleanupRelease(c) PROVE Stages'
    BY <1>39
    DEF CleanupRelease, lockVars, callVars, jobVars, sessionVars, Stages, ArmedIsGuarded,
        StagesAgree, Preparing, TypeOK, Guarded, ArmedWhileGuarded
  <1>40. ASSUME NEW c \in Calls, CleanupClose(c) PROVE Stages'
    BY <1>40
    DEF CleanupClose, callVars, jobVars, Stages, ArmedIsGuarded, StagesAgree, Preparing,
        TypeOK, Guarded, ArmedWhileGuarded
  <1>41. ASSUME NEW s \in Sessions, CloseSession(s) PROVE Stages'
    BY <1>41
    DEF CloseSession, lockVars, callVars, jobVars, Stages, ArmedIsGuarded, StagesAgree,
        Preparing, TypeOK, Guarded, ArmedWhileGuarded
  <1>42. ASSUME NEW s \in Sessions, Disconnect(s) PROVE Stages'
    BY <1>42
    DEF Disconnect, Unreferenced, lockVars, callVars, jobVars, Stages, ArmedIsGuarded,
        StagesAgree, Preparing, TypeOK, Guarded, ArmedWhileGuarded
  <1>43. ASSUME NEW s \in Sessions, Revoke(s) PROVE Stages'
    BY <1>43
    DEF Revoke, lockVars, callVars, jobVars, Stages, ArmedIsGuarded, StagesAgree,
        Preparing, TypeOK, Guarded, ArmedWhileGuarded
  <1>44. CASE UNCHANGED vars
    BY <1>44
    DEF vars, lockVars, callVars, jobVars, sessionVars, Stages, ArmedIsGuarded,
        StagesAgree, Preparing, TypeOK, Guarded, ArmedWhileGuarded
  <1> QED
    BY <1>1, <1>2, <1>3, <1>4, <1>5, <1>6, <1>7, <1>8, <1>9, <1>10, <1>11, <1>12,
       <1>13, <1>14, <1>15, <1>16, <1>17, <1>18, <1>19, <1>20, <1>21, <1>22, <1>23,
       <1>24, <1>25, <1>26, <1>27, <1>28, <1>29, <1>30, <1>31, <1>32, <1>33, <1>34,
       <1>35, <1>36, <1>37, <1>38, <1>39, <1>40, <1>41, <1>42, <1>43, <1>44
    DEF Next, Progress, Prepare, PortalInput, CommandInput, Receive, Cancel, Cleanup

\* The release cleanup works on a session nobody can use any more.
CleanupCondemns == \A c \in Calls : cleanup[c] # "none" => sess[c] \notin valid

\* invalidate_and_close swaps the flag before it spawns the close.
ClosingIsInvalid == closing \cap valid = {}

\* The compositor lifts what a session pressed when the session ends.
ClosedIsUp == \A s \in Sessions \ live : held[s] = {}

\* Only the person at the desktop ends a session that is still marked valid.
ValidIsLive == "revoke" \in Faults \/ valid \subseteq live

\* No input future sends on a session that a spawned task closes.
ClosingUnused == \A s \in closing : \A c \in Calls : sess[c] = s => job[c] \notin Guarded

SessionsInv ==
    CleanupCondemns /\ ClosingIsInvalid /\ ClosedIsUp /\ ValidIsLive /\ ClosingUnused

(* An event that may have landed is one of the armed controls of its own session. *)
LEMMA LandingEffect ==
    ASSUME TypeOK, ArmedWhileGuarded, Stages, NEW c \in Calls,
           UNCHANGED held \/ EventLands(c)
    PROVE  /\ \A r \in Sessions \cup {Local} : r # sess[c] => held'[r] = held[r]
           /\ armed[c] = 0 => held' = held
           /\ held' # held => sess[c] \in live
  <1> USE DEF TypeOK
  <1>1. CASE UNCHANGED held
    BY <1>1
  <1>2. CASE EventLands(c)
    <2>1. CASE job[c] = "pressing"
      BY <1>2, <2>1 DEF EventLands, ArmedWhileGuarded
    <2>2. CASE job[c] = "releasing"
      BY <1>2, <2>2 DEF EventLands, ArmedWhileGuarded
    <2>3. CASE job[c] \notin {"pressing", "releasing"}
      BY <1>2, <2>3 DEF EventLands
    <2> QED
      BY <2>1, <2>2, <2>3
  <1> QED
    BY <1>1, <1>2

(* While one call has a future, a task or a cleanup, no other call has. *)
LEMMA SoleOperation ==
    ASSUME IInv, NEW c \in Calls,
           pc[c] \in Holding \/ job[c] # "none" \/ cleanup[c] # "none",
           NEW x \in Calls, x # c
    PROVE  job[x] = "none" /\ cleanup[x] = "none"
  BY OwnsWhenActive, OthersAtRest DEF IInv, AtRest

(* Every step keeps these relations between calls and sessions. *)
LEMMA SessionStep == IInv /\ Stages /\ SessionsInv /\ [Next]_vars => SessionsInv'
  <1> SUFFICES ASSUME IInv, Stages, SessionsInv, [Next]_vars PROVE SessionsInv'
    OBVIOUS
  <1> USE ConstantsAssumption DEF IInv
  <1>0. \A c, x \in Calls :
            x # c /\ (pc[c] \in Holding \/ job[c] # "none" \/ cleanup[c] # "none") =>
                job[x] = "none" /\ cleanup[x] = "none"
    BY SoleOperation
  <1>1. ASSUME NEW c \in Calls, Begin(c) PROVE SessionsInv'
    BY <1>1
    DEF Begin, jobVars, sessionVars, SessionsInv, CleanupCondemns, ClosingIsInvalid,
        ClosedIsUp, ValidIsLive, ClosingUnused, Stages, ArmedIsGuarded, StagesAgree,
        Preparing, Holding, TypeOK, Guarded, Sending, Finished, ArmedWhileGuarded, Keys
  <1>2. ASSUME NEW c \in Calls, Acquire(c) PROVE SessionsInv'
    BY <1>2
    DEF Acquire, jobVars, sessionVars, SessionsInv, CleanupCondemns, ClosingIsInvalid,
        ClosedIsUp, ValidIsLive, ClosingUnused, Stages, ArmedIsGuarded, StagesAgree,
        Preparing, Holding, TypeOK, Guarded, Sending, Finished, ArmedWhileGuarded, Keys
  <1>3. ASSUME NEW c \in Calls, Refuse(c) PROVE SessionsInv'
    BY <1>3
    DEF Refuse, Return, sessionVars, SessionsInv, CleanupCondemns, ClosingIsInvalid,
        ClosedIsUp, ValidIsLive, ClosingUnused, Stages, ArmedIsGuarded, StagesAgree,
        Preparing, Holding, TypeOK, Guarded, Sending, Finished, ArmedWhileGuarded, Keys
  <1>4. ASSUME NEW c \in Calls, RefuseAndClear(c) PROVE SessionsInv'
    BY <1>4, <1>0
    DEF RefuseAndClear, Return, ClearSession, SessionsInv, CleanupCondemns,
        ClosingIsInvalid, ClosedIsUp, ValidIsLive, ClosingUnused, Stages, ArmedIsGuarded,
        StagesAgree, Preparing, Holding, TypeOK, Guarded, Sending, Finished,
        ArmedWhileGuarded, Keys
  <1>5. ASSUME NEW c \in Calls, RunCommand(c) PROVE SessionsInv'
    BY <1>5
    DEF RunCommand, sessionVars, SessionsInv, CleanupCondemns, ClosingIsInvalid,
        ClosedIsUp, ValidIsLive, ClosingUnused, Stages, ArmedIsGuarded, StagesAgree,
        Preparing, Holding, TypeOK, Guarded, Sending, Finished, ArmedWhileGuarded, Keys
  <1>6. ASSUME NEW c \in Calls, RunPixelflux(c) PROVE SessionsInv'
    BY <1>6
    DEF RunPixelflux, sessionVars, SessionsInv, CleanupCondemns, ClosingIsInvalid,
        ClosedIsUp, ValidIsLive, ClosingUnused, Stages, ArmedIsGuarded, StagesAgree,
        Preparing, Holding, TypeOK, Guarded, Sending, Finished, ArmedWhileGuarded, Keys
  <1>7. ASSUME NEW c \in Calls, NEW d \in Devices, UseCachedSession(c, d)
        PROVE  SessionsInv'
    BY <1>7
    DEF UseCachedSession, lockVars, jobVars, sessionVars, SessionsInv, CleanupCondemns,
        ClosingIsInvalid, ClosedIsUp, ValidIsLive, ClosingUnused, Stages, ArmedIsGuarded,
        StagesAgree, Preparing, Holding, TypeOK, Guarded, Sending, Finished,
        ArmedWhileGuarded, Keys
  <1>8. ASSUME NEW c \in Calls, NEW d \in Devices, EnsureSession(c, d) PROVE SessionsInv'
    BY <1>8
    DEF EnsureSession, InitLockHeld, lockVars, jobVars, SessionsInv, CleanupCondemns,
        ClosingIsInvalid, ClosedIsUp, ValidIsLive, ClosingUnused, Stages, ArmedIsGuarded,
        StagesAgree, Preparing, Holding, TypeOK, Guarded, Sending, Finished,
        ArmedWhileGuarded, Keys
  <1>9. ASSUME NEW c \in Calls, NEW s \in Sessions, StartPointerSession(c, s)
        PROVE  SessionsInv'
    BY <1>9
    DEF StartPointerSession, NewSession, Unreferenced, lockVars, jobVars, SessionsInv,
        CleanupCondemns, ClosingIsInvalid, ClosedIsUp, ValidIsLive, ClosingUnused, Stages,
        ArmedIsGuarded, StagesAgree, Preparing, Holding, TypeOK, Guarded, Sending,
        Finished, ArmedWhileGuarded, Keys
  <1>10. ASSUME NEW c \in Calls, NEW s \in Sessions, StartKeyboardSession(c, s)
        PROVE  SessionsInv'
    BY <1>10
    DEF StartKeyboardSession, NewSession, Unreferenced, lockVars, jobVars, SessionsInv,
        CleanupCondemns, ClosingIsInvalid, ClosedIsUp, ValidIsLive, ClosingUnused, Stages,
        ArmedIsGuarded, StagesAgree, Preparing, Holding, TypeOK, Guarded, Sending,
        Finished, ArmedWhileGuarded, Keys
  <1>11. ASSUME NEW c \in Calls, CacheSession(c) PROVE SessionsInv'
    BY <1>11
    DEF CacheSession, lockVars, jobVars, SessionsInv, CleanupCondemns,
        ClosingIsInvalid, ClosedIsUp, ValidIsLive, ClosingUnused, Stages, ArmedIsGuarded,
        StagesAgree, Preparing, Holding, TypeOK, Guarded, Sending, Finished,
        ArmedWhileGuarded, Keys
  <1>12. ASSUME NEW c \in Calls, StartFails(c) PROVE SessionsInv'
    BY <1>12
    DEF StartFails, Return, sessionVars, SessionsInv, CleanupCondemns,
        ClosingIsInvalid, ClosedIsUp, ValidIsLive, ClosingUnused, Stages, ArmedIsGuarded,
        StagesAgree, Preparing, Holding, TypeOK, Guarded, Sending, Finished,
        ArmedWhileGuarded, Keys
  <1>13. ASSUME NEW c \in Calls, StartFallsBack(c) PROVE SessionsInv'
    BY <1>13
    DEF StartFallsBack, lockVars, jobVars, sessionVars, SessionsInv, CleanupCondemns,
        ClosingIsInvalid, ClosedIsUp, ValidIsLive, ClosingUnused, Stages, ArmedIsGuarded,
        StagesAgree, Preparing, Holding, TypeOK, Guarded, Sending, Finished,
        ArmedWhileGuarded, Keys
  <1>14. ASSUME NEW c \in Calls, RunInline(c) PROVE SessionsInv'
    BY <1>14
    DEF RunInline, lockVars, sessionVars, SessionsInv, CleanupCondemns,
        ClosingIsInvalid, ClosedIsUp, ValidIsLive, ClosingUnused, Stages, ArmedIsGuarded,
        StagesAgree, Preparing, Holding, TypeOK, Guarded, Sending, Finished,
        ArmedWhileGuarded, Keys
  <1>15. ASSUME NEW c \in Calls, RunPortalTask(c) PROVE SessionsInv'
    BY <1>15
    DEF RunPortalTask, sessionVars, SessionsInv, CleanupCondemns, ClosingIsInvalid,
        ClosedIsUp, ValidIsLive, ClosingUnused, Stages, ArmedIsGuarded, StagesAgree,
        Preparing, Holding, TypeOK, Guarded, Sending, Finished, ArmedWhileGuarded, Keys
  <1>16. ASSUME NEW c \in Calls, PasteRefused(c) PROVE SessionsInv'
    BY <1>16
    DEF PasteRefused, Detached, lockVars, callVars, sessionVars, SessionsInv,
        CleanupCondemns, ClosingIsInvalid, ClosedIsUp, ValidIsLive, ClosingUnused, Stages,
        ArmedIsGuarded, StagesAgree, Preparing, Holding, TypeOK, Guarded, Sending,
        Finished, ArmedWhileGuarded, Keys
  <1>17. ASSUME NEW c \in Calls, TakePortalLock(c) PROVE SessionsInv'
    BY <1>17
    DEF TakePortalLock, callVars, sessionVars, SessionsInv, CleanupCondemns,
        ClosingIsInvalid, ClosedIsUp, ValidIsLive, ClosingUnused, Stages, ArmedIsGuarded,
        StagesAgree, Preparing, Holding, TypeOK, Guarded, Sending, Finished,
        ArmedWhileGuarded, Keys
  <1>18. ASSUME NEW c \in Calls, Checked(c) PROVE SessionsInv'
    BY <1>18
    DEF Checked, lockVars, callVars, sessionVars, SessionsInv, CleanupCondemns,
        ClosingIsInvalid, ClosedIsUp, ValidIsLive, ClosingUnused, Stages, ArmedIsGuarded,
        StagesAgree, Preparing, Holding, TypeOK, Guarded, Sending, Finished,
        ArmedWhileGuarded, Keys
  <1>19. ASSUME NEW c \in Calls, Press(c) PROVE SessionsInv'
    BY <1>19
    DEF Press, lockVars, callVars, sessionVars, SessionsInv, CleanupCondemns,
        ClosingIsInvalid, ClosedIsUp, ValidIsLive, ClosingUnused, Stages, ArmedIsGuarded,
        StagesAgree, Preparing, Holding, TypeOK, Guarded, Sending, Finished,
        ArmedWhileGuarded, Keys
  <1>20. ASSUME NEW c \in Calls, PressDone(c) PROVE SessionsInv'
    BY <1>20, <1>0
    DEF PressDone, lockVars, callVars, sessionVars, SessionsInv, CleanupCondemns,
        ClosingIsInvalid, ClosedIsUp, ValidIsLive, ClosingUnused, Stages, ArmedIsGuarded,
        StagesAgree, Preparing, Holding, TypeOK, Guarded, Sending, Finished,
        ArmedWhileGuarded, Keys
  <1>21. ASSUME NEW c \in Calls, Release(c) PROVE SessionsInv'
    BY <1>21
    DEF Release, lockVars, callVars, sessionVars, SessionsInv, CleanupCondemns,
        ClosingIsInvalid, ClosedIsUp, ValidIsLive, ClosingUnused, Stages, ArmedIsGuarded,
        StagesAgree, Preparing, Holding, TypeOK, Guarded, Sending, Finished,
        ArmedWhileGuarded, Keys
  <1>22. ASSUME NEW c \in Calls, ReleaseDone(c) PROVE SessionsInv'
    BY <1>22
    DEF ReleaseDone, lockVars, callVars, sessionVars, SessionsInv, CleanupCondemns,
        ClosingIsInvalid, ClosedIsUp, ValidIsLive, ClosingUnused, Stages, ArmedIsGuarded,
        StagesAgree, Preparing, Holding, TypeOK, Guarded, Sending, Finished,
        ArmedWhileGuarded, Keys
  <1>23. ASSUME NEW c \in Calls, FinishInline(c) PROVE SessionsInv'
    BY <1>23
    DEF FinishInline, Return, DropReleaseGuard, sessionVars, SessionsInv,
        CleanupCondemns, ClosingIsInvalid, ClosedIsUp, ValidIsLive, ClosingUnused, Stages,
        ArmedIsGuarded, StagesAgree, Preparing, Holding, TypeOK, Guarded, Sending,
        Finished, ArmedWhileGuarded, Keys
  <1>24. ASSUME NEW c \in Calls, FinishTask(c) PROVE SessionsInv'
    BY <1>24
    DEF FinishTask, DropReleaseGuard, Detached, callVars, sessionVars, SessionsInv,
        CleanupCondemns, ClosingIsInvalid, ClosedIsUp, ValidIsLive, ClosingUnused, Stages,
        ArmedIsGuarded, StagesAgree, Preparing, Holding, TypeOK, Guarded, Sending,
        Finished, ArmedWhileGuarded, Keys
  <1>25. ASSUME NEW c \in Calls, FailInline(c) PROVE SessionsInv'
    <2>1. /\ \A r \in Sessions \cup {Local} : r # sess[c] => held'[r] = held[r]
          /\ armed[c] = 0 => held' = held
          /\ held' # held => sess[c] \in live
          /\ held' \in [Sessions \cup {Local} -> SUBSET Keys]
      BY <1>25, LandingEffect, LandingTyped DEF FailInline
    <2>2. CleanupCondemns'
      BY <1>25, <2>1, <1>0
      DEF FailInline, Return, DropReleaseGuard, Condemned, SessionsInv,
          CleanupCondemns, TypeOK, ArmedIsGuarded, Stages, StagesAgree, Guarded, Holding
    <2>3. ClosingIsInvalid'
      BY <1>25, <2>1
      DEF FailInline, Return, DropReleaseGuard, Condemned, SessionsInv,
          ClosingIsInvalid, TypeOK
    <2>4. ClosedIsUp'
      BY <1>25, <2>1
      DEF FailInline, Return, DropReleaseGuard, Condemned, SessionsInv, ClosedIsUp,
          TypeOK
    <2>5. ValidIsLive'
      BY <1>25, <2>1
      DEF FailInline, Return, DropReleaseGuard, Condemned, SessionsInv, ValidIsLive,
          TypeOK
    <2>6. ClosingUnused'
      BY <1>25, <2>1, <1>0
      DEF FailInline, Return, DropReleaseGuard, Condemned, SessionsInv, ClosingUnused,
          TypeOK, Guarded, Holding, Stages, StagesAgree
    <2> QED
      BY <2>2, <2>3, <2>4, <2>5, <2>6 DEF SessionsInv
  <1>26. ASSUME NEW c \in Calls, FailTask(c) PROVE SessionsInv'
    <2>1. /\ \A r \in Sessions \cup {Local} : r # sess[c] => held'[r] = held[r]
          /\ armed[c] = 0 => held' = held
          /\ held' # held => sess[c] \in live
          /\ held' \in [Sessions \cup {Local} -> SUBSET Keys]
      BY <1>26, LandingEffect, LandingTyped DEF FailTask
    <2>2. CleanupCondemns'
      BY <1>26, <2>1, <1>0
      DEF FailTask, DropReleaseGuard, Condemned, Detached, SessionsInv,
          CleanupCondemns, TypeOK, ArmedIsGuarded, Stages, StagesAgree, Guarded, Holding
    <2>3. ClosingIsInvalid'
      BY <1>26, <2>1
      DEF FailTask, DropReleaseGuard, Condemned, Detached, SessionsInv,
          ClosingIsInvalid, TypeOK
    <2>4. ClosedIsUp'
      BY <1>26, <2>1
      DEF FailTask, DropReleaseGuard, Condemned, Detached, SessionsInv, ClosedIsUp,
          TypeOK
    <2>5. ValidIsLive'
      BY <1>26, <2>1
      DEF FailTask, DropReleaseGuard, Condemned, Detached, SessionsInv, ValidIsLive,
          TypeOK
    <2>6. ClosingUnused'
      BY ZenonT(60), <1>26, <2>1, <1>0
      DEF FailTask, DropReleaseGuard, Condemned, Detached, SessionsInv, ClosingUnused,
          TypeOK, Guarded, Holding, Stages, StagesAgree
    <2> QED
      BY <2>2, <2>3, <2>4, <2>5, <2>6 DEF SessionsInv
  <1>27. ASSUME NEW c \in Calls, CommandPress(c) PROVE SessionsInv'
    BY <1>27
    DEF CommandPress, lockVars, callVars, sessionVars, SessionsInv, CleanupCondemns,
        ClosingIsInvalid, ClosedIsUp, ValidIsLive, ClosingUnused, Stages, ArmedIsGuarded,
        StagesAgree, Preparing, Holding, TypeOK, Guarded, Sending, Finished,
        ArmedWhileGuarded, Keys
  <1>28. ASSUME NEW c \in Calls, CommandDone(c) PROVE SessionsInv'
    BY <1>28
    DEF CommandDone, lockVars, callVars, sessionVars, SessionsInv, CleanupCondemns,
        ClosingIsInvalid, ClosedIsUp, ValidIsLive, ClosingUnused, Stages, ArmedIsGuarded,
        StagesAgree, Preparing, Holding, TypeOK, Guarded, Sending, Finished,
        ArmedWhileGuarded, Keys
  <1>29. ASSUME NEW c \in Calls, CommandFails(c) PROVE SessionsInv'
    BY ZenonT(60), <1>29
    DEF CommandFails, lockVars, callVars, sessionVars, SessionsInv, CleanupCondemns,
        ClosingIsInvalid, ClosedIsUp, ValidIsLive, ClosingUnused, Stages, ArmedIsGuarded,
        StagesAgree, Preparing, Holding, TypeOK, Guarded, Sending, Finished,
        ArmedWhileGuarded, Keys
  <1>30. ASSUME NEW c \in Calls, ReceiveOk(c) PROVE SessionsInv'
    BY <1>30
    DEF ReceiveOk, Return, sessionVars, SessionsInv, CleanupCondemns, ClosingIsInvalid,
        ClosedIsUp, ValidIsLive, ClosingUnused, Stages, ArmedIsGuarded, StagesAgree,
        Preparing, Holding, TypeOK, Guarded, Sending, Finished, ArmedWhileGuarded, Keys
  <1>31. ASSUME NEW c \in Calls, ReceiveError(c) PROVE SessionsInv'
    <2>2. CleanupCondemns'
      BY <1>31, <1>0
      DEF ReceiveError, Return, ClearSession, sessionVars, SessionsInv,
          CleanupCondemns, TypeOK, ArmedIsGuarded, Stages, StagesAgree, Guarded, Holding
    <2>3. ClosingIsInvalid'
      BY <1>31
      DEF ReceiveError, Return, ClearSession, sessionVars, SessionsInv,
          ClosingIsInvalid, TypeOK
    <2>4. ClosedIsUp'
      BY <1>31
      DEF ReceiveError, Return, ClearSession, sessionVars, SessionsInv, ClosedIsUp,
          TypeOK
    <2>5. ValidIsLive'
      BY <1>31
      DEF ReceiveError, Return, ClearSession, sessionVars, SessionsInv, ValidIsLive,
          TypeOK
    <2>6. ClosingUnused'
      BY <1>31, <1>0
      DEF ReceiveError, Return, ClearSession, sessionVars, SessionsInv, ClosingUnused,
          TypeOK, Guarded, Holding, Stages, StagesAgree
    <2> QED
      BY <2>2, <2>3, <2>4, <2>5, <2>6 DEF SessionsInv
  <1>32. ASSUME NEW c \in Calls, ReceiveRefusal(c) PROVE SessionsInv'
    BY <1>32
    DEF ReceiveRefusal, Return, sessionVars, SessionsInv, CleanupCondemns,
        ClosingIsInvalid, ClosedIsUp, ValidIsLive, ClosingUnused, Stages, ArmedIsGuarded,
        StagesAgree, Preparing, Holding, TypeOK, Guarded, Sending, Finished,
        ArmedWhileGuarded, Keys
  <1>33. ASSUME NEW c \in Calls, PasteFallsBack(c) PROVE SessionsInv'
    BY <1>33
    DEF PasteFallsBack, sessionVars, SessionsInv, CleanupCondemns, ClosingIsInvalid,
        ClosedIsUp, ValidIsLive, ClosingUnused, Stages, ArmedIsGuarded, StagesAgree,
        Preparing, Holding, TypeOK, Guarded, Sending, Finished, ArmedWhileGuarded, Keys
  <1>34. ASSUME NEW c \in Calls, DropTaskResult(c) PROVE SessionsInv'
    BY <1>34
    DEF DropTaskResult, Return, sessionVars, SessionsInv, CleanupCondemns,
        ClosingIsInvalid, ClosedIsUp, ValidIsLive, ClosingUnused, Stages, ArmedIsGuarded,
        StagesAgree, Preparing, Holding, TypeOK, Guarded, Sending, Finished,
        ArmedWhileGuarded, Keys
  <1>35. ASSUME NEW c \in Calls, CancelQueued(c) PROVE SessionsInv'
    BY <1>35
    DEF CancelQueued, jobVars, sessionVars, SessionsInv, CleanupCondemns,
        ClosingIsInvalid, ClosedIsUp, ValidIsLive, ClosingUnused, Stages, ArmedIsGuarded,
        StagesAgree, Preparing, Holding, TypeOK, Guarded, Sending, Finished,
        ArmedWhileGuarded, Keys
  <1>36. ASSUME NEW c \in Calls, CancelPreparing(c) PROVE SessionsInv'
    BY <1>36
    DEF CancelPreparing, Return, sessionVars, SessionsInv, CleanupCondemns,
        ClosingIsInvalid, ClosedIsUp, ValidIsLive, ClosingUnused, Stages, ArmedIsGuarded,
        StagesAgree, Preparing, Holding, TypeOK, Guarded, Sending, Finished,
        ArmedWhileGuarded, Keys
  <1>37. ASSUME NEW c \in Calls, CancelAwaiting(c) PROVE SessionsInv'
    BY <1>37
    DEF CancelAwaiting, jobVars, sessionVars, SessionsInv, CleanupCondemns,
        ClosingIsInvalid, ClosedIsUp, ValidIsLive, ClosingUnused, Stages, ArmedIsGuarded,
        StagesAgree, Preparing, Holding, TypeOK, Guarded, Sending, Finished,
        ArmedWhileGuarded, Keys
  <1>38. ASSUME NEW c \in Calls, CancelInline(c) PROVE SessionsInv'
    <2>1. /\ \A r \in Sessions \cup {Local} : r # sess[c] => held'[r] = held[r]
          /\ armed[c] = 0 => held' = held
          /\ held' # held => sess[c] \in live
          /\ held' \in [Sessions \cup {Local} -> SUBSET Keys]
      BY <1>38, LandingEffect, LandingTyped DEF CancelInline
    <2>2. CleanupCondemns'
      BY <1>38, <2>1, <1>0
      DEF CancelInline, Return, DropReleaseGuard, Condemned, SessionsInv,
          CleanupCondemns, TypeOK, ArmedIsGuarded, Stages, StagesAgree, Guarded, Holding
    <2>3. ClosingIsInvalid'
      BY <1>38, <2>1
      DEF CancelInline, Return, DropReleaseGuard, Condemned, SessionsInv,
          ClosingIsInvalid, TypeOK
    <2>4. ClosedIsUp'
      BY <1>38, <2>1
      DEF CancelInline, Return, DropReleaseGuard, Condemned, SessionsInv, ClosedIsUp,
          TypeOK
    <2>5. ValidIsLive'
      BY <1>38, <2>1
      DEF CancelInline, Return, DropReleaseGuard, Condemned, SessionsInv, ValidIsLive,
          TypeOK
    <2>6. ClosingUnused'
      BY <1>38, <2>1, <1>0
      DEF CancelInline, Return, DropReleaseGuard, Condemned, SessionsInv,
          ClosingUnused, TypeOK, Guarded, Holding, Stages, StagesAgree
    <2> QED
      BY <2>2, <2>3, <2>4, <2>5, <2>6 DEF SessionsInv
  <1>39. ASSUME NEW c \in Calls, CleanupRelease(c) PROVE SessionsInv'
    BY ZenonT(60), <1>39, <1>0
    DEF CleanupRelease, lockVars, callVars, jobVars, sessionVars, SessionsInv,
        CleanupCondemns, ClosingIsInvalid, ClosedIsUp, ValidIsLive, ClosingUnused, Stages,
        ArmedIsGuarded, StagesAgree, Preparing, Holding, TypeOK, Guarded, Sending,
        Finished, ArmedWhileGuarded, Keys
  <1>40. ASSUME NEW c \in Calls, CleanupClose(c) PROVE SessionsInv'
    <2>2. CleanupCondemns'
      BY <1>40, <1>0
      DEF CleanupClose, callVars, jobVars, SessionsInv, CleanupCondemns, TypeOK,
          ArmedIsGuarded, Stages, StagesAgree, Guarded, Holding, ClosingIsInvalid
    <2>3. ClosingIsInvalid'
      BY <1>40
      DEF CleanupClose, callVars, jobVars, SessionsInv, ClosingIsInvalid, TypeOK,
          CleanupCondemns
    <2>4. ClosedIsUp'
      BY ZenonT(60), <1>40
      DEF CleanupClose, callVars, jobVars, SessionsInv, ClosedIsUp, TypeOK,
          CleanupCondemns, ClosingIsInvalid
    <2>5. ValidIsLive'
      BY <1>40
      DEF CleanupClose, callVars, jobVars, SessionsInv, ValidIsLive, TypeOK,
          CleanupCondemns, ClosingIsInvalid
    <2>6. ClosingUnused'
      BY <1>40, <1>0
      DEF CleanupClose, callVars, jobVars, SessionsInv, ClosingUnused, TypeOK, Guarded,
          Holding, Stages, StagesAgree, CleanupCondemns, ClosingIsInvalid
    <2> QED
      BY <2>2, <2>3, <2>4, <2>5, <2>6 DEF SessionsInv
  <1>41. ASSUME NEW s \in Sessions, CloseSession(s) PROVE SessionsInv'
    <2>2. CleanupCondemns'
      BY <1>41, <1>0
      DEF CloseSession, lockVars, callVars, jobVars, SessionsInv, CleanupCondemns,
          TypeOK, ArmedIsGuarded, Stages, StagesAgree, Guarded, Holding, ClosingIsInvalid
    <2>3. ClosingIsInvalid'
      BY <1>41
      DEF CloseSession, lockVars, callVars, jobVars, SessionsInv, ClosingIsInvalid,
          TypeOK
    <2>4. ClosedIsUp'
      BY <1>41
      DEF CloseSession, lockVars, callVars, jobVars, SessionsInv, ClosedIsUp, TypeOK,
          ClosingIsInvalid
    <2>5. ValidIsLive'
      BY <1>41
      DEF CloseSession, lockVars, callVars, jobVars, SessionsInv, ValidIsLive, TypeOK,
          ClosingIsInvalid
    <2>6. ClosingUnused'
      BY <1>41, <1>0
      DEF CloseSession, lockVars, callVars, jobVars, SessionsInv, ClosingUnused,
          TypeOK, Guarded, Holding, Stages, StagesAgree, ClosingIsInvalid
    <2> QED
      BY <2>2, <2>3, <2>4, <2>5, <2>6 DEF SessionsInv
  <1>42. ASSUME NEW s \in Sessions, Disconnect(s) PROVE SessionsInv'
    BY <1>42
    DEF Disconnect, Unreferenced, lockVars, callVars, jobVars, SessionsInv,
        CleanupCondemns, ClosingIsInvalid, ClosedIsUp, ValidIsLive, ClosingUnused, Stages,
        ArmedIsGuarded, StagesAgree, Preparing, Holding, TypeOK, Guarded, Sending,
        Finished, ArmedWhileGuarded, Keys
  <1>43. ASSUME NEW s \in Sessions, Revoke(s) PROVE SessionsInv'
    BY <1>43
    DEF Revoke, lockVars, callVars, jobVars, SessionsInv, CleanupCondemns,
        ClosingIsInvalid, ClosedIsUp, ValidIsLive, ClosingUnused, Stages, ArmedIsGuarded,
        StagesAgree, Preparing, Holding, TypeOK, Guarded, Sending, Finished,
        ArmedWhileGuarded, Keys
  <1>44. CASE UNCHANGED vars
    BY <1>44
    DEF vars, lockVars, callVars, jobVars, sessionVars, SessionsInv, CleanupCondemns,
        ClosingIsInvalid, ClosedIsUp, ValidIsLive, ClosingUnused, Stages, ArmedIsGuarded,
        StagesAgree, Preparing, Holding, TypeOK, Guarded, Sending, Finished,
        ArmedWhileGuarded, Keys
  <1> QED
    BY <1>1, <1>2, <1>3, <1>4, <1>5, <1>6, <1>7, <1>8, <1>9, <1>10, <1>11, <1>12,
       <1>13, <1>14, <1>15, <1>16, <1>17, <1>18, <1>19, <1>20, <1>21, <1>22, <1>23,
       <1>24, <1>25, <1>26, <1>27, <1>28, <1>29, <1>30, <1>31, <1>32, <1>33, <1>34,
       <1>35, <1>36, <1>37, <1>38, <1>39, <1>40, <1>41, <1>42, <1>43, <1>44
    DEF Next, Progress, Prepare, PortalInput, CommandInput, Receive, Cancel, Cleanup

\* What a step may do to the sessions and to what is pressed on them: press or lift it,
\* end a guarded future, open a session, or end one ...
Presses(c) == PressDone(c) \/ ReleaseDone(c)
Ends(c) ==
    FinishInline(c) \/ FinishTask(c) \/ FailInline(c) \/ FailTask(c) \/ CancelInline(c)
Opens(c, s) == StartPointerSession(c, s) \/ StartKeyboardSession(c, s)
Closes(s) == CloseSession(s) \/ Disconnect(s) \/ Revoke(s)

\* ... and every other step leaves what is pressed, and the guards and cleanups for it.
Quiet ==
    /\ valid' \subseteq valid
    /\ \A s \in Sessions : held'[s] = held[s]
    /\ \A x \in Calls :
          job[x] \in Guarded \/ cleanup[x] # "none" =>
              /\ sess'[x] = sess[x] /\ cleanup'[x] = cleanup[x] /\ armed[x] <= armed'[x]
              /\ job[x] \in Guarded => job'[x] \in Guarded

(* The steps that are not quiet. *)
LEMMA StepKinds ==
    ASSUME IInv, Stages, [Next]_vars
    PROVE  \/ Quiet
           \/ \E c \in Calls : Presses(c) \/ Ends(c) \/ Cleanup(c)
           \/ \E c \in Calls, s \in Sessions : Opens(c, s)
           \/ \E s \in Sessions : Closes(s)
  <1> USE ConstantsAssumption DEF IInv
  <1>1. ASSUME NEW c \in Calls, Begin(c) PROVE Quiet
    BY <1>1
    DEF Begin, jobVars, sessionVars, Quiet, TypeOK, Guarded, Stages, StagesAgree,
        ArmedIsGuarded, Preparing, Finished
  <1>2. ASSUME NEW c \in Calls, Acquire(c) PROVE Quiet
    BY <1>2
    DEF Acquire, jobVars, sessionVars, Quiet, TypeOK, Guarded, Stages, StagesAgree,
        ArmedIsGuarded, Preparing, Finished
  <1>3. ASSUME NEW c \in Calls, Refuse(c) PROVE Quiet
    BY <1>3
    DEF Refuse, Return, sessionVars, Quiet, TypeOK, Guarded, Stages, StagesAgree,
        ArmedIsGuarded, Preparing, Finished
  <1>4. ASSUME NEW c \in Calls, RefuseAndClear(c) PROVE Quiet
    BY <1>4
    DEF RefuseAndClear, Return, ClearSession, Quiet, TypeOK, Guarded, Stages, StagesAgree,
        ArmedIsGuarded, Preparing, Finished
  <1>5. ASSUME NEW c \in Calls, RunCommand(c) PROVE Quiet
    BY <1>5
    DEF RunCommand, sessionVars, Quiet, TypeOK, Guarded, Stages, StagesAgree,
        ArmedIsGuarded, Preparing, Finished
  <1>6. ASSUME NEW c \in Calls, RunPixelflux(c) PROVE Quiet
    BY <1>6
    DEF RunPixelflux, sessionVars, Quiet, TypeOK, Guarded, Stages, StagesAgree,
        ArmedIsGuarded, Preparing, Finished
  <1>7. ASSUME NEW c \in Calls, NEW d \in Devices, UseCachedSession(c, d) PROVE Quiet
    BY <1>7
    DEF UseCachedSession, lockVars, jobVars, sessionVars, Quiet, TypeOK, Guarded, Stages,
        StagesAgree, ArmedIsGuarded, Preparing, Finished
  <1>8. ASSUME NEW c \in Calls, NEW d \in Devices, EnsureSession(c, d) PROVE Quiet
    BY <1>8
    DEF EnsureSession, InitLockHeld, lockVars, jobVars, Quiet, TypeOK, Guarded, Stages,
        StagesAgree, ArmedIsGuarded, Preparing, Finished
  <1>9. ASSUME NEW c \in Calls, CacheSession(c) PROVE Quiet
    BY <1>9
    DEF CacheSession, lockVars, jobVars, Quiet, TypeOK, Guarded, Stages, StagesAgree,
        ArmedIsGuarded, Preparing, Finished
  <1>10. ASSUME NEW c \in Calls, StartFails(c) PROVE Quiet
    BY <1>10
    DEF StartFails, Return, sessionVars, Quiet, TypeOK, Guarded, Stages, StagesAgree,
        ArmedIsGuarded, Preparing, Finished
  <1>11. ASSUME NEW c \in Calls, StartFallsBack(c) PROVE Quiet
    BY <1>11
    DEF StartFallsBack, lockVars, jobVars, sessionVars, Quiet, TypeOK, Guarded, Stages,
        StagesAgree, ArmedIsGuarded, Preparing, Finished
  <1>12. ASSUME NEW c \in Calls, RunInline(c) PROVE Quiet
    BY <1>12
    DEF RunInline, lockVars, sessionVars, Quiet, TypeOK, Guarded, Stages, StagesAgree,
        ArmedIsGuarded, Preparing, Finished
  <1>13. ASSUME NEW c \in Calls, RunPortalTask(c) PROVE Quiet
    BY <1>13
    DEF RunPortalTask, sessionVars, Quiet, TypeOK, Guarded, Stages, StagesAgree,
        ArmedIsGuarded, Preparing, Finished
  <1>14. ASSUME NEW c \in Calls, PasteRefused(c) PROVE Quiet
    BY <1>14
    DEF PasteRefused, Detached, lockVars, callVars, sessionVars, Quiet, TypeOK, Guarded,
        Stages, StagesAgree, ArmedIsGuarded, Preparing, Finished
  <1>15. ASSUME NEW c \in Calls, TakePortalLock(c) PROVE Quiet
    BY <1>15
    DEF TakePortalLock, callVars, sessionVars, Quiet, TypeOK, Guarded, Stages,
        StagesAgree, ArmedIsGuarded, Preparing, Finished
  <1>16. ASSUME NEW c \in Calls, Checked(c) PROVE Quiet
    BY <1>16
    DEF Checked, lockVars, callVars, sessionVars, Quiet, TypeOK, Guarded, Stages,
        StagesAgree, ArmedIsGuarded, Preparing, Finished
  <1>17. ASSUME NEW c \in Calls, Press(c) PROVE Quiet
    BY <1>17
    DEF Press, lockVars, callVars, sessionVars, Quiet, TypeOK, Guarded, Stages,
        StagesAgree, ArmedIsGuarded, Preparing, Finished
  <1>18. ASSUME NEW c \in Calls, Release(c) PROVE Quiet
    BY <1>18
    DEF Release, lockVars, callVars, sessionVars, Quiet, TypeOK, Guarded, Stages,
        StagesAgree, ArmedIsGuarded, Preparing, Finished
  <1>19. ASSUME NEW c \in Calls, CommandPress(c) PROVE Quiet
    BY <1>19
    DEF CommandPress, lockVars, callVars, sessionVars, Quiet, TypeOK, Guarded, Stages,
        StagesAgree, ArmedIsGuarded, Preparing, Finished
  <1>20. ASSUME NEW c \in Calls, CommandDone(c) PROVE Quiet
    BY <1>20
    DEF CommandDone, lockVars, callVars, sessionVars, Quiet, TypeOK, Guarded, Stages,
        StagesAgree, ArmedIsGuarded, Preparing, Finished
  <1>21. ASSUME NEW c \in Calls, CommandFails(c) PROVE Quiet
    BY <1>21
    DEF CommandFails, lockVars, callVars, sessionVars, Quiet, TypeOK, Guarded, Stages,
        StagesAgree, ArmedIsGuarded, Preparing, Finished
  <1>22. ASSUME NEW c \in Calls, ReceiveOk(c) PROVE Quiet
    BY <1>22
    DEF ReceiveOk, Return, sessionVars, Quiet, TypeOK, Guarded, Stages, StagesAgree,
        ArmedIsGuarded, Preparing, Finished
  <1>23. ASSUME NEW c \in Calls, ReceiveError(c) PROVE Quiet
    BY <1>23
    DEF ReceiveError, Return, ClearSession, sessionVars, Quiet, TypeOK, Guarded, Stages,
        StagesAgree, ArmedIsGuarded, Preparing, Finished
  <1>24. ASSUME NEW c \in Calls, ReceiveRefusal(c) PROVE Quiet
    BY <1>24
    DEF ReceiveRefusal, Return, sessionVars, Quiet, TypeOK, Guarded, Stages, StagesAgree,
        ArmedIsGuarded, Preparing, Finished
  <1>25. ASSUME NEW c \in Calls, PasteFallsBack(c) PROVE Quiet
    <2>1. job[c] = "refused" /\ cleanup[c] = "none"
      BY <1>25 DEF PasteFallsBack, Stages, StagesAgree
    <2> QED
      BY <1>25, <2>1 DEF PasteFallsBack, sessionVars, Quiet, TypeOK, Guarded
  <1>26. ASSUME NEW c \in Calls, DropTaskResult(c) PROVE Quiet
    BY <1>26
    DEF DropTaskResult, Return, sessionVars, Quiet, TypeOK, Guarded, Stages, StagesAgree,
        ArmedIsGuarded, Preparing, Finished
  <1>27. ASSUME NEW c \in Calls, CancelQueued(c) PROVE Quiet
    BY <1>27
    DEF CancelQueued, jobVars, sessionVars, Quiet, TypeOK, Guarded, Stages, StagesAgree,
        ArmedIsGuarded, Preparing, Finished
  <1>28. ASSUME NEW c \in Calls, CancelPreparing(c) PROVE Quiet
    BY <1>28
    DEF CancelPreparing, Return, sessionVars, Quiet, TypeOK, Guarded, Stages, StagesAgree,
        ArmedIsGuarded, Preparing, Finished
  <1>29. ASSUME NEW c \in Calls, CancelAwaiting(c) PROVE Quiet
    BY <1>29
    DEF CancelAwaiting, jobVars, sessionVars, Quiet, TypeOK, Guarded, Stages, StagesAgree,
        ArmedIsGuarded, Preparing, Finished
  <1>30. CASE UNCHANGED vars
    BY <1>30
    DEF vars, lockVars, callVars, jobVars, sessionVars, Quiet, TypeOK
  <1> QED
    BY <1>1, <1>2, <1>3, <1>4, <1>5, <1>6, <1>7, <1>8, <1>9, <1>10, <1>11, <1>12,
       <1>13, <1>14, <1>15, <1>16, <1>17, <1>18, <1>19, <1>20, <1>21, <1>22, <1>23,
       <1>24, <1>25, <1>26, <1>27, <1>28, <1>29, <1>30
    DEF Next, Progress, Prepare, PortalInput, CommandInput, Receive, Cancel, Cleanup,
        Presses, Ends, Opens, Closes

(* The only operation that can have pressed anything on the session of a running one. *)
LEMMA OwnPresses ==
    ASSUME IInv, Stages, ReleaseCovered, NEW c \in Calls, job[c] # "none", sess[c] \in valid
    PROVE  held[sess[c]] \subseteq 1..armed[c]
  <1> SUFFICES ASSUME held[sess[c]] # {} PROVE held[sess[c]] \subseteq 1..armed[c]
    OBVIOUS
  <1>1. PICK x \in Calls : job[x] \in Guarded /\ held[sess[c]] \subseteq 1..armed[x]
    BY DEF ReleaseCovered
  <1>2. x = c
    BY <1>1, SoleOperation DEF Guarded
  <1> QED
    BY <1>1, <1>2

(* What is pressed stays covered by a step that presses nothing more on a valid session
   and lets no covering guard go while something is pressed. *)
LEMMA CoverKept ==
    ASSUME TypeOK, TypeOK', ReleaseCovered,
           \A s \in valid' : held'[s] # {} => s \in valid /\ held'[s] = held[s],
           \A s \in valid', x \in Calls :
               sess[x] = s /\ job[x] \in Guarded /\ held[s] # {} =>
                   sess'[x] = s /\ job'[x] \in Guarded /\ armed[x] <= armed'[x]
    PROVE  ReleaseCovered'
  <1> SUFFICES ASSUME NEW s \in valid', held'[s] # {}
               PROVE  \E x \in Calls : /\ sess'[x] = s /\ job'[x] \in Guarded
                                       /\ held'[s] \subseteq 1..armed'[x]
    BY DEF ReleaseCovered
  <1>1. PICK x \in Calls : /\ sess[x] = s /\ job[x] \in Guarded
                           /\ held[s] \subseteq 1..armed[x]
    BY DEF ReleaseCovered
  <1>2. sess'[x] = s /\ job'[x] \in Guarded /\ armed[x] <= armed'[x]
    BY <1>1
  <1>3. armed[x] \in Nat /\ armed'[x] \in Nat
    BY ConstantsAssumption DEF TypeOK
  <1>4. 1..armed[x] \subseteq 1..armed'[x]
    BY <1>2, <1>3
  <1> QED
    BY <1>1, <1>2, <1>4

(* Every step keeps what is pressed on the list of the guard of a running future. *)
LEMMA CoverStep ==
    ASSUME IInv, Stages, SessionsInv, ReleaseCovered, [Next]_vars
    PROVE  ReleaseCovered'
  <1> USE ConstantsAssumption DEF IInv
  <1>0. TypeOK'
    BY TypeStep
  <1>1. ASSUME NEW c \in Calls, NEW s \in Sessions, StartPointerSession(c, s)
        PROVE  ReleaseCovered'
    <2>1. \A r \in valid' : held'[r] # {} => r \in valid /\ held'[r] = held[r]
      BY <1>1
      DEF StartPointerSession, NewSession, Unreferenced, lockVars, jobVars, TypeOK,
          SessionsInv, ClosedIsUp
    <2>2. \A r \in valid', x \in Calls :
              sess[x] = r /\ job[x] \in Guarded /\ held[r] # {} =>
                  sess'[x] = r /\ job'[x] \in Guarded /\ armed[x] <= armed'[x]
      BY <1>1
      DEF StartPointerSession, NewSession, Unreferenced, lockVars, jobVars, TypeOK,
          Guarded, Stages, StagesAgree, ArmedIsGuarded, Preparing
    <2> QED
      BY <1>0, <2>1, <2>2, CoverKept
  <1>2. ASSUME NEW c \in Calls, NEW s \in Sessions, StartKeyboardSession(c, s)
        PROVE  ReleaseCovered'
    <2>1. \A r \in valid' : held'[r] # {} => r \in valid /\ held'[r] = held[r]
      BY <1>2
      DEF StartKeyboardSession, NewSession, Unreferenced, lockVars, jobVars, TypeOK,
          SessionsInv, ClosedIsUp
    <2>2. \A r \in valid', x \in Calls :
              sess[x] = r /\ job[x] \in Guarded /\ held[r] # {} =>
                  sess'[x] = r /\ job'[x] \in Guarded /\ armed[x] <= armed'[x]
      BY <1>2
      DEF StartKeyboardSession, NewSession, Unreferenced, lockVars, jobVars, TypeOK,
          Guarded, Stages, StagesAgree, ArmedIsGuarded, Preparing
    <2> QED
      BY <1>0, <2>1, <2>2, CoverKept
  <1>3. ASSUME NEW c \in Calls, PressDone(c) PROVE ReleaseCovered'
    <2>1. /\ sess[c] \in live /\ job'[c] \in Guarded /\ UNCHANGED <<sess, valid>>
          /\ \A r \in valid : r # sess[c] => held'[r] = held[r]
          /\ \A x \in Calls : x # c => job'[x] = job[x] /\ armed'[x] = armed[x]
      BY <1>3 DEF PressDone, TypeOK, Guarded, sessionVars, callVars, lockVars
    <2>2. \A x \in Calls : x # c => job[x] = "none"
      BY <1>3, SoleOperation DEF PressDone
    <2>3. sess[c] \in valid => held'[sess[c]] \subseteq 1..armed'[c]
      <3>1. sess[c] \in valid => held[sess[c]] \subseteq 1..armed[c]
        BY <1>3, OwnPresses DEF PressDone
      <3>2. armed[c] \in 1..MaxKeys
        BY <1>3 DEF PressDone, ArmedWhileGuarded, TypeOK
      <3> QED
        BY <1>3, <3>1, <3>2 DEF PressDone, TypeOK
    <2>4. \A s \in valid : held[s] # {} => sess[c] = s
      BY <2>2 DEF ReleaseCovered, Guarded
    <2> QED
      BY <2>1, <2>3, <2>4 DEF ReleaseCovered
  <1>4. ASSUME NEW c \in Calls, ReleaseDone(c) PROVE ReleaseCovered'
    <2>1. /\ sess[c] \in live /\ job'[c] \in Guarded /\ UNCHANGED <<sess, valid>>
          /\ \A r \in valid : r # sess[c] => held'[r] = held[r]
          /\ \A x \in Calls : x # c => job'[x] = job[x] /\ armed'[x] = armed[x]
      BY <1>4 DEF ReleaseDone, TypeOK, Guarded, sessionVars, callVars, lockVars
    <2>2. \A x \in Calls : x # c => job[x] = "none"
      BY <1>4, SoleOperation DEF ReleaseDone
    <2>3. sess[c] \in valid => held'[sess[c]] \subseteq 1..armed'[c]
      <3>1. sess[c] \in valid => held[sess[c]] \subseteq 1..armed[c]
        BY <1>4, OwnPresses DEF ReleaseDone
      <3>2. armed[c] \in 1..MaxKeys
        BY <1>4 DEF ReleaseDone, ArmedWhileGuarded, TypeOK
      <3> QED
        BY <1>4, <3>1, <3>2 DEF ReleaseDone, TypeOK
    <2>4. \A s \in valid : held[s] # {} => sess[c] = s
      BY <2>2 DEF ReleaseCovered, Guarded
    <2> QED
      BY <2>1, <2>3, <2>4 DEF ReleaseCovered
  <1>5. ASSUME NEW c \in Calls, FinishInline(c) PROVE ReleaseCovered'
    <2>4. job[c] # "none" /\ sess[c] \in valid => held[sess[c]] \subseteq 1..armed[c]
      BY OwnPresses
    <2>1. \A r \in valid' : held'[r] # {} => r \in valid /\ held'[r] = held[r]
      BY <1>5
      DEF FinishInline, Return, DropReleaseGuard, sessionVars, TypeOK
    <2>2. \A r \in valid', x \in Calls :
              sess[x] = r /\ job[x] \in Guarded /\ held[r] # {} =>
                  sess'[x] = r /\ job'[x] \in Guarded /\ armed[x] <= armed'[x]
      BY <1>5, <2>4
      DEF FinishInline, Return, DropReleaseGuard, sessionVars, TypeOK, Guarded, Stages,
          StagesAgree, ArmedIsGuarded, Preparing
    <2> QED
      BY <1>0, <2>1, <2>2, CoverKept
  <1>6. ASSUME NEW c \in Calls, FinishTask(c) PROVE ReleaseCovered'
    <2>4. job[c] # "none" /\ sess[c] \in valid => held[sess[c]] \subseteq 1..armed[c]
      BY OwnPresses
    <2>1. \A r \in valid' : held'[r] # {} => r \in valid /\ held'[r] = held[r]
      BY <1>6
      DEF FinishTask, DropReleaseGuard, Detached, callVars, sessionVars, TypeOK
    <2>2. \A r \in valid', x \in Calls :
              sess[x] = r /\ job[x] \in Guarded /\ held[r] # {} =>
                  sess'[x] = r /\ job'[x] \in Guarded /\ armed[x] <= armed'[x]
      BY <1>6, <2>4
      DEF FinishTask, DropReleaseGuard, Detached, callVars, sessionVars, TypeOK,
          Guarded, Stages, StagesAgree, ArmedIsGuarded, Preparing
    <2> QED
      BY <1>0, <2>1, <2>2, CoverKept
  <1>7. ASSUME NEW c \in Calls, FailInline(c) PROVE ReleaseCovered'
    <2>3. /\ \A r \in Sessions \cup {Local} : r # sess[c] => held'[r] = held[r]
          /\ armed[c] = 0 => held' = held
      BY <1>7, LandingEffect DEF FailInline
    <2>4. job[c] # "none" /\ sess[c] \in valid => held[sess[c]] \subseteq 1..armed[c]
      BY OwnPresses
    <2>1. \A r \in valid' : held'[r] # {} => r \in valid /\ held'[r] = held[r]
      BY <1>7, <2>3
      DEF FailInline, Return, DropReleaseGuard, Condemned, TypeOK
    <2>2. \A r \in valid', x \in Calls :
              sess[x] = r /\ job[x] \in Guarded /\ held[r] # {} =>
                  sess'[x] = r /\ job'[x] \in Guarded /\ armed[x] <= armed'[x]
      BY <1>7, <2>4
      DEF FailInline, Return, DropReleaseGuard, Condemned, TypeOK, Guarded, Stages,
          StagesAgree, ArmedIsGuarded, Preparing
    <2> QED
      BY <1>0, <2>1, <2>2, CoverKept
  <1>8. ASSUME NEW c \in Calls, FailTask(c) PROVE ReleaseCovered'
    <2>3. /\ \A r \in Sessions \cup {Local} : r # sess[c] => held'[r] = held[r]
          /\ armed[c] = 0 => held' = held
      BY <1>8, LandingEffect DEF FailTask
    <2>4. job[c] # "none" /\ sess[c] \in valid => held[sess[c]] \subseteq 1..armed[c]
      BY OwnPresses
    <2>1. \A r \in valid' : held'[r] # {} => r \in valid /\ held'[r] = held[r]
      BY <1>8, <2>3
      DEF FailTask, DropReleaseGuard, Condemned, Detached, callVars, TypeOK
    <2>2. \A r \in valid', x \in Calls :
              sess[x] = r /\ job[x] \in Guarded /\ held[r] # {} =>
                  sess'[x] = r /\ job'[x] \in Guarded /\ armed[x] <= armed'[x]
      BY <1>8, <2>4
      DEF FailTask, DropReleaseGuard, Condemned, Detached, callVars, TypeOK, Guarded,
          Stages, StagesAgree, ArmedIsGuarded, Preparing
    <2> QED
      BY <1>0, <2>1, <2>2, CoverKept
  <1>9. ASSUME NEW c \in Calls, CancelInline(c) PROVE ReleaseCovered'
    <2>3. /\ \A r \in Sessions \cup {Local} : r # sess[c] => held'[r] = held[r]
          /\ armed[c] = 0 => held' = held
      BY <1>9, LandingEffect DEF CancelInline
    <2>4. job[c] # "none" /\ sess[c] \in valid => held[sess[c]] \subseteq 1..armed[c]
      BY OwnPresses
    <2>1. \A r \in valid' : held'[r] # {} => r \in valid /\ held'[r] = held[r]
      BY <1>9, <2>3
      DEF CancelInline, Return, DropReleaseGuard, Condemned, TypeOK
    <2>2. \A r \in valid', x \in Calls :
              sess[x] = r /\ job[x] \in Guarded /\ held[r] # {} =>
                  sess'[x] = r /\ job'[x] \in Guarded /\ armed[x] <= armed'[x]
      BY <1>9, <2>4
      DEF CancelInline, Return, DropReleaseGuard, Condemned, TypeOK, Guarded, Stages,
          StagesAgree, ArmedIsGuarded, Preparing
    <2> QED
      BY <1>0, <2>1, <2>2, CoverKept
  <1>10. ASSUME NEW c \in Calls, CleanupRelease(c) PROVE ReleaseCovered'
    <2>1. \A r \in valid' : held'[r] # {} => r \in valid /\ held'[r] = held[r]
      BY <1>10
      DEF CleanupRelease, lockVars, callVars, jobVars, sessionVars, TypeOK
    <2>2. \A r \in valid', x \in Calls :
              sess[x] = r /\ job[x] \in Guarded /\ held[r] # {} =>
                  sess'[x] = r /\ job'[x] \in Guarded /\ armed[x] <= armed'[x]
      BY <1>10
      DEF CleanupRelease, lockVars, callVars, jobVars, sessionVars, TypeOK, Guarded,
          Stages, StagesAgree, ArmedIsGuarded, Preparing
    <2> QED
      BY <1>0, <2>1, <2>2, CoverKept
  <1>11. ASSUME NEW c \in Calls, CleanupClose(c) PROVE ReleaseCovered'
    <2>1. \A r \in valid' : held'[r] # {} => r \in valid /\ held'[r] = held[r]
      BY <1>11
      DEF CleanupClose, callVars, jobVars, TypeOK
    <2>2. \A r \in valid', x \in Calls :
              sess[x] = r /\ job[x] \in Guarded /\ held[r] # {} =>
                  sess'[x] = r /\ job'[x] \in Guarded /\ armed[x] <= armed'[x]
      BY <1>11
      DEF CleanupClose, callVars, jobVars, TypeOK, Guarded, Stages, StagesAgree,
          ArmedIsGuarded, Preparing
    <2> QED
      BY <1>0, <2>1, <2>2, CoverKept
  <1>12. ASSUME NEW s \in Sessions, CloseSession(s) PROVE ReleaseCovered'
    <2>1. \A r \in valid' : held'[r] # {} => r \in valid /\ held'[r] = held[r]
      BY <1>12
      DEF CloseSession, lockVars, callVars, jobVars, TypeOK
    <2>2. \A r \in valid', x \in Calls :
              sess[x] = r /\ job[x] \in Guarded /\ held[r] # {} =>
                  sess'[x] = r /\ job'[x] \in Guarded /\ armed[x] <= armed'[x]
      BY <1>12
      DEF CloseSession, lockVars, callVars, jobVars, TypeOK, Guarded, Stages, StagesAgree,
          ArmedIsGuarded, Preparing
    <2> QED
      BY <1>0, <2>1, <2>2, CoverKept
  <1>13. ASSUME NEW s \in Sessions, Disconnect(s) PROVE ReleaseCovered'
    <2>1. \A r \in valid' : held'[r] # {} => r \in valid /\ held'[r] = held[r]
      BY <1>13
      DEF Disconnect, Unreferenced, lockVars, callVars, jobVars, TypeOK
    <2>2. \A r \in valid', x \in Calls :
              sess[x] = r /\ job[x] \in Guarded /\ held[r] # {} =>
                  sess'[x] = r /\ job'[x] \in Guarded /\ armed[x] <= armed'[x]
      BY <1>13
      DEF Disconnect, Unreferenced, lockVars, callVars, jobVars, TypeOK, Guarded, Stages,
          StagesAgree, ArmedIsGuarded, Preparing
    <2> QED
      BY <1>0, <2>1, <2>2, CoverKept
  <1>14. ASSUME NEW s \in Sessions, Revoke(s) PROVE ReleaseCovered'
    <2>1. \A r \in valid' : held'[r] # {} => r \in valid /\ held'[r] = held[r]
      BY <1>14
      DEF Revoke, lockVars, callVars, jobVars, TypeOK
    <2>2. \A r \in valid', x \in Calls :
              sess[x] = r /\ job[x] \in Guarded /\ held[r] # {} =>
                  sess'[x] = r /\ job'[x] \in Guarded /\ armed[x] <= armed'[x]
      BY <1>14
      DEF Revoke, lockVars, callVars, jobVars, TypeOK, Guarded, Stages, StagesAgree,
          ArmedIsGuarded, Preparing
    <2> QED
      BY <1>0, <2>1, <2>2, CoverKept
  <1>15. CASE Quiet
    BY <1>15, <1>0, CoverKept DEF Quiet, TypeOK, Guarded
  <1> QED
    BY <1>1, <1>2, <1>3, <1>4, <1>5, <1>6, <1>7, <1>8, <1>9, <1>10, <1>11, <1>12,
       <1>13, <1>14, <1>15, StepKinds
    DEF Presses, Ends, Cleanup, Opens, Closes

-----------------------------------------------------------------------------
(* The lock and what is pressed: why the lock passes on only with nothing down. *)

\* A clone kept for a task belongs to a task that runs or has a result to give; an inline
\* future is not finished.
TasksRun ==
    \A c \in Calls :
        /\ <<c, "task">> \in holders => job[c] # "none" /\ pc[c] \in {"awaiting", "idle"}
        /\ pc[c] = "inline" => job[c] \in {"wait", "check"} \cup Guarded

(* The end of a request takes its task's clone along. *)
LEMMA ReturnEndsTask ==
    ASSUME TypeOK, TasksRun, NEW c \in Calls, Return(c)
    PROVE  TasksRun'
  <1>1. \A x \in Calls : <<x, "task">> \in holders' => x # c /\ <<x, "task">> \in holders
    BY DEF Return, CleanupGuard
  <1>2. pc'[c] = "idle" /\ \A x \in Calls : x # c => pc'[x] = pc[x] /\ job'[x] = job[x]
    BY DEF Return, TypeOK
  <1> QED
    BY <1>1, <1>2 DEF TasksRun

(* Every step keeps the tasks and their clones together. *)
LEMMA TaskStep == IInv /\ Stages /\ TasksRun /\ [Next]_vars => TasksRun'
  <1> SUFFICES ASSUME IInv, Stages, TasksRun, [Next]_vars PROVE TasksRun'
    OBVIOUS
  <1> USE DEF IInv
  <1>1. ASSUME NEW c \in Calls, Begin(c) PROVE TasksRun'
    BY <1>1
    DEF Begin, jobVars, sessionVars, TasksRun, Stages, StagesAgree, Preparing, TypeOK,
        Guarded, Finished
  <1>2. ASSUME NEW c \in Calls, Acquire(c) PROVE TasksRun'
    BY <1>2
    DEF Acquire, jobVars, sessionVars, TasksRun, Stages, StagesAgree, Preparing, TypeOK,
        Guarded, Finished, GuardsHeld, Holding, OneOwner
  <1>3. ASSUME NEW c \in Calls, Refuse(c) PROVE TasksRun'
    BY <1>3, ReturnEndsTask DEF Refuse
  <1>4. ASSUME NEW c \in Calls, RefuseAndClear(c) PROVE TasksRun'
    BY <1>4, ReturnEndsTask DEF RefuseAndClear
  <1>5. ASSUME NEW c \in Calls, RunCommand(c) PROVE TasksRun'
    BY <1>5
    DEF RunCommand, sessionVars, TasksRun, Stages, StagesAgree, Preparing, TypeOK,
        Guarded, Finished
  <1>6. ASSUME NEW c \in Calls, RunPixelflux(c) PROVE TasksRun'
    BY <1>6
    DEF RunPixelflux, sessionVars, TasksRun, Stages, StagesAgree, Preparing, TypeOK,
        Guarded, Finished
  <1>7. ASSUME NEW c \in Calls, NEW d \in Devices, UseCachedSession(c, d) PROVE TasksRun'
    BY <1>7
    DEF UseCachedSession, lockVars, jobVars, sessionVars, TasksRun, Stages, StagesAgree,
        Preparing, TypeOK, Guarded, Finished
  <1>8. ASSUME NEW c \in Calls, NEW d \in Devices, EnsureSession(c, d) PROVE TasksRun'
    BY <1>8
    DEF EnsureSession, InitLockHeld, lockVars, jobVars, TasksRun, Stages, StagesAgree,
        Preparing, TypeOK, Guarded, Finished
  <1>9. ASSUME NEW c \in Calls, NEW s \in Sessions, StartPointerSession(c, s)
        PROVE  TasksRun'
    BY <1>9
    DEF StartPointerSession, NewSession, Unreferenced, lockVars, jobVars, TasksRun,
        Stages, StagesAgree, Preparing, TypeOK, Guarded, Finished
  <1>10. ASSUME NEW c \in Calls, NEW s \in Sessions, StartKeyboardSession(c, s)
        PROVE  TasksRun'
    BY <1>10
    DEF StartKeyboardSession, NewSession, Unreferenced, lockVars, jobVars, TasksRun,
        Stages, StagesAgree, Preparing, TypeOK, Guarded, Finished
  <1>11. ASSUME NEW c \in Calls, CacheSession(c) PROVE TasksRun'
    BY <1>11
    DEF CacheSession, lockVars, jobVars, TasksRun, Stages, StagesAgree, Preparing, TypeOK,
        Guarded, Finished
  <1>12. ASSUME NEW c \in Calls, StartFails(c) PROVE TasksRun'
    BY <1>12, ReturnEndsTask DEF StartFails
  <1>13. ASSUME NEW c \in Calls, StartFallsBack(c) PROVE TasksRun'
    BY <1>13
    DEF StartFallsBack, lockVars, jobVars, sessionVars, TasksRun, Stages, StagesAgree,
        Preparing, TypeOK, Guarded, Finished
  <1>14. ASSUME NEW c \in Calls, RunInline(c) PROVE TasksRun'
    BY <1>14
    DEF RunInline, lockVars, sessionVars, TasksRun, Stages, StagesAgree, Preparing,
        TypeOK, Guarded, Finished
  <1>15. ASSUME NEW c \in Calls, RunPortalTask(c) PROVE TasksRun'
    BY <1>15
    DEF RunPortalTask, sessionVars, TasksRun, Stages, StagesAgree, Preparing, TypeOK,
        Guarded, Finished
  <1>16. ASSUME NEW c \in Calls, PasteRefused(c) PROVE TasksRun'
    BY <1>16
    DEF PasteRefused, Detached, lockVars, callVars, sessionVars, TasksRun, Stages,
        StagesAgree, Preparing, TypeOK, Guarded, Finished
  <1>17. ASSUME NEW c \in Calls, TakePortalLock(c) PROVE TasksRun'
    BY <1>17
    DEF TakePortalLock, callVars, sessionVars, TasksRun, Stages, StagesAgree, Preparing,
        TypeOK, Guarded, Finished
  <1>18. ASSUME NEW c \in Calls, Checked(c) PROVE TasksRun'
    BY <1>18
    DEF Checked, lockVars, callVars, sessionVars, TasksRun, Stages, StagesAgree,
        Preparing, TypeOK, Guarded, Finished
  <1>19. ASSUME NEW c \in Calls, Press(c) PROVE TasksRun'
    BY <1>19
    DEF Press, lockVars, callVars, sessionVars, TasksRun, Stages, StagesAgree, Preparing,
        TypeOK, Guarded, Finished
  <1>20. ASSUME NEW c \in Calls, PressDone(c) PROVE TasksRun'
    BY <1>20
    DEF PressDone, lockVars, callVars, sessionVars, TasksRun, Stages, StagesAgree,
        Preparing, TypeOK, Guarded, Finished
  <1>21. ASSUME NEW c \in Calls, Release(c) PROVE TasksRun'
    BY <1>21
    DEF Release, lockVars, callVars, sessionVars, TasksRun, Stages, StagesAgree,
        Preparing, TypeOK, Guarded, Finished
  <1>22. ASSUME NEW c \in Calls, ReleaseDone(c) PROVE TasksRun'
    BY <1>22
    DEF ReleaseDone, lockVars, callVars, sessionVars, TasksRun, Stages, StagesAgree,
        Preparing, TypeOK, Guarded, Finished
  <1>23. ASSUME NEW c \in Calls, FinishInline(c) PROVE TasksRun'
    BY <1>23, ReturnEndsTask DEF FinishInline
  <1>24. ASSUME NEW c \in Calls, FinishTask(c) PROVE TasksRun'
    BY <1>24
    DEF FinishTask, DropReleaseGuard, Detached, callVars, sessionVars, TasksRun, Stages,
        StagesAgree, Preparing, TypeOK, Guarded, Finished
  <1>25. ASSUME NEW c \in Calls, FailInline(c) PROVE TasksRun'
    BY <1>25, ReturnEndsTask DEF FailInline
  <1>26. ASSUME NEW c \in Calls, FailTask(c) PROVE TasksRun'
    BY <1>26
    DEF FailTask, CleanupGuard, DropReleaseGuard, EventLands, Condemned, Detached,
        callVars, TasksRun, Stages, StagesAgree, Preparing, TypeOK, Guarded, Finished
  <1>27. ASSUME NEW c \in Calls, CommandPress(c) PROVE TasksRun'
    BY <1>27
    DEF CommandPress, lockVars, callVars, sessionVars, TasksRun, Stages, StagesAgree,
        Preparing, TypeOK, Guarded, Finished
  <1>28. ASSUME NEW c \in Calls, CommandDone(c) PROVE TasksRun'
    BY <1>28
    DEF CommandDone, lockVars, callVars, sessionVars, TasksRun, Stages, StagesAgree,
        Preparing, TypeOK, Guarded, Finished
  <1>29. ASSUME NEW c \in Calls, CommandFails(c) PROVE TasksRun'
    BY <1>29
    DEF CommandFails, lockVars, callVars, sessionVars, TasksRun, Stages, StagesAgree,
        Preparing, TypeOK, Guarded, Finished
  <1>30. ASSUME NEW c \in Calls, ReceiveOk(c) PROVE TasksRun'
    BY <1>30, ReturnEndsTask DEF ReceiveOk
  <1>31. ASSUME NEW c \in Calls, ReceiveError(c) PROVE TasksRun'
    BY <1>31, ReturnEndsTask DEF ReceiveError
  <1>32. ASSUME NEW c \in Calls, ReceiveRefusal(c) PROVE TasksRun'
    BY <1>32, ReturnEndsTask DEF ReceiveRefusal
  <1>33. ASSUME NEW c \in Calls, PasteFallsBack(c) PROVE TasksRun'
    BY <1>33
    DEF PasteFallsBack, sessionVars, TasksRun, Stages, StagesAgree, Preparing, TypeOK,
        Guarded, Finished
  <1>34. ASSUME NEW c \in Calls, DropTaskResult(c) PROVE TasksRun'
    BY <1>34, ReturnEndsTask DEF DropTaskResult
  <1>35. ASSUME NEW c \in Calls, CancelQueued(c) PROVE TasksRun'
    BY <1>35
    DEF CancelQueued, jobVars, sessionVars, TasksRun, Stages, StagesAgree, Preparing,
        TypeOK, Guarded, Finished
  <1>36. ASSUME NEW c \in Calls, CancelPreparing(c) PROVE TasksRun'
    BY <1>36, ReturnEndsTask DEF CancelPreparing
  <1>37. ASSUME NEW c \in Calls, CancelAwaiting(c) PROVE TasksRun'
    BY <1>37
    DEF CancelAwaiting, jobVars, sessionVars, TasksRun, Stages, StagesAgree, Preparing,
        TypeOK, Guarded, Finished
  <1>38. ASSUME NEW c \in Calls, CancelInline(c) PROVE TasksRun'
    BY <1>38, ReturnEndsTask DEF CancelInline
  <1>39. ASSUME NEW c \in Calls, CleanupRelease(c) PROVE TasksRun'
    BY <1>39
    DEF CleanupRelease, lockVars, callVars, jobVars, sessionVars, TasksRun, Stages,
        StagesAgree, Preparing, TypeOK, Guarded, Finished
  <1>40. ASSUME NEW c \in Calls, CleanupClose(c) PROVE TasksRun'
    BY <1>40
    DEF CleanupClose, callVars, jobVars, TasksRun, Stages, StagesAgree, Preparing, TypeOK,
        Guarded, Finished
  <1>41. ASSUME NEW s \in Sessions, CloseSession(s) PROVE TasksRun'
    BY <1>41
    DEF CloseSession, lockVars, callVars, jobVars, TasksRun, Stages, StagesAgree,
        Preparing, TypeOK, Guarded, Finished
  <1>42. ASSUME NEW s \in Sessions, Disconnect(s) PROVE TasksRun'
    BY <1>42
    DEF Disconnect, Unreferenced, lockVars, callVars, jobVars, TasksRun, Stages,
        StagesAgree, Preparing, TypeOK, Guarded, Finished
  <1>43. ASSUME NEW s \in Sessions, Revoke(s) PROVE TasksRun'
    BY <1>43
    DEF Revoke, lockVars, callVars, jobVars, TasksRun, Stages, StagesAgree, Preparing,
        TypeOK, Guarded, Finished
  <1>44. CASE UNCHANGED vars
    BY <1>44
    DEF vars, lockVars, callVars, jobVars, sessionVars, TasksRun, Stages, StagesAgree,
        Preparing, TypeOK, Guarded, Finished
  <1> QED
    BY <1>1, <1>2, <1>3, <1>4, <1>5, <1>6, <1>7, <1>8, <1>9, <1>10, <1>11, <1>12,
       <1>13, <1>14, <1>15, <1>16, <1>17, <1>18, <1>19, <1>20, <1>21, <1>22, <1>23,
       <1>24, <1>25, <1>26, <1>27, <1>28, <1>29, <1>30, <1>31, <1>32, <1>33, <1>34,
       <1>35, <1>36, <1>37, <1>38, <1>39, <1>40, <1>41, <1>42, <1>43, <1>44
    DEF Next, Progress, Prepare, PortalInput, CommandInput, Receive, Cancel, Cleanup

\* On any session, also one no longer valid, whatever is down will be released by a guard
\* or by a cleanup that still holds the lock; on the local routes, by the command.
HeldByOperation ==
    \A s \in Sessions :
        held[s] # {} =>
            \E c \in Calls :
                /\ sess[c] = s
                /\ \/ job[c] \in Guarded /\ held[s] \subseteq 1..armed[c]
                   \/ cleanup[c] # "none"

HeldByCommand == held[Local] # {} => \E c \in Calls : job[c] = "commandDown"

(* A step that presses nothing and hands guards over to cleanups keeps the holders. *)
LEMMA HolderKept ==
    ASSUME TypeOK, TypeOK', HeldByOperation,
           \A s \in Sessions : held'[s] # {} => held'[s] = held[s],
           \A s \in Sessions, x \in Calls :
               sess[x] = s /\ held'[s] # {} =>
                   /\ cleanup[x] # "none" => sess'[x] = s /\ cleanup'[x] # "none"
                   /\ job[x] \in Guarded =>
                          /\ sess'[x] = s
                          /\ \/ job'[x] \in Guarded /\ armed[x] <= armed'[x]
                             \/ cleanup'[x] # "none"
    PROVE  HeldByOperation'
  <1> SUFFICES ASSUME NEW s \in Sessions, held'[s] # {}
               PROVE  \E x \in Calls : /\ sess'[x] = s
                                       /\ \/ /\ job'[x] \in Guarded
                                             /\ held'[s] \subseteq 1..armed'[x]
                                          \/ cleanup'[x] # "none"
    BY DEF HeldByOperation
  <1>1. PICK x \in Calls : /\ sess[x] = s
                           /\ \/ job[x] \in Guarded /\ held[s] \subseteq 1..armed[x]
                              \/ cleanup[x] # "none"
    BY DEF HeldByOperation
  <1>2. armed[x] \in Nat /\ armed'[x] \in Nat
    BY ConstantsAssumption DEF TypeOK
  <1>3. armed[x] <= armed'[x] => 1..armed[x] \subseteq 1..armed'[x]
    BY <1>2
  <1> QED
    BY <1>1, <1>3

(* What a running operation has not pressed itself, nobody has. *)
LEMMA OwnHolds ==
    ASSUME IInv, Stages, HeldByOperation, NEW c \in Calls,
           job[c] \in {"wait", "check"} \cup Guarded, sess[c] \in Sessions
    PROVE  held[sess[c]] \subseteq 1..armed[c]
  <1> SUFFICES ASSUME held[sess[c]] # {} PROVE held[sess[c]] \subseteq 1..armed[c]
    OBVIOUS
  <1>1. PICK x \in Calls : \/ job[x] \in Guarded /\ held[sess[c]] \subseteq 1..armed[x]
                           \/ cleanup[x] # "none"
    BY DEF HeldByOperation
  <1>2. x = c
    BY <1>1, SoleOperation DEF Guarded
  <1>3. cleanup[c] = "none"
    BY DEF Stages, StagesAgree, Guarded
  <1> QED
    BY <1>1, <1>2, <1>3

(* Unless closing a session can fail, every step keeps a holder for what is down. *)
LEMMA HolderStep ==
    ASSUME "close" \notin Faults, IInv, Stages, TasksRun, SessionsInv, HeldByOperation,
           [Next]_vars
    PROVE  HeldByOperation'
  <1> USE ConstantsAssumption DEF IInv
  <1>0. TypeOK'
    BY TypeStep
  <1>1. ASSUME NEW c \in Calls, NEW s \in Sessions, StartPointerSession(c, s)
        PROVE  HeldByOperation'
    <2>1. \A r \in Sessions : held'[r] # {} => held'[r] = held[r]
      BY <1>1
      DEF StartPointerSession, NewSession, Unreferenced, lockVars, jobVars, TypeOK,
          SessionsInv, ClosedIsUp
    <2>2. \A r \in Sessions, x \in Calls :
              sess[x] = r /\ held'[r] # {} =>
                   /\ cleanup[x] # "none" => sess'[x] = r /\ cleanup'[x] # "none"
                   /\ job[x] \in Guarded =>
                          /\ sess'[x] = r
                          /\ \/ job'[x] \in Guarded /\ armed[x] <= armed'[x]
                             \/ cleanup'[x] # "none"
      BY <1>1
      DEF StartPointerSession, NewSession, Unreferenced, lockVars, jobVars, TypeOK,
          Guarded, Stages, StagesAgree, ArmedIsGuarded, Preparing
    <2> QED
      BY <1>0, <2>1, <2>2, HolderKept
  <1>2. ASSUME NEW c \in Calls, NEW s \in Sessions, StartKeyboardSession(c, s)
        PROVE  HeldByOperation'
    <2>1. \A r \in Sessions : held'[r] # {} => held'[r] = held[r]
      BY <1>2
      DEF StartKeyboardSession, NewSession, Unreferenced, lockVars, jobVars, TypeOK,
          SessionsInv, ClosedIsUp
    <2>2. \A r \in Sessions, x \in Calls :
              sess[x] = r /\ held'[r] # {} =>
                   /\ cleanup[x] # "none" => sess'[x] = r /\ cleanup'[x] # "none"
                   /\ job[x] \in Guarded =>
                          /\ sess'[x] = r
                          /\ \/ job'[x] \in Guarded /\ armed[x] <= armed'[x]
                             \/ cleanup'[x] # "none"
      BY <1>2
      DEF StartKeyboardSession, NewSession, Unreferenced, lockVars, jobVars, TypeOK,
          Guarded, Stages, StagesAgree, ArmedIsGuarded, Preparing
    <2> QED
      BY <1>0, <2>1, <2>2, HolderKept
  <1>3. ASSUME NEW c \in Calls, PressDone(c) PROVE HeldByOperation'
    <2>1. /\ sess[c] \in Sessions /\ job'[c] \in Guarded /\ UNCHANGED <<sess, cleanup>>
          /\ \A r \in Sessions : r # sess[c] => held'[r] = held[r]
          /\ \A x \in Calls : x # c => job'[x] = job[x] /\ armed'[x] = armed[x]
      BY <1>3 DEF PressDone, TypeOK, Guarded, sessionVars, callVars, lockVars
    <2>2. /\ cleanup[c] = "none"
          /\ \A x \in Calls : x # c => job[x] = "none" /\ cleanup[x] = "none"
      BY <1>3, SoleOperation DEF PressDone, Stages, StagesAgree
    <2>3. held'[sess[c]] \subseteq 1..armed'[c]
      <3>1. held[sess[c]] \subseteq 1..armed[c]
        BY <1>3, <2>1, OwnHolds DEF PressDone, Guarded
      <3>2. armed[c] \in 1..MaxKeys
        BY <1>3 DEF PressDone, ArmedWhileGuarded, TypeOK
      <3> QED
        BY <1>3, <2>1, <3>1, <3>2 DEF PressDone, TypeOK
    <2>4. \A s \in Sessions : held[s] # {} => sess[c] = s
      BY <2>2 DEF HeldByOperation, Guarded
    <2> QED
      BY <2>1, <2>3, <2>4 DEF HeldByOperation
  <1>4. ASSUME NEW c \in Calls, ReleaseDone(c) PROVE HeldByOperation'
    <2>1. /\ sess[c] \in Sessions /\ job'[c] \in Guarded /\ UNCHANGED <<sess, cleanup>>
          /\ \A r \in Sessions : r # sess[c] => held'[r] = held[r]
          /\ \A x \in Calls : x # c => job'[x] = job[x] /\ armed'[x] = armed[x]
      BY <1>4 DEF ReleaseDone, TypeOK, Guarded, sessionVars, callVars, lockVars
    <2>2. /\ cleanup[c] = "none"
          /\ \A x \in Calls : x # c => job[x] = "none" /\ cleanup[x] = "none"
      BY <1>4, SoleOperation DEF ReleaseDone, Stages, StagesAgree
    <2>3. held'[sess[c]] \subseteq 1..armed'[c]
      <3>1. held[sess[c]] \subseteq 1..armed[c]
        BY <1>4, <2>1, OwnHolds DEF ReleaseDone, Guarded
      <3>2. armed[c] \in 1..MaxKeys
        BY <1>4 DEF ReleaseDone, ArmedWhileGuarded, TypeOK
      <3> QED
        BY <1>4, <2>1, <3>1, <3>2 DEF ReleaseDone, TypeOK
    <2>4. \A s \in Sessions : held[s] # {} => sess[c] = s
      BY <2>2 DEF HeldByOperation, Guarded
    <2> QED
      BY <2>1, <2>3, <2>4 DEF HeldByOperation
  <1>5. ASSUME NEW c \in Calls, FinishInline(c) PROVE HeldByOperation'
    <2>4. sess[c] \in Sessions => held[sess[c]] = {}
      BY <1>5, OwnHolds DEF FinishInline, Guarded
    <2>1. \A r \in Sessions : held'[r] # {} => held'[r] = held[r]
      BY <1>5
      DEF FinishInline, Return, DropReleaseGuard, sessionVars, TypeOK
    <2>2. \A r \in Sessions, x \in Calls :
              sess[x] = r /\ held'[r] # {} =>
                   /\ cleanup[x] # "none" => sess'[x] = r /\ cleanup'[x] # "none"
                   /\ job[x] \in Guarded =>
                          /\ sess'[x] = r
                          /\ \/ job'[x] \in Guarded /\ armed[x] <= armed'[x]
                             \/ cleanup'[x] # "none"
      BY <1>5, <2>4
      DEF FinishInline, Return, DropReleaseGuard, sessionVars, TypeOK, Guarded, Stages,
          StagesAgree, ArmedIsGuarded, Preparing
    <2> QED
      BY <1>0, <2>1, <2>2, HolderKept
  <1>6. ASSUME NEW c \in Calls, FinishTask(c) PROVE HeldByOperation'
    <2>4. sess[c] \in Sessions => held[sess[c]] = {}
      BY <1>6, OwnHolds DEF FinishTask, Guarded
    <2>1. \A r \in Sessions : held'[r] # {} => held'[r] = held[r]
      BY <1>6
      DEF FinishTask, DropReleaseGuard, Detached, callVars, sessionVars, TypeOK
    <2>2. \A r \in Sessions, x \in Calls :
              sess[x] = r /\ held'[r] # {} =>
                   /\ cleanup[x] # "none" => sess'[x] = r /\ cleanup'[x] # "none"
                   /\ job[x] \in Guarded =>
                          /\ sess'[x] = r
                          /\ \/ job'[x] \in Guarded /\ armed[x] <= armed'[x]
                             \/ cleanup'[x] # "none"
      BY <1>6, <2>4
      DEF FinishTask, DropReleaseGuard, Detached, callVars, sessionVars, TypeOK,
          Guarded, Stages, StagesAgree, ArmedIsGuarded, Preparing
    <2> QED
      BY <1>0, <2>1, <2>2, HolderKept
  <1>7. ASSUME NEW c \in Calls, FailInline(c) PROVE HeldByOperation'
    <2>1. /\ \A r \in Sessions \cup {Local} : r # sess[c] => held'[r] = held[r]
          /\ armed[c] = 0 => held' = held
      BY <1>7, LandingEffect DEF FailInline
    <2>2. sess[c] \in Sessions /\ armed[c] = 0 => held[sess[c]] = {}
      <3>1. job[c] \in {"wait", "check"} \cup Guarded
        BY <1>7 DEF FailInline, TasksRun
      <3> QED
        BY <3>1, OwnHolds
    <2>3. \A x \in Calls : x # c => job[x] = "none" /\ cleanup[x] = "none"
      BY <1>7, SoleOperation DEF FailInline, Holding, Guarded
    <2>4. \A s \in Sessions : held[s] # {} => sess[c] = s
      BY <2>3 DEF HeldByOperation, Guarded
    <2>5. armed[c] # 0 => cleanup'[c] # "none" /\ sess'[c] = sess[c]
      BY <1>7 DEF FailInline, Return, DropReleaseGuard, TypeOK
    <2>6. ASSUME NEW s \in Sessions, held'[s] # {}
          PROVE  sess[c] = s /\ armed[c] # 0
      BY <2>1, <2>2, <2>4, <2>6
    <2> QED
      BY <2>5, <2>6 DEF HeldByOperation
  <1>8. ASSUME NEW c \in Calls, FailTask(c) PROVE HeldByOperation'
    <2>1. /\ \A r \in Sessions \cup {Local} : r # sess[c] => held'[r] = held[r]
          /\ armed[c] = 0 => held' = held
      BY <1>8, LandingEffect DEF FailTask
    <2>2. sess[c] \in Sessions /\ armed[c] = 0 => held[sess[c]] = {}
      <3>1. job[c] \in {"wait", "check"} \cup Guarded
        BY <1>8 DEF FailTask, TasksRun
      <3> QED
        BY <3>1, OwnHolds
    <2>3. \A x \in Calls : x # c => job[x] = "none" /\ cleanup[x] = "none"
      BY <1>8, SoleOperation DEF FailTask, Holding, Guarded
    <2>4. \A s \in Sessions : held[s] # {} => sess[c] = s
      BY <2>3 DEF HeldByOperation, Guarded
    <2>5. armed[c] # 0 => cleanup'[c] # "none" /\ sess'[c] = sess[c]
      BY <1>8 DEF FailTask, DropReleaseGuard, Detached, TypeOK
    <2>6. ASSUME NEW s \in Sessions, held'[s] # {}
          PROVE  sess[c] = s /\ armed[c] # 0
      BY <2>1, <2>2, <2>4, <2>6
    <2> QED
      BY <2>5, <2>6 DEF HeldByOperation
  <1>9. ASSUME NEW c \in Calls, CancelInline(c) PROVE HeldByOperation'
    <2>1. /\ \A r \in Sessions \cup {Local} : r # sess[c] => held'[r] = held[r]
          /\ armed[c] = 0 => held' = held
      BY <1>9, LandingEffect DEF CancelInline
    <2>2. sess[c] \in Sessions /\ armed[c] = 0 => held[sess[c]] = {}
      <3>1. job[c] \in {"wait", "check"} \cup Guarded
        BY <1>9 DEF CancelInline, TasksRun
      <3> QED
        BY <3>1, OwnHolds
    <2>3. \A x \in Calls : x # c => job[x] = "none" /\ cleanup[x] = "none"
      BY <1>9, SoleOperation DEF CancelInline, Holding, Guarded
    <2>4. \A s \in Sessions : held[s] # {} => sess[c] = s
      BY <2>3 DEF HeldByOperation, Guarded
    <2>5. armed[c] # 0 => cleanup'[c] # "none" /\ sess'[c] = sess[c]
      BY <1>9 DEF CancelInline, Return, DropReleaseGuard, TypeOK
    <2>6. ASSUME NEW s \in Sessions, held'[s] # {}
          PROVE  sess[c] = s /\ armed[c] # 0
      BY <2>1, <2>2, <2>4, <2>6
    <2> QED
      BY <2>5, <2>6 DEF HeldByOperation
  <1>10. ASSUME NEW c \in Calls, CleanupRelease(c) PROVE HeldByOperation'
    <2>1. \A r \in Sessions : held'[r] # {} => held'[r] = held[r]
      BY <1>10
      DEF CleanupRelease, lockVars, callVars, jobVars, sessionVars, TypeOK
    <2>2. \A r \in Sessions, x \in Calls :
              sess[x] = r /\ held'[r] # {} =>
                   /\ cleanup[x] # "none" => sess'[x] = r /\ cleanup'[x] # "none"
                   /\ job[x] \in Guarded =>
                          /\ sess'[x] = r
                          /\ \/ job'[x] \in Guarded /\ armed[x] <= armed'[x]
                             \/ cleanup'[x] # "none"
      BY <1>10
      DEF CleanupRelease, lockVars, callVars, jobVars, sessionVars, TypeOK, Guarded,
          Stages, StagesAgree, ArmedIsGuarded, Preparing
    <2> QED
      BY <1>0, <2>1, <2>2, HolderKept
  <1>11. ASSUME NEW c \in Calls, CleanupClose(c) PROVE HeldByOperation'
    <2>1. \A r \in Sessions : held'[r] # {} => held'[r] = held[r]
      BY <1>11
      DEF CleanupClose, callVars, jobVars, TypeOK
    <2>2. \A r \in Sessions, x \in Calls :
              sess[x] = r /\ held'[r] # {} =>
                   /\ cleanup[x] # "none" => sess'[x] = r /\ cleanup'[x] # "none"
                   /\ job[x] \in Guarded =>
                          /\ sess'[x] = r
                          /\ \/ job'[x] \in Guarded /\ armed[x] <= armed'[x]
                             \/ cleanup'[x] # "none"
      BY <1>11
      DEF CleanupClose, callVars, jobVars, TypeOK, Guarded, Stages, StagesAgree,
          ArmedIsGuarded, Preparing
    <2> QED
      BY <1>0, <2>1, <2>2, HolderKept
  <1>12. ASSUME NEW s \in Sessions, CloseSession(s) PROVE HeldByOperation'
    <2>1. \A r \in Sessions : held'[r] # {} => held'[r] = held[r]
      BY <1>12
      DEF CloseSession, lockVars, callVars, jobVars, TypeOK
    <2>2. \A r \in Sessions, x \in Calls :
              sess[x] = r /\ held'[r] # {} =>
                   /\ cleanup[x] # "none" => sess'[x] = r /\ cleanup'[x] # "none"
                   /\ job[x] \in Guarded =>
                          /\ sess'[x] = r
                          /\ \/ job'[x] \in Guarded /\ armed[x] <= armed'[x]
                             \/ cleanup'[x] # "none"
      BY <1>12
      DEF CloseSession, lockVars, callVars, jobVars, TypeOK, Guarded, Stages, StagesAgree,
          ArmedIsGuarded, Preparing
    <2> QED
      BY <1>0, <2>1, <2>2, HolderKept
  <1>13. ASSUME NEW s \in Sessions, Disconnect(s) PROVE HeldByOperation'
    <2>1. \A r \in Sessions : held'[r] # {} => held'[r] = held[r]
      BY <1>13
      DEF Disconnect, Unreferenced, lockVars, callVars, jobVars, TypeOK
    <2>2. \A r \in Sessions, x \in Calls :
              sess[x] = r /\ held'[r] # {} =>
                   /\ cleanup[x] # "none" => sess'[x] = r /\ cleanup'[x] # "none"
                   /\ job[x] \in Guarded =>
                          /\ sess'[x] = r
                          /\ \/ job'[x] \in Guarded /\ armed[x] <= armed'[x]
                             \/ cleanup'[x] # "none"
      BY <1>13
      DEF Disconnect, Unreferenced, lockVars, callVars, jobVars, TypeOK, Guarded, Stages,
          StagesAgree, ArmedIsGuarded, Preparing
    <2> QED
      BY <1>0, <2>1, <2>2, HolderKept
  <1>14. ASSUME NEW s \in Sessions, Revoke(s) PROVE HeldByOperation'
    <2>1. \A r \in Sessions : held'[r] # {} => held'[r] = held[r]
      BY <1>14
      DEF Revoke, lockVars, callVars, jobVars, TypeOK
    <2>2. \A r \in Sessions, x \in Calls :
              sess[x] = r /\ held'[r] # {} =>
                   /\ cleanup[x] # "none" => sess'[x] = r /\ cleanup'[x] # "none"
                   /\ job[x] \in Guarded =>
                          /\ sess'[x] = r
                          /\ \/ job'[x] \in Guarded /\ armed[x] <= armed'[x]
                             \/ cleanup'[x] # "none"
      BY <1>14
      DEF Revoke, lockVars, callVars, jobVars, TypeOK, Guarded, Stages, StagesAgree,
          ArmedIsGuarded, Preparing
    <2> QED
      BY <1>0, <2>1, <2>2, HolderKept
  <1>15. CASE Quiet
    <2>1. \A r \in Sessions : held'[r] # {} => held'[r] = held[r]
      BY <1>15 DEF Quiet
    <2> QED
      BY <1>15, <1>0, <2>1, HolderKept DEF Quiet
  <1> QED
    BY <1>1, <1>2, <1>3, <1>4, <1>5, <1>6, <1>7, <1>8, <1>9, <1>10, <1>11, <1>12,
       <1>13, <1>14, <1>15, StepKinds
    DEF Presses, Ends, Cleanup, Opens, Closes

(* Unless a command can lose its release, a local control is down only while it runs. *)
LEMMA CommandStep ==
    ASSUME "command" \notin Faults, IInv, Stages, TasksRun, HeldByCommand, [Next]_vars
    PROVE  HeldByCommand'
  <1> USE ConstantsAssumption DEF IInv
  <1>1. ASSUME NEW c \in Calls, Begin(c) PROVE HeldByCommand'
    BY <1>1
    DEF Begin, jobVars, sessionVars, HeldByCommand, TypeOK, Guarded, Stages, StagesAgree,
        Preparing, TasksRun, Finished, Sending
  <1>2. ASSUME NEW c \in Calls, Acquire(c) PROVE HeldByCommand'
    BY <1>2
    DEF Acquire, jobVars, sessionVars, HeldByCommand, TypeOK, Guarded, Stages,
        StagesAgree, Preparing, TasksRun, Finished, Sending
  <1>3. ASSUME NEW c \in Calls, Refuse(c) PROVE HeldByCommand'
    BY <1>3
    DEF Refuse, Return, sessionVars, HeldByCommand, TypeOK, Guarded, Stages, StagesAgree,
        Preparing, TasksRun, Finished, Sending
  <1>4. ASSUME NEW c \in Calls, RefuseAndClear(c) PROVE HeldByCommand'
    BY <1>4
    DEF RefuseAndClear, Return, ClearSession, HeldByCommand, TypeOK, Guarded, Stages,
        StagesAgree, Preparing, TasksRun, Finished, Sending
  <1>5. ASSUME NEW c \in Calls, RunCommand(c) PROVE HeldByCommand'
    BY <1>5
    DEF RunCommand, sessionVars, HeldByCommand, TypeOK, Guarded, Stages, StagesAgree,
        Preparing, TasksRun, Finished, Sending
  <1>6. ASSUME NEW c \in Calls, RunPixelflux(c) PROVE HeldByCommand'
    BY <1>6
    DEF RunPixelflux, sessionVars, HeldByCommand, TypeOK, Guarded, Stages, StagesAgree,
        Preparing, TasksRun, Finished, Sending
  <1>7. ASSUME NEW c \in Calls, NEW d \in Devices, UseCachedSession(c, d)
        PROVE  HeldByCommand'
    BY <1>7
    DEF UseCachedSession, lockVars, jobVars, sessionVars, HeldByCommand, TypeOK,
        Guarded, Stages, StagesAgree, Preparing, TasksRun, Finished, Sending
  <1>8. ASSUME NEW c \in Calls, NEW d \in Devices, EnsureSession(c, d)
        PROVE  HeldByCommand'
    BY <1>8
    DEF EnsureSession, InitLockHeld, lockVars, jobVars, HeldByCommand, TypeOK, Guarded,
        Stages, StagesAgree, Preparing, TasksRun, Finished, Sending
  <1>9. ASSUME NEW c \in Calls, NEW s \in Sessions, StartPointerSession(c, s)
        PROVE  HeldByCommand'
    BY <1>9
    DEF StartPointerSession, NewSession, Unreferenced, lockVars, jobVars, HeldByCommand,
        TypeOK, Guarded, Stages, StagesAgree, Preparing, TasksRun, Finished, Sending
  <1>10. ASSUME NEW c \in Calls, NEW s \in Sessions, StartKeyboardSession(c, s)
        PROVE  HeldByCommand'
    BY <1>10
    DEF StartKeyboardSession, NewSession, Unreferenced, lockVars, jobVars,
        HeldByCommand, TypeOK, Guarded, Stages, StagesAgree, Preparing, TasksRun,
        Finished, Sending
  <1>11. ASSUME NEW c \in Calls, CacheSession(c) PROVE HeldByCommand'
    BY <1>11
    DEF CacheSession, lockVars, jobVars, HeldByCommand, TypeOK, Guarded, Stages,
        StagesAgree, Preparing, TasksRun, Finished, Sending
  <1>12. ASSUME NEW c \in Calls, StartFails(c) PROVE HeldByCommand'
    BY <1>12
    DEF StartFails, Return, sessionVars, HeldByCommand, TypeOK, Guarded, Stages,
        StagesAgree, Preparing, TasksRun, Finished, Sending
  <1>13. ASSUME NEW c \in Calls, StartFallsBack(c) PROVE HeldByCommand'
    BY <1>13
    DEF StartFallsBack, lockVars, jobVars, sessionVars, HeldByCommand, TypeOK, Guarded,
        Stages, StagesAgree, Preparing, TasksRun, Finished, Sending
  <1>14. ASSUME NEW c \in Calls, RunInline(c) PROVE HeldByCommand'
    BY <1>14
    DEF RunInline, lockVars, sessionVars, HeldByCommand, TypeOK, Guarded, Stages,
        StagesAgree, Preparing, TasksRun, Finished, Sending
  <1>15. ASSUME NEW c \in Calls, RunPortalTask(c) PROVE HeldByCommand'
    BY <1>15
    DEF RunPortalTask, sessionVars, HeldByCommand, TypeOK, Guarded, Stages, StagesAgree,
        Preparing, TasksRun, Finished, Sending
  <1>16. ASSUME NEW c \in Calls, PasteRefused(c) PROVE HeldByCommand'
    BY <1>16
    DEF PasteRefused, Detached, lockVars, callVars, sessionVars, HeldByCommand, TypeOK,
        Guarded, Stages, StagesAgree, Preparing, TasksRun, Finished, Sending
  <1>17. ASSUME NEW c \in Calls, TakePortalLock(c) PROVE HeldByCommand'
    BY <1>17
    DEF TakePortalLock, callVars, sessionVars, HeldByCommand, TypeOK, Guarded, Stages,
        StagesAgree, Preparing, TasksRun, Finished, Sending
  <1>18. ASSUME NEW c \in Calls, Checked(c) PROVE HeldByCommand'
    BY <1>18
    DEF Checked, lockVars, callVars, sessionVars, HeldByCommand, TypeOK, Guarded, Stages,
        StagesAgree, Preparing, TasksRun, Finished, Sending
  <1>19. ASSUME NEW c \in Calls, Press(c) PROVE HeldByCommand'
    BY <1>19
    DEF Press, lockVars, callVars, sessionVars, HeldByCommand, TypeOK, Guarded, Stages,
        StagesAgree, Preparing, TasksRun, Finished, Sending
  <1>20. ASSUME NEW c \in Calls, PressDone(c) PROVE HeldByCommand'
    BY <1>20
    DEF PressDone, lockVars, callVars, sessionVars, HeldByCommand, TypeOK, Guarded,
        Stages, StagesAgree, Preparing, TasksRun, Finished, Sending
  <1>21. ASSUME NEW c \in Calls, Release(c) PROVE HeldByCommand'
    BY <1>21
    DEF Release, lockVars, callVars, sessionVars, HeldByCommand, TypeOK, Guarded, Stages,
        StagesAgree, Preparing, TasksRun, Finished, Sending
  <1>22. ASSUME NEW c \in Calls, ReleaseDone(c) PROVE HeldByCommand'
    BY <1>22
    DEF ReleaseDone, lockVars, callVars, sessionVars, HeldByCommand, TypeOK, Guarded,
        Stages, StagesAgree, Preparing, TasksRun, Finished, Sending
  <1>23. ASSUME NEW c \in Calls, FinishInline(c) PROVE HeldByCommand'
    BY <1>23
    DEF FinishInline, Return, DropReleaseGuard, sessionVars, HeldByCommand, TypeOK,
        Guarded, Stages, StagesAgree, Preparing, TasksRun, Finished, Sending
  <1>24. ASSUME NEW c \in Calls, FinishTask(c) PROVE HeldByCommand'
    BY <1>24
    DEF FinishTask, DropReleaseGuard, Detached, callVars, sessionVars, HeldByCommand,
        TypeOK, Guarded, Stages, StagesAgree, Preparing, TasksRun, Finished, Sending
  <1>25. ASSUME NEW c \in Calls, FailInline(c) PROVE HeldByCommand'
    <2>1. held'[Local] = held[Local]
      BY <1>25, LandingEffect DEF FailInline, TypeOK
    <2>2. job[c] # "commandDown" /\ \A x \in Calls : x # c => job'[x] = job[x]
      BY <1>25 DEF FailInline, Return, TasksRun, Guarded, TypeOK
    <2> QED
      BY <2>1, <2>2 DEF HeldByCommand
  <1>26. ASSUME NEW c \in Calls, FailTask(c) PROVE HeldByCommand'
    <2>1. held'[Local] = held[Local]
      BY <1>26, LandingEffect DEF FailTask, TypeOK
    <2>2. job[c] # "commandDown" /\ \A x \in Calls : x # c => job'[x] = job[x]
      BY <1>26 DEF FailTask, Return, TasksRun, Guarded, TypeOK
    <2> QED
      BY <2>1, <2>2 DEF HeldByCommand
  <1>27. ASSUME NEW c \in Calls, CommandPress(c) PROVE HeldByCommand'
    BY <1>27 DEF CommandPress, HeldByCommand, TypeOK
  <1>28. ASSUME NEW c \in Calls, CommandDone(c) PROVE HeldByCommand'
    BY <1>28 DEF CommandDone, HeldByCommand, TypeOK
  <1>29. ASSUME NEW c \in Calls, CommandFails(c) PROVE HeldByCommand'
    BY <1>29 DEF CommandFails, HeldByCommand, TypeOK
  <1>30. ASSUME NEW c \in Calls, ReceiveOk(c) PROVE HeldByCommand'
    BY <1>30
    DEF ReceiveOk, Return, sessionVars, HeldByCommand, TypeOK, Guarded, Stages,
        StagesAgree, Preparing, TasksRun, Finished, Sending
  <1>31. ASSUME NEW c \in Calls, ReceiveError(c) PROVE HeldByCommand'
    BY <1>31
    DEF ReceiveError, Return, ClearSession, sessionVars, HeldByCommand, TypeOK, Guarded,
        Stages, StagesAgree, Preparing, TasksRun, Finished, Sending
  <1>32. ASSUME NEW c \in Calls, ReceiveRefusal(c) PROVE HeldByCommand'
    BY <1>32
    DEF ReceiveRefusal, Return, sessionVars, HeldByCommand, TypeOK, Guarded, Stages,
        StagesAgree, Preparing, TasksRun, Finished, Sending
  <1>33. ASSUME NEW c \in Calls, PasteFallsBack(c) PROVE HeldByCommand'
    BY <1>33
    DEF PasteFallsBack, sessionVars, HeldByCommand, TypeOK, Guarded, Stages, StagesAgree,
        Preparing, TasksRun, Finished, Sending
  <1>34. ASSUME NEW c \in Calls, DropTaskResult(c) PROVE HeldByCommand'
    BY <1>34
    DEF DropTaskResult, Return, sessionVars, HeldByCommand, TypeOK, Guarded, Stages,
        StagesAgree, Preparing, TasksRun, Finished, Sending
  <1>35. ASSUME NEW c \in Calls, CancelQueued(c) PROVE HeldByCommand'
    BY <1>35
    DEF CancelQueued, jobVars, sessionVars, HeldByCommand, TypeOK, Guarded, Stages,
        StagesAgree, Preparing, TasksRun, Finished, Sending
  <1>36. ASSUME NEW c \in Calls, CancelPreparing(c) PROVE HeldByCommand'
    BY <1>36
    DEF CancelPreparing, Return, sessionVars, HeldByCommand, TypeOK, Guarded, Stages,
        StagesAgree, Preparing, TasksRun, Finished, Sending
  <1>37. ASSUME NEW c \in Calls, CancelAwaiting(c) PROVE HeldByCommand'
    BY <1>37
    DEF CancelAwaiting, jobVars, sessionVars, HeldByCommand, TypeOK, Guarded, Stages,
        StagesAgree, Preparing, TasksRun, Finished, Sending
  <1>38. ASSUME NEW c \in Calls, CancelInline(c) PROVE HeldByCommand'
    <2>1. held'[Local] = held[Local]
      BY <1>38, LandingEffect DEF CancelInline, TypeOK
    <2>2. job[c] # "commandDown" /\ \A x \in Calls : x # c => job'[x] = job[x]
      BY <1>38 DEF CancelInline, Return, TasksRun, Guarded, TypeOK
    <2> QED
      BY <2>1, <2>2 DEF HeldByCommand
  <1>39. ASSUME NEW c \in Calls, CleanupRelease(c) PROVE HeldByCommand'
    BY <1>39
    DEF CleanupRelease, lockVars, callVars, jobVars, sessionVars, HeldByCommand, TypeOK,
        Guarded, Stages, StagesAgree, Preparing, TasksRun, Finished, Sending
  <1>40. ASSUME NEW c \in Calls, CleanupClose(c) PROVE HeldByCommand'
    BY <1>40
    DEF CleanupClose, callVars, jobVars, HeldByCommand, TypeOK, Guarded, Stages,
        StagesAgree, Preparing, TasksRun, Finished, Sending
  <1>41. ASSUME NEW s \in Sessions, CloseSession(s) PROVE HeldByCommand'
    BY <1>41
    DEF CloseSession, lockVars, callVars, jobVars, HeldByCommand, TypeOK, Guarded, Stages,
        StagesAgree, Preparing, TasksRun, Finished, Sending
  <1>42. ASSUME NEW s \in Sessions, Disconnect(s) PROVE HeldByCommand'
    BY <1>42
    DEF Disconnect, Unreferenced, lockVars, callVars, jobVars, HeldByCommand, TypeOK,
        Guarded, Stages, StagesAgree, Preparing, TasksRun, Finished, Sending
  <1>43. ASSUME NEW s \in Sessions, Revoke(s) PROVE HeldByCommand'
    BY <1>43
    DEF Revoke, lockVars, callVars, jobVars, HeldByCommand, TypeOK, Guarded, Stages,
        StagesAgree, Preparing, TasksRun, Finished, Sending
  <1>44. CASE UNCHANGED vars
    BY <1>44
    DEF vars, lockVars, callVars, jobVars, sessionVars, HeldByCommand, TypeOK, Guarded,
        Stages, StagesAgree, Preparing, TasksRun, Finished, Sending
  <1> QED
    BY <1>1, <1>2, <1>3, <1>4, <1>5, <1>6, <1>7, <1>8, <1>9, <1>10, <1>11, <1>12,
       <1>13, <1>14, <1>15, <1>16, <1>17, <1>18, <1>19, <1>20, <1>21, <1>22, <1>23,
       <1>24, <1>25, <1>26, <1>27, <1>28, <1>29, <1>30, <1>31, <1>32, <1>33, <1>34,
       <1>35, <1>36, <1>37, <1>38, <1>39, <1>40, <1>41, <1>42, <1>43, <1>44
    DEF Next, Progress, Prepare, PortalInput, CommandInput, Receive, Cancel, Cleanup

(* The lock is taken with nothing held; every other step leaves it, if held at all, with
   clones of the same call. *)
LEMMA LockPasses ==
    ASSUME IInv, [Next]_vars
    PROVE  \/ holders = {} /\ UNCHANGED held
           \/ \A h \in holders' : \E g \in holders : g[1] = h[1]
  <1> DEFINE Goal == \/ holders = {} /\ UNCHANGED held
                    \/ \A h \in holders' : \E g \in holders : g[1] = h[1]
  <1> USE DEF IInv
  <1>1. ASSUME NEW c \in Calls, Begin(c) PROVE Goal
    BY <1>1 DEF Begin
  <1>2. ASSUME NEW c \in Calls, Acquire(c) PROVE Goal
    BY <1>2 DEF Acquire
  <1>3. ASSUME NEW c \in Calls, Refuse(c) PROVE Goal
    <2>1. Owns(c)
      BY <1>3, OwnsWhenActive DEF Refuse, Holding, Guarded, Finished
    <2>2. \A h \in holders' : h \in holders \/ h[1] = c
      BY <1>3 DEF Refuse, Return, CleanupGuard
    <2> QED
      BY <2>1, <2>2 DEF Owns
  <1>4. ASSUME NEW c \in Calls, RefuseAndClear(c) PROVE Goal
    <2>1. Owns(c)
      BY <1>4, OwnsWhenActive DEF RefuseAndClear, Holding, Guarded, Finished
    <2>2. \A h \in holders' : h \in holders \/ h[1] = c
      BY <1>4 DEF RefuseAndClear, Return, CleanupGuard
    <2> QED
      BY <2>1, <2>2 DEF Owns
  <1>5. ASSUME NEW c \in Calls, RunCommand(c) PROVE Goal
    <2>1. Owns(c)
      BY <1>5, OwnsWhenActive DEF RunCommand, Holding, Guarded, Finished
    <2>2. \A h \in holders' : h \in holders \/ h[1] = c
      BY <1>5 DEF RunCommand
    <2> QED
      BY <2>1, <2>2 DEF Owns
  <1>6. ASSUME NEW c \in Calls, RunPixelflux(c) PROVE Goal
    <2>1. Owns(c)
      BY <1>6, OwnsWhenActive DEF RunPixelflux, Holding, Guarded, Finished
    <2>2. \A h \in holders' : h \in holders \/ h[1] = c
      BY <1>6 DEF RunPixelflux
    <2> QED
      BY <2>1, <2>2 DEF Owns
  <1>7. ASSUME NEW c \in Calls, NEW d \in Devices, UseCachedSession(c, d) PROVE Goal
    BY <1>7 DEF UseCachedSession, lockVars
  <1>8. ASSUME NEW c \in Calls, NEW d \in Devices, EnsureSession(c, d) PROVE Goal
    BY <1>8 DEF EnsureSession, lockVars
  <1>9. ASSUME NEW c \in Calls, NEW s \in Sessions, StartPointerSession(c, s) PROVE Goal
    BY <1>9 DEF StartPointerSession, NewSession, lockVars
  <1>10. ASSUME NEW c \in Calls, NEW s \in Sessions, StartKeyboardSession(c, s) PROVE Goal
    BY <1>10 DEF StartKeyboardSession, NewSession, lockVars
  <1>11. ASSUME NEW c \in Calls, CacheSession(c) PROVE Goal
    BY <1>11 DEF CacheSession, lockVars
  <1>12. ASSUME NEW c \in Calls, StartFails(c) PROVE Goal
    <2>1. Owns(c)
      BY <1>12, OwnsWhenActive DEF StartFails, Holding, Guarded, Finished
    <2>2. \A h \in holders' : h \in holders \/ h[1] = c
      BY <1>12 DEF StartFails, Return, CleanupGuard
    <2> QED
      BY <2>1, <2>2 DEF Owns
  <1>13. ASSUME NEW c \in Calls, StartFallsBack(c) PROVE Goal
    BY <1>13 DEF StartFallsBack, lockVars
  <1>14. ASSUME NEW c \in Calls, RunInline(c) PROVE Goal
    BY <1>14 DEF RunInline, lockVars
  <1>15. ASSUME NEW c \in Calls, RunPortalTask(c) PROVE Goal
    <2>1. Owns(c)
      BY <1>15, OwnsWhenActive DEF RunPortalTask, Holding, Guarded, Finished
    <2>2. \A h \in holders' : h \in holders \/ h[1] = c
      BY <1>15 DEF RunPortalTask
    <2> QED
      BY <2>1, <2>2 DEF Owns
  <1>16. ASSUME NEW c \in Calls, PasteRefused(c) PROVE Goal
    BY <1>16 DEF PasteRefused, lockVars
  <1>17. ASSUME NEW c \in Calls, TakePortalLock(c) PROVE Goal
    BY <1>17 DEF TakePortalLock
  <1>18. ASSUME NEW c \in Calls, Checked(c) PROVE Goal
    BY <1>18 DEF Checked, lockVars
  <1>19. ASSUME NEW c \in Calls, Press(c) PROVE Goal
    BY <1>19 DEF Press, lockVars
  <1>20. ASSUME NEW c \in Calls, PressDone(c) PROVE Goal
    BY <1>20 DEF PressDone, lockVars
  <1>21. ASSUME NEW c \in Calls, Release(c) PROVE Goal
    BY <1>21 DEF Release, lockVars
  <1>22. ASSUME NEW c \in Calls, ReleaseDone(c) PROVE Goal
    BY <1>22 DEF ReleaseDone, lockVars
  <1>23. ASSUME NEW c \in Calls, FinishInline(c) PROVE Goal
    <2>1. Owns(c)
      BY <1>23, OwnsWhenActive DEF FinishInline, Holding, Guarded, Finished
    <2>2. \A h \in holders' : h \in holders \/ h[1] = c
      BY <1>23 DEF FinishInline, Return, CleanupGuard
    <2> QED
      BY <2>1, <2>2 DEF Owns
  <1>24. ASSUME NEW c \in Calls, FinishTask(c) PROVE Goal
    BY <1>24 DEF FinishTask
  <1>25. ASSUME NEW c \in Calls, FailInline(c) PROVE Goal
    <2>1. Owns(c)
      BY <1>25, OwnsWhenActive DEF FailInline, Holding, Guarded, Finished
    <2>2. \A h \in holders' : h \in holders \/ h[1] = c
      BY <1>25 DEF FailInline, Return, CleanupGuard
    <2> QED
      BY <2>1, <2>2 DEF Owns
  <1>26. ASSUME NEW c \in Calls, FailTask(c) PROVE Goal
    <2>1. Owns(c)
      BY <1>26, OwnsWhenActive DEF FailTask, Holding, Guarded, Finished
    <2>2. \A h \in holders' : h \in holders \/ h[1] = c
      BY <1>26 DEF FailTask, CleanupGuard
    <2> QED
      BY <2>1, <2>2 DEF Owns
  <1>27. ASSUME NEW c \in Calls, CommandPress(c) PROVE Goal
    BY <1>27 DEF CommandPress, lockVars
  <1>28. ASSUME NEW c \in Calls, CommandDone(c) PROVE Goal
    BY <1>28 DEF CommandDone, lockVars
  <1>29. ASSUME NEW c \in Calls, CommandFails(c) PROVE Goal
    BY <1>29 DEF CommandFails, lockVars
  <1>30. ASSUME NEW c \in Calls, ReceiveOk(c) PROVE Goal
    <2>1. Owns(c)
      BY <1>30, OwnsWhenActive DEF ReceiveOk, Holding, Guarded, Finished
    <2>2. \A h \in holders' : h \in holders \/ h[1] = c
      BY <1>30 DEF ReceiveOk, Return, CleanupGuard
    <2> QED
      BY <2>1, <2>2 DEF Owns
  <1>31. ASSUME NEW c \in Calls, ReceiveError(c) PROVE Goal
    <2>1. Owns(c)
      BY <1>31, OwnsWhenActive DEF ReceiveError, Holding, Guarded, Finished
    <2>2. \A h \in holders' : h \in holders \/ h[1] = c
      BY <1>31 DEF ReceiveError, Return, CleanupGuard
    <2> QED
      BY <2>1, <2>2 DEF Owns
  <1>32. ASSUME NEW c \in Calls, ReceiveRefusal(c) PROVE Goal
    <2>1. Owns(c)
      BY <1>32, OwnsWhenActive DEF ReceiveRefusal, Holding, Guarded, Finished
    <2>2. \A h \in holders' : h \in holders \/ h[1] = c
      BY <1>32 DEF ReceiveRefusal, Return, CleanupGuard
    <2> QED
      BY <2>1, <2>2 DEF Owns
  <1>33. ASSUME NEW c \in Calls, PasteFallsBack(c) PROVE Goal
    <2>1. Owns(c)
      BY <1>33, OwnsWhenActive DEF PasteFallsBack, Holding, Guarded, Finished
    <2>2. \A h \in holders' : h \in holders \/ h[1] = c
      BY <1>33 DEF PasteFallsBack
    <2> QED
      BY <2>1, <2>2 DEF Owns
  <1>34. ASSUME NEW c \in Calls, DropTaskResult(c) PROVE Goal
    <2>1. Owns(c)
      BY <1>34, OwnsWhenActive DEF DropTaskResult, Holding, Guarded, Finished
    <2>2. \A h \in holders' : h \in holders \/ h[1] = c
      BY <1>34 DEF DropTaskResult, Return, CleanupGuard
    <2> QED
      BY <2>1, <2>2 DEF Owns
  <1>35. ASSUME NEW c \in Calls, CancelQueued(c) PROVE Goal
    BY <1>35 DEF CancelQueued
  <1>36. ASSUME NEW c \in Calls, CancelPreparing(c) PROVE Goal
    <2>1. Owns(c)
      BY <1>36, OwnsWhenActive DEF CancelPreparing, Holding, Guarded, Finished
    <2>2. \A h \in holders' : h \in holders \/ h[1] = c
      BY <1>36 DEF CancelPreparing, Return, CleanupGuard
    <2> QED
      BY <2>1, <2>2 DEF Owns
  <1>37. ASSUME NEW c \in Calls, CancelAwaiting(c) PROVE Goal
    BY <1>37 DEF CancelAwaiting
  <1>38. ASSUME NEW c \in Calls, CancelInline(c) PROVE Goal
    <2>1. Owns(c)
      BY <1>38, OwnsWhenActive DEF CancelInline, Holding, Guarded, Finished
    <2>2. \A h \in holders' : h \in holders \/ h[1] = c
      BY <1>38 DEF CancelInline, Return, CleanupGuard
    <2> QED
      BY <2>1, <2>2 DEF Owns
  <1>39. ASSUME NEW c \in Calls, CleanupRelease(c) PROVE Goal
    BY <1>39 DEF CleanupRelease, lockVars
  <1>40. ASSUME NEW c \in Calls, CleanupClose(c) PROVE Goal
    BY <1>40 DEF CleanupClose
  <1>41. ASSUME NEW s \in Sessions, CloseSession(s) PROVE Goal
    BY <1>41 DEF CloseSession, lockVars
  <1>42. ASSUME NEW s \in Sessions, Disconnect(s) PROVE Goal
    BY <1>42 DEF Disconnect, lockVars
  <1>43. ASSUME NEW s \in Sessions, Revoke(s) PROVE Goal
    BY <1>43 DEF Revoke, lockVars
  <1>44. CASE UNCHANGED vars
    BY <1>44
    DEF vars, lockVars
  <1> QED
    BY <1>1, <1>2, <1>3, <1>4, <1>5, <1>6, <1>7, <1>8, <1>9, <1>10, <1>11, <1>12,
       <1>13, <1>14, <1>15, <1>16, <1>17, <1>18, <1>19, <1>20, <1>21, <1>22, <1>23,
       <1>24, <1>25, <1>26, <1>27, <1>28, <1>29, <1>30, <1>31, <1>32, <1>33, <1>34,
       <1>35, <1>36, <1>37, <1>38, <1>39, <1>40, <1>41, <1>42, <1>43, <1>44
    DEF Next, Progress, Prepare, PortalInput, CommandInput, Receive, Cancel, Cleanup

SafeInv == IInv /\ Stages /\ TasksRun /\ SessionsInv /\ ReleaseCovered

(* Initially nothing runs and no session exists. *)
LEMMA InitSafe == Init => SafeInv /\ HeldByOperation /\ HeldByCommand
  <1> SUFFICES ASSUME Init PROVE SafeInv /\ HeldByOperation /\ HeldByCommand
    OBVIOUS
  <1>1. IInv
    BY InitIInv
  <1>2. Stages /\ TasksRun
    BY ConstantsAssumption DEF Init, Stages, ArmedIsGuarded, StagesAgree, TasksRun, Guarded
  <1>3. SessionsInv /\ ReleaseCovered
    BY DEF Init, SessionsInv, CleanupCondemns, ClosingIsInvalid, ClosedIsUp, ValidIsLive,
           ClosingUnused, ReleaseCovered
  <1>4. HeldByOperation /\ HeldByCommand
    BY DEF Init, HeldByOperation, HeldByCommand
  <1> QED
    BY <1>1, <1>2, <1>3, <1>4 DEF SafeInv

(* The stages, the tasks, the sessions and what covers the pressed controls agree in every
   reachable state. *)
THEOREM SafeInvariance == Spec => []SafeInv
  <1>1. Init => SafeInv
    BY InitSafe
  <1>2. SafeInv /\ [Next]_vars => SafeInv'
    BY TypeStep, GuardStep, StageStep, TaskStep, SessionStep, CoverStep DEF SafeInv, IInv
  <1> QED
    BY <1>1, <1>2, PTL DEF Spec

(* Whatever is pressed on a usable session is on the list of a running release guard, and no
   session is closed under its user or taken from the cache once it is closed: for any
   number of calls and sessions, any cancellation and any fault. *)
THEOREM SessionsStaySound == Spec => []SessionsAreSound
  <1>1. SafeInv => SessionsAreSound
    <2> SUFFICES ASSUME SafeInv PROVE NoDeadSession
      BY DEF SessionsAreSound, SafeInv
    <2>1. \A s \in closing : \A c \in Calls : sess[c] = s => job[c] \notin Guarded
      BY DEF SafeInv, SessionsInv, ClosingUnused
    <2>2. ASSUME NEW d \in Devices, cache[d] \in valid
          PROVE  /\ cache[d] \in live \/ "revoke" \in Faults
                 /\ cache[d] \notin closing
                 /\ \A c \in Calls : cleanup[c] # "none" => sess[c] # cache[d]
      BY <2>2
      DEF SafeInv, SessionsInv, ValidIsLive, ClosingIsInvalid, CleanupCondemns
    <2> QED
      BY <2>1, <2>2 DEF NoDeadSession
  <1> QED
    BY SafeInvariance, <1>1, PTL

(* InputIsSound: one sender at a time, and sound sessions. *)
THEOREM InputStaysSound == Spec => []InputIsSound
  <1>1. OneSender /\ SessionsAreSound => InputIsSound
    BY DEF InputIsSound
  <1> QED
    BY InputIsExclusive, SessionsStaySound, <1>1, PTL

HeldInv == SafeInv /\ HeldByOperation /\ HeldByCommand

\* The owner, as ExclusiveInput sees it.
OwnerKnown ==
    /\ holders = {} => Owner = None /\ Down = {}
    /\ holders # {} => Owner \in Calls /\ \A h \in holders : h[1] = Owner

(* With nobody holding the lock everything is up, and otherwise its owner is the call that
   every clone belongs to. *)
LEMMA OwnerIsHolder == HeldInv => OwnerKnown
  <1> SUFFICES ASSUME HeldInv PROVE OwnerKnown
    OBVIOUS
  <1> USE DEF HeldInv, SafeInv
  <1>1. CASE holders = {}
    <2>1. \A c \in Calls : job[c] = "none" /\ cleanup[c] = "none"
      BY <1>1, OwnsWhenActive DEF IInv, Owns
    <2>2. \A r \in Sessions \cup {Local} : held[r] = {}
      BY <2>1 DEF HeldByOperation, HeldByCommand, Guarded
    <2> QED
      BY <1>1, <2>2 DEF OwnerKnown, Owner, Down
  <1>2. CASE holders # {}
    <2> DEFINE g == CHOOSE h \in holders : TRUE
    <2>1. Owner = g[1] /\ g \in holders
      BY <1>2 DEF Owner
    <2> HIDE DEF g
    <2>2. g[1] \in Calls
      BY <2>1 DEF IInv, TypeOK
    <2>3. \A h \in holders : h[1] = g[1]
      BY <2>1 DEF IInv, OneOwner
    <2> QED
      BY <1>2, <2>1, <2>2, <2>3 DEF OwnerKnown
  <1> QED
    BY <1>1, <1>2

(* The input lock implements ExclusiveInput: one owner at a time, who starts with nothing
   pressed and leaves nothing pressed.  It needs sessions that can be closed and commands
   that do not lose their release; events, releases and sessions may fail otherwise. *)
THEOREM LockIsExclusive ==
    ASSUME "close" \notin Faults, "command" \notin Faults
    PROVE  Spec => ImplementsExclusiveInput
  <1>1. Init => HeldInv
    BY InitSafe DEF HeldInv
  <1>2. HeldInv /\ [Next]_vars => HeldInv'
    BY TypeStep, GuardStep, StageStep, TaskStep, SessionStep, CoverStep, HolderStep,
       CommandStep
    DEF HeldInv, SafeInv, IInv
  <1>3. HeldInv' => OwnerKnown'
    BY OwnerIsHolder, PTL
  <1>4. Init => Exclusive!Init
    BY <1>1, OwnerIsHolder DEF Init, OwnerKnown, Exclusive!Init
  <1>5. HeldInv /\ HeldInv' /\ [Next]_vars => [Exclusive!Next]_<<Owner, Down>>
    <2> SUFFICES ASSUME HeldInv, HeldInv', [Next]_vars
                 PROVE  [Exclusive!Next]_<<Owner, Down>>
      OBVIOUS
    <2>1. OwnerKnown
      BY OwnerIsHolder
    <2>2. OwnerKnown'
      BY <1>3
    <2>3. Down' \in SUBSET ((Sessions \cup {Local}) \X Keys)
      BY DEF Down
    <2>4. \/ holders = {} /\ UNCHANGED held
          \/ \A h \in holders' : \E g \in holders : g[1] = h[1]
      BY LockPasses DEF HeldInv, SafeInv
    <2>5. CASE holders = {} /\ holders' = {}
      BY <2>1, <2>2, <2>5 DEF OwnerKnown
    <2>6. CASE holders = {} /\ holders' # {}
      <3>1. Down' = Down
        BY <2>4, <2>6 DEF Down
      <3>2. Exclusive!Begin(Owner')
        BY <2>1, <2>6, <3>1 DEF OwnerKnown, Exclusive!Begin
      <3> QED
        BY <2>2, <2>6, <3>2 DEF OwnerKnown, Exclusive!Next
    <2>7. CASE holders # {} /\ holders' = {}
      <3>1. Exclusive!End(Owner)
        BY <2>2, <2>7 DEF OwnerKnown, Exclusive!End
      <3> QED
        BY <2>1, <2>7, <3>1 DEF OwnerKnown, Exclusive!Next
    <2>8. CASE holders # {} /\ holders' # {}
      <3>1. Owner' = Owner
        BY <2>1, <2>2, <2>4, <2>8 DEF OwnerKnown
      <3>2. Exclusive!Act(Owner)
        BY <2>3, <3>1 DEF Exclusive!Act
      <3> QED
        BY <2>1, <2>8, <3>2 DEF OwnerKnown, Exclusive!Next
    <2> QED
      BY <2>5, <2>6, <2>7, <2>8
  <1> QED
    BY <1>1, <1>2, <1>4, <1>5, PTL DEF Spec, ImplementsExclusiveInput, Exclusive!Spec

-----------------------------------------------------------------------------
(*************************** Points and elements *****************************)

Below == {p \in Nat \X Nat : p[1] < p[2]}

LEMMA BelowWF == IsWellFoundedOn(Below, Nat)
  <1>1. OpToRel(<, Nat) = Below
    BY Zenon DEF OpToRel, Below
  <1> QED
    BY <1>1, NatLessThanWellFounded, Zenon

(* A set of natural numbers that is not empty has a least one. *)
LEMMA LeastOf ==
    ASSUME NEW T \in SUBSET Nat, T # {}
    PROVE  \E x \in T : \A y \in T : x <= y
  <1>1. PICK x \in T : \A y \in T : ~ (<<y, x>> \in Below)
    BY BelowWF, WFMin
  <1>2. ASSUME NEW y \in T
        PROVE  x <= y
    <2>1. <<y, x>> \in Nat \X Nat
      OBVIOUS
    <2>2. ~(<<y, x>>[1] < <<y, x>>[2])
      BY <1>1, <2>1 DEF Below
    <2> QED
      BY <2>2
  <1> QED
    BY <1>2, <1>1

(* Bounded integers have a least and a greatest one, which Min and Max name. *)
LEMMA BoundedEnds ==
    ASSUME NEW B \in Nat, NEW S \in SUBSET ((-B)..B), S # {}
    PROVE  /\ Min(S) \in Int /\ Max(S) \in Int
           /\ \A x \in S : Min(S) <= x /\ x <= Max(S)
  <1> DEFINE Raised == {x + B : x \in S}
             Flipped == {B - x : x \in S}
  <1>1. Raised \in SUBSET Nat /\ Raised # {} /\ Flipped \in SUBSET Nat /\ Flipped # {}
    <2>1. \A x \in S : x + B \in Nat /\ B - x \in Nat
      OBVIOUS
    <2> QED
      BY <2>1
  <1>2. \A x \in S : x \in Int /\ x + B \in Raised /\ B - x \in Flipped
    OBVIOUS
  <1>3. \E x \in S : \A y \in S : x <= y
    <2>1. PICK u \in Raised : \A v \in Raised : u <= v
      <3> HIDE DEF Raised
      <3> QED
        BY <1>1, LeastOf
    <2>2. PICK x \in S : u = x + B
      BY <2>1
    <2>3. ASSUME NEW y \in S
          PROVE  x <= y
      <3>1. x + B <= y + B
        BY <2>1, <2>2, <1>2
      <3> QED
        BY <3>1, <1>2
    <2> QED
      BY <2>3
  <1>4. \E x \in S : \A y \in S : x >= y
    <2>1. PICK u \in Flipped : \A v \in Flipped : u <= v
      <3> HIDE DEF Flipped
      <3> QED
        BY <1>1, LeastOf
    <2>2. PICK x \in S : u = B - x
      BY <2>1
    <2>3. ASSUME NEW y \in S
          PROVE  x >= y
      <3>1. B - x <= B - y
        BY <2>1, <2>2, <1>2
      <3> QED
        BY <3>1, <1>2
    <2> QED
      BY <2>3
  <1>5. Min(S) \in S /\ \A y \in S : Min(S) <= y
    BY <1>3 DEF Min
  <1>6. Max(S) \in S /\ \A y \in S : Max(S) >= y
    BY <1>4 DEF Max
  <1> QED
    BY <1>2, <1>5, <1>6

(* The larger and the smaller of two. *)
LEMMA MaxOfTwo == ASSUME NEW a \in Int, NEW b \in Int
                  PROVE  Max({a, b}) = (IF a >= b THEN a ELSE b) /\ Min({a, b}) = (IF a <= b THEN a ELSE b)
  BY DEF Max, Min

(* What a quotient says, for any divisor above 0. *)
LEMMA Quotient ==
    ASSUME NEW a \in Int, NEW b \in Int, b > 0
    PROVE  /\ a \div b \in Int
           /\ b * (a \div b) <= a
           /\ a < b * (a \div b) + b
  OBVIOUS

(* The one member of a set that has one. *)
LEMMA TheOneIs ==
    ASSUME NEW S, IsFiniteSet(S), TheOne(S) # Absent
    PROVE  S = {TheOne(S)}
  <1>1. Cardinality(S) = 1 /\ TheOne(S) = CHOOSE p \in S : TRUE
    BY DEF TheOne
  <1>2. PICK x : S = {x}
    BY <1>1, FS_Singleton
  <1> QED
    BY <1>1, <1>2

(* The pixel of a point, sent to a device of the size of the picture, comes back to the
   point; below scale 1, to it or to the one after it. *)
LEMMA PixelReturns ==
    ASSUME NEW U \in Int, NEW size \in Int, NEW s \in Int, s >= 1,
           NEW q \in Int, NEW P \in Int, 2 * size = U * s, 0 <= P, P < size,
           P = (2 * q * size + U) \div (2 * U)
    PROVE  /\ (P * U) \div size \in Int
           /\ (P * U) \div size - q \in IF s >= 2 THEN 0..0 ELSE 0..1
  <1> DEFINE h == (P * U) \div size
  <1>1. size > 0 /\ U > 0
    OBVIOUS
  <1>2. /\ (2 * U) * P <= 2 * q * size + U
        /\ 2 * q * size + U < (2 * U) * P + 2 * U
    BY <1>1, Quotient
  <1>3. 2 * q * size = U * (q * s)
    OBVIOUS
  <1>4. q * s <= 2 * P /\ 2 * P <= q * s + 1
    <2> DEFINE k == q * s
    <2>k. k \in Int
      OBVIOUS
    <2>a. 2 * q * size = U * k
      BY <1>3
    <2> HIDE DEF k
    <2>0. /\ (2 * U) * P = U * (2 * P)
          /\ U * (k + 1) = U * k + U
          /\ U * (2 * P + 2) = U * (2 * P) + 2 * U
      <3>1. (2 * U) * P = U * (2 * P)
        OBVIOUS
      <3>2. U * (k + 1) = U * k + U
        BY <2>k
      <3>3. U * (2 * P + 2) = U * (2 * P) + 2 * U
        OBVIOUS
      <3> QED
        BY <3>1, <3>2, <3>3
    <2>1. U * (2 * P) <= U * (k + 1)
      BY <1>2, <2>a, <2>0, <2>k
    <2>2. U * (k + 1) < U * (2 * P + 2)
      BY <1>2, <2>a, <2>0, <2>k
    <2>3. 2 * P <= k + 1 /\ k + 1 < 2 * P + 2
      BY <2>1, <2>2, <1>1, <2>k
    <2>4. k <= 2 * P
      BY <2>3, <2>k
    <2> QED
      BY <2>3, <2>4 DEF k
  <1>5. h \in Int /\ size * h <= P * U /\ P * U < size * h + size
    <2>1. P * U \in Int
      OBVIOUS
    <2> QED
      BY <1>1, <2>1, Quotient
  <1>h. (P * U) \div size = h
    OBVIOUS
  <1> HIDE DEF h
  <1>6. s * h <= 2 * P /\ 2 * P < s * h + s
    <2>1. U * (s * h) <= U * (2 * P)
      BY <1>5
    <2>2. U * (2 * P) < U * (s * h + s)
      BY <1>5
    <2> QED
      BY <2>1, <2>2, <1>1, <1>5
  <1>7. q <= h
    <2>1. s * q < s * (h + 1)
      BY <1>4, <1>6, <1>5
    <2> QED
      BY <2>1, <1>5
  <1>8. s * (h - q) <= 1
    BY <1>4, <1>6, <1>5
  <1>9. h - q <= 1 /\ (s >= 2 => h - q <= 0)
    BY <1>8, <1>7, <1>5
  <1> QED
    BY <1>5, <1>7, <1>9, <1>h

(* On a picture that is nearly the desktop at a scale, it comes back within half a pixel, and
   to no point before it if the picture is the desktop at the scale exactly. *)
LEMMA PixelNear ==
    ASSUME NEW U \in Int, NEW size \in Int, NEW s \in Int, NEW m \in Int, s >= 1, m >= 1, U >= 1,
           NEW q \in Int, NEW P \in Int, 50 * (U * m - 2 * size) <= U, 0 <= P, P < size,
           P = (2 * q * size + U) \div (2 * U), NEW h, h = (P * U) \div size, NEW d, d = h - q
    PROVE  /\ h \in Int /\ d \in -2..1
           /\ 2 * d * size <= U /\ 2 * (-1 - d) * size < U
           /\ 2 * size = U * s => d >= 0
  <1> DEFINE n == P * U
             k == q * size
  <1>1. size > 0 /\ n \in Int /\ k \in Int
    OBVIOUS
  <1>2. 2 * n <= 2 * k + U /\ 2 * k - U < 2 * n
    <2>1. /\ (2 * U) * P <= 2 * q * size + U
          /\ 2 * q * size + U < (2 * U) * P + 2 * U
      <3> DEFINE a == 2 * q * size + U
                 b == 2 * U
      <3>1. a \in Int /\ b \in Int /\ b > 0 /\ P = a \div b
        OBVIOUS
      <3> HIDE DEF a, b
      <3>2. b * P <= a /\ a < b * P + b
        BY <3>1, Quotient
      <3> QED
        BY <3>2 DEF a, b
    <2>2. (2 * U) * P = 2 * n /\ 2 * q * size = 2 * k
      OBVIOUS
    <2> HIDE DEF n, k
    <2> QED
      BY <1>1, <2>1, <2>2
  <1>3. h \in Int /\ size * h <= n /\ n < size * h + size
    <2>1. h = n \div size
      OBVIOUS
    <2> HIDE DEF n
    <2> QED
      BY <1>1, <2>1, Quotient
  <1>e. ASSUME 2 * size = U * s PROVE d >= 0
    <2>1. (P * U) \div size - q \in IF s >= 2 THEN 0..0 ELSE 0..1
      BY <1>e, PixelReturns
    <2> QED
      BY <2>1, <1>3
  <1> DEFINE g == size * d
  <1>4. d \in Int /\ g \in Int /\ size * h = k + g
    <2> QED
      BY <1>1, <1>3
  <1>5. 2 * d * size = 2 * g /\ 2 * (-1 - d) * size = -(2 * size) - 2 * g
    <2>1. d \in Int
      BY <1>4
    <2> QED
      BY <2>1
  <1> HIDE DEF n, k
  <1>6. 2 * g <= U /\ -(2 * size) - 2 * g < U
    <2> HIDE DEF g
    <2> QED
      BY <1>1, <1>2, <1>3, <1>4
  <1>7. 49 * U <= 100 * size
    <2>1. U <= U * m
      OBVIOUS
    <2>2. U * m \in Int
      OBVIOUS
    <2> QED
      BY <2>1, <2>2
  <1>8. d <= 1
    <2>1. CASE d >= 2
      <3>1. 2 * size <= g
        <4> QED
          BY <1>1, <1>4, <2>1
      <3> HIDE DEF g
      <3> QED
        BY <1>1, <1>4, <1>6, <1>7, <3>1
    <2> QED
      BY <1>4, <2>1
  <1>9. d >= -2
    <2>1. CASE d <= -3
      <3>1. g <= -(3 * size)
        <4> QED
          BY <1>1, <1>4, <2>1
      <3> HIDE DEF g
      <3> QED
        BY <1>1, <1>4, <1>6, <1>7, <3>1
    <2> QED
      BY <1>4, <2>1
  <1>10. d \in -2..1 /\ 2 * d * size <= U /\ 2 * (-1 - d) * size < U
    <2>1. d \in -2..1
      <3> QED
        BY <1>4, <1>8, <1>9
    <2> HIDE DEF g
    <2> QED
      BY <2>1, <1>5, <1>6
  <1> QED
    BY <1>3, <1>e, <1>10

-----------------------------------------------------------------------------
Windows == [frame : Rectangles, client : Rectangles, shown : BOOLEAN, plain : BOOLEAN]
AllWindows == [KwinWindows -> Placements \cup {Absent}]

(* The tree holds what its toolkit told of one window. *)
TreeFits ==
    /\ tree.owner \in KwinWindows /\ tree.toolkit \in {"local", "client", "frame"}
    /\ tree.told \in Rectangles
    /\ tree.point \in Pairs /\ tree.spot \in Pairs /\ tree.offset \in Pairs
    /\ tree.pid \in {Absent, ProcessOf[tree.owner]}
    /\ tree.toolkit = "local" => tree.point = tree.offset /\ \A i \in Axes : tree.told.at[i] = 0
    /\ tree.toolkit # "local" => tree.point = tree.spot
    /\ tree.toolkit = "client" => tree.spot = Plus(tree.told.at, tree.offset)

(* The point that was found for the click, while nothing has changed since. *)
InOwner(p) ==
    \E w \in Open : /\ ProcessOf[w] = ProcessOf[tree.owner] /\ elem.id \in {Absent, w}
                    /\ wins[w].shown /\ Inside(p, Around(wins[w].frame))

Returned(i) ==
    LET box == Box(Rects(Shown(desktop)))
    IN  box.at[i] + (elem.pixel[i] * box.size[i]) \div elem.size[i]

Lands == \A i \in Axes : /\ Returned(i) \in Int /\ Returned(i) - elem.logical[i] \in Slack(i)
                         /\ 0 \in Slack(i)

Aims ==
    /\ elem.logical \in Pairs /\ InOwner(elem.logical)
    /\ StillMeant => elem.logical = Plus(wins[tree.owner].client.at, tree.offset)
    /\ Lands

IsElem ==
    elem = [at |-> elem.at, global |-> elem.global, focus |-> elem.focus, id |-> elem.id,
            pid |-> elem.pid, point |-> elem.point, windows |-> elem.windows,
            front |-> elem.front, outputs |-> elem.outputs, since |-> elem.since,
            logical |-> elem.logical, pixel |-> elem.pixel, size |-> elem.size,
            hit |-> elem.hit, answer |-> elem.answer]

Aimed == {"ready", "device", "portal"}
Asked == {"map"} \cup Aimed

Counts == [monitors : Nat, window : Nat]
Past(c) == c \in Counts /\ c.monitors <= changes.monitors /\ c.window <= changes.window

ElemFits ==
    /\ tree # Absent /\ IsElem /\ elem.global \in BOOLEAN
    /\ elem.at \in {"focus", "target", "owner", "kwin", "done"} \cup Asked
    /\ elem.at # "done" => elem.point = IF elem.global THEN tree.spot ELSE tree.point
    /\ elem.at \in {"owner", "kwin"} \cup Asked => InFrame
    /\ elem.at \in {"kwin", "map"} => elem.pid = ProcessOf[tree.owner]
    /\ elem.at \in Asked => Past(elem.since)
    /\ elem.at = "map" /\ elem.since = changes => elem.windows = wins /\ elem.outputs = Shown(desktop)
    /\ elem.at \in Aimed /\ elem.since = changes => Aims
    /\ elem.at = "device" => axes = elem.size
    /\ elem.at = "done" /\ elem.answer = "sent" => Past(elem.since)

DeskTyped == env \in Hosts /\ desktop \in Desktops[env.desk]

DeskFits ==
    /\ DeskTyped
    /\ changes \in Counts /\ wins \in AllWindows
    /\ tree # Absent => TreeFits

ElementInv == DeskFits /\ (elem # Absent => ElemFits) /\ ElementIsHit

(* The box around a desktop that shows anything, and the size of its picture. *)
LEMMA BoxTyped ==
    ASSUME NEW host \in Hosts, NEW d \in Desktops[host.desk], Shown(d) # {}
    PROVE  /\ \A i \in Axes : /\ Box(Rects(Shown(d))).at[i] \in Int
                              /\ Box(Rects(Shown(d))).size[i] \in Int
                              /\ Box(Rects(Shown(d))).size[i] >= 1
           /\ TopScale(d) \in Int
  <1> DEFINE rects == Rects(Shown(d))
  <1>0. Reach \in Nat
    BY DEF Reach
  <1>1. \A m \in Shown(d) : /\ m.at \in [Axes -> (-Reach)..Reach] /\ m.size \in [Axes -> 1..Reach]
                            /\ m.scale \in 1..Reach
    BY DesktopAssumption DEF Shown
  <1>2. \A r \in rects : r.at \in [Axes -> (-Reach)..Reach] /\ r.size \in [Axes -> 1..Reach]
    BY <1>1 DEF Rects, RectOf
  <1>3. rects # {}
    BY DEF Rects
  <1>4. TopScale(d) \in Int
    <2>1. {m.scale : m \in Shown(d)} \in SUBSET ((-Reach)..Reach)
      BY <1>1, <1>0
    <2>2. {m.scale : m \in Shown(d)} # {}
      OBVIOUS
    <2> HIDE DEF rects
    <2> QED
      BY <2>1, <2>2, <1>0, BoundedEnds DEF TopScale
  <1> HIDE DEF rects
  <1>5. ASSUME NEW i \in Axes
        PROVE  /\ Min({r.at[i] : r \in rects}) \in Int /\ Max({Far(r)[i] : r \in rects}) \in Int
               /\ Max({Far(r)[i] : r \in rects}) - Min({r.at[i] : r \in rects}) >= 1
    <2>1. {r.at[i] : r \in rects} \in SUBSET ((-Reach)..Reach) /\ {r.at[i] : r \in rects} # {}
      BY <1>2, <1>3
    <2>2. \A r \in rects : Far(r)[i] \in (-(2 * Reach))..(2 * Reach)
      BY <1>2, <1>0 DEF Far
    <2>3. /\ {Far(r)[i] : r \in rects} \in SUBSET ((-(2 * Reach))..(2 * Reach))
          /\ {Far(r)[i] : r \in rects} # {}
      BY <2>2, <1>3
    <2>4. 2 * Reach \in Nat
      BY <1>0
    <2>5. Min({r.at[i] : r \in rects}) \in Int /\ \A r \in rects : Min({s.at[i] : s \in rects}) <= r.at[i]
      BY <2>1, <1>0, BoundedEnds
    <2>6. Max({Far(r)[i] : r \in rects}) \in Int /\ \A r \in rects : Far(r)[i] <= Max({Far(s)[i] : s \in rects})
      BY <2>3, <2>4, BoundedEnds
    <2>7. PICK r \in rects : TRUE
      BY <1>3
    <2>8. r.at[i] \in Int /\ Far(r)[i] - r.at[i] >= 1
      BY <1>2, <1>0 DEF Far
    <2>9. Far(r)[i] \in Int
      BY <2>2, <1>0
    <2> DEFINE lo == Min({s.at[i] : s \in rects})
               hi == Max({Far(s)[i] : s \in rects})
    <2>10. lo \in Int /\ hi \in Int /\ lo <= r.at[i] /\ Far(r)[i] <= hi
      BY <2>5, <2>6
    <2> HIDE DEF lo, hi
    <2>11. hi - lo >= 1
      BY <2>8, <2>9, <2>10
    <2> QED
      BY <2>10, <2>11 DEF lo, hi
  <1>6. \A i \in Axes : Box(rects).at[i] \in Int /\ Box(rects).size[i] \in Int /\ Box(rects).size[i] >= 1
    BY <1>5 DEF Box
  <1> QED
    BY <1>4, <1>6 DEF rects

LEMMA TopScaleIsOne ==
    ASSUME DeskTyped, Shown(desktop) # {}
    PROVE  TopScale(desktop) \in Int /\ TopScale(desktop) >= 1
  <1>0. Reach \in Nat
    BY DEF Reach
  <1>1. \A m \in Shown(desktop) : m.scale \in 1..Reach
    BY DesktopAssumption DEF Shown, DeskTyped
  <1>2. {m.scale : m \in Shown(desktop)} \in SUBSET ((-Reach)..Reach)
    BY <1>0, <1>1
  <1>3. PICK m \in Shown(desktop) : TRUE
    OBVIOUS
  <1>4. m.scale \in {n.scale : n \in Shown(desktop)} /\ m.scale >= 1 /\ m.scale \in Int
    BY <1>0, <1>1, <1>3
  <1>5. TopScale(desktop) \in Int /\ m.scale <= TopScale(desktop)
    BY <1>0, <1>2, <1>4, BoundedEnds DEF TopScale
  <1> QED
    BY <1>4, <1>5

LEMMA ScaleTyped ==
    ASSUME DeskTyped, Shown(desktop) # {}
    PROVE  TopScale(desktop) \in Int /\ PictureScale(desktop) \in Int
  <1>1. TopScale(desktop) \in Int
    BY BoxTyped DEF DeskTyped
  <1>2. Max({TopScale(desktop), 2}) \in Int
    BY <1>1, MaxOfTwo
  <1> QED
    BY <1>1, <1>2 DEF PictureScale

LEMMA PictureTyped ==
    ASSUME DeskTyped, Shown(desktop) # {}, NEW i \in Axes
    PROVE  PictureSize(desktop)[i] \in Int
  <1> DEFINE box == Box(Rects(Shown(desktop)))
             scale == PictureScale(desktop)
  <1>1. box.at[i] \in Int /\ box.size[i] \in Int /\ scale \in Int
    BY BoxTyped, ScaleTyped DEF DeskTyped
  <1> HIDE DEF box, scale
  <1>2. CASE Wayland
    <2>1. PictureSize(desktop)[i] = (box.size[i] * scale) \div 2
      BY <1>2 DEF PictureSize, InPixels, box, scale
    <2>2. box.size[i] * scale \in Int
      BY <1>1
    <2>3. (box.size[i] * scale) \div 2 \in Int
      BY <2>2
    <2> QED
      BY <2>1, <2>3
  <1>3. CASE ~Wayland
    BY <1>1, <1>3 DEF PictureSize, Far, box
  <1> QED
    BY <1>2, <1>3

(* The window that was found: one of the process, shown, and the one the tree is of while
   its frame is where the tree has it. *)
LEMMA OwnerFits ==
    ASSUME ElementInv, ElemAt("map"), elem.windows = wins, OwnerSeen # Absent
    PROVE  /\ OwnerSeen \in Open /\ wins[OwnerSeen] \in Placements
           /\ ProcessOf[OwnerSeen] = ProcessOf[tree.owner] /\ elem.id \in {Absent, OwnerSeen}
           /\ wins[OwnerSeen].shown /\ FitsWindow(tree.told, wins[OwnerSeen])
           /\ StillTold => OwnerSeen = tree.owner
  <1> DEFINE fitting == {w \in KwinWindows : /\ elem.windows[w] # Absent /\ ProcessOf[w] = elem.pid
                                             /\ FitsWindow(tree.told, elem.windows[w])}
             w == TheOne(fitting)
  <1>1. /\ OwnerSeen = w /\ w # Absent /\ elem.id \in {Absent, w}
        /\ elem.windows[w].plain /\ elem.windows[w].shown
    BY DEF OwnerSeen
  <1>2. fitting = {w}
    <2>1. IsFiniteSet(fitting)
      BY ElementAssumption, FS_Subset
    <2> HIDE DEF fitting
    <2> QED
      BY <1>1, <2>1, TheOneIs
  <1>3. elem.pid = ProcessOf[tree.owner] /\ TreeFits /\ wins \in AllWindows
    BY DEF ElementInv, ElemAt, ElemFits, DeskFits, DeskTyped
  <1>4. /\ w \in KwinWindows /\ wins[w] # Absent /\ ProcessOf[w] = ProcessOf[tree.owner]
        /\ FitsWindow(tree.told, wins[w])
    BY <1>2, <1>3
  <1>5. w \in Open /\ wins[w] \in Placements
    BY <1>3, <1>4 DEF Open, AllWindows
  <1>6. ASSUME StillTold
        PROVE  w = tree.owner
    <2>1. /\ tree.owner \in KwinWindows /\ wins[tree.owner] # Absent
          /\ tree.told = Tells(wins[tree.owner], tree.toolkit)
      BY <1>6 DEF StillTold, Open
    <2>2. wins[tree.owner] \in Windows
      BY <1>3, <2>1, ElementAssumption DEF AllWindows, Windows
    <2> DEFINE o == wins[tree.owner]
    <2>3. \A q \in Pairs : Near(q, q)
      BY DEF Near, Pairs
    <2>4. /\ o.client.at \in Pairs /\ o.client.size \in Pairs
          /\ o.frame.at \in Pairs /\ o.frame.size \in Pairs
      BY <2>2 DEF Windows, Rectangles, Pairs
    <2>5. tree.toolkit \in {"local", "client", "frame"}
      BY <1>3 DEF TreeFits
    <2>9. FitsWindow(tree.told, o)
      <3>6. CASE tree.toolkit = "local"
        <4>1. tree.told = [o.client EXCEPT !.at = <<0, 0>>]
          BY <2>1, <3>6 DEF Tells
        <4>2. o.client \in Rectangles
          BY <2>2 DEF Windows
        <4>3. tree.told.at = <<0, 0>> /\ tree.told.size = o.client.size
          BY <4>1, <4>2 DEF Rectangles
        <4>4. <<0, 0>> \in Pairs
          BY DEF Pairs, Axes
        <4> QED
          BY <2>3, <2>4, <4>3, <4>4 DEF FitsWindow, FitsLocal
      <3>7. CASE tree.toolkit = "client"
        <4>1. tree.told = o.client
          BY <2>1, <3>7 DEF Tells
        <4> QED
          BY <2>3, <2>4, <4>1 DEF FitsWindow, FitsClient
      <3>8. CASE tree.toolkit = "frame"
        <4>1. tree.told = o.frame
          BY <2>1, <3>8 DEF Tells
        <4> QED
          BY <2>3, <2>4, <4>1 DEF FitsWindow, FitsFrame
      <3> QED
        BY <2>5, <3>6, <3>7, <3>8
    <2> QED
      BY <1>2, <1>3, <2>1, <2>9
  <1> QED
    BY <1>1, <1>4, <1>5, <1>6

(* The point that was found is in the frame of the window, give or take what fits. *)
LEMMA PointFits ==
    ASSUME ElementInv, ElemAt("map"), NEW w \in Placements, FitsWindow(tree.told, w),
           TheOne(PointsIn(w)) # Absent
    PROVE  LET p == TheOne(PointsIn(w))
           IN  p \in Pairs /\ PointsIn(w) = {p} /\ Inside(p, Around(w.frame))
  <1> DEFINE p == TheOne(PointsIn(w))
             local == IF elem.global THEN elem.point
                      ELSE Plus(w.client.at, Minus(elem.point, tree.told.at))
  <1>1. PointsIn(w) \subseteq {local, elem.point}
    BY DEF PointsIn
  <1>2. IsFiniteSet({local, elem.point})
    <2>1. IsFiniteSet({local} \cup {elem.point})
      <3>1. IsFiniteSet({local})
        BY FS_Singleton
      <3> HIDE DEF local
      <3> QED
        BY <3>1, FS_AddElement
    <2>2. {local, elem.point} = {local} \cup {elem.point}
      OBVIOUS
    <2> QED
      BY <2>1, <2>2
  <1>3. PointsIn(w) = {p}
    <2>1. IsFiniteSet(PointsIn(w))
      BY <1>1, <1>2, FS_Subset
    <2> QED
      BY <2>1, TheOneIs
  <1>4. /\ TreeFits /\ elem.global \in BOOLEAN /\ InFrame
        /\ elem.point = IF elem.global THEN tree.spot ELSE tree.point
    BY DEF ElementInv, ElemAt, ElemFits, DeskFits, DeskTyped, Asked
  <1>0. w \in Windows
    BY ElementAssumption DEF Windows
  <1>5. elem.point \in Pairs /\ local \in Pairs
    BY <1>0, <1>4 DEF TreeFits, Rectangles, Pairs, Plus, Minus, Windows, Axes
  <1>6. p \in PointsIn(w) /\ p \in Pairs
    BY <1>1, <1>3, <1>5
  <1>7. \A i \in Axes : /\ w.frame.at[i] <= w.client.at[i]
                        /\ w.client.at[i] + w.client.size[i] <= w.frame.at[i] + w.frame.size[i]
    BY ElementAssumption DEF Far
  <1>8. \A i \in Axes : /\ w.frame.at[i] \in Int /\ w.frame.size[i] \in Nat
                        /\ w.client.at[i] \in Int /\ w.client.size[i] \in Nat
                        /\ tree.told.at[i] \in Int /\ tree.told.size[i] \in Nat
                        /\ elem.point[i] \in Int
    BY <1>0, <1>4, <1>5 DEF Windows, Rectangles, Pairs, TreeFits
  <1>9. ASSUME NEW r \in {w.frame, w.client}, elem.global, Inside(elem.point, r)
        PROVE  Inside(elem.point, Around(w.frame))
    BY <1>7, <1>8, <1>9 DEF Inside, Around, Far
  <1>10. ~elem.global => Inside(elem.point, tree.told)
    BY <1>4 DEF InFrame
  <1>13. \/ p = elem.point /\ (FitsClient(tree.told, w) \/ FitsFrame(tree.told, w))
            /\ (elem.global => \E r \in {w.frame, w.client} : Inside(elem.point, r))
         \/ p = local /\ FitsLocal(tree.told, w) /\ (elem.global => Inside(elem.point, w.client))
    <2>1. PointsIn(w) =
            (IF FitsLocal(tree.told, w) /\ (elem.global => Inside(elem.point, w.client)) THEN {local} ELSE {})
            \cup (IF \/ FitsClient(tree.told, w) /\ (elem.global => Inside(elem.point, w.client))
                     \/ FitsFrame(tree.told, w) /\ (elem.global => Inside(elem.point, w.frame))
                  THEN {elem.point} ELSE {})
      BY DEF PointsIn
    <2> HIDE DEF p, local
    <2> QED
      BY <1>6, <2>1
  <1>14. Inside(p, Around(w.frame))
    <2> HIDE DEF p
    <2>1. CASE p = elem.point /\ (FitsClient(tree.told, w) \/ FitsFrame(tree.told, w))
                /\ (elem.global => \E r \in {w.frame, w.client} : Inside(elem.point, r))
      <3>1. CASE elem.global
        BY <3>1, <1>9, <2>1
      <3>2. CASE ~elem.global
        BY <3>2, <1>7, <1>8, <1>10, <2>1 DEF Inside, Around, Far, FitsClient, FitsFrame, Near
      <3> QED
        BY <3>1, <3>2
    <2>2. CASE p = local /\ FitsLocal(tree.told, w) /\ (elem.global => Inside(elem.point, w.client))
      <3>1. CASE elem.global
        BY <3>1, <1>9, <2>2
      <3>2. CASE ~elem.global
        <4>1. \A i \in Axes : local[i] = w.client.at[i] + (elem.point[i] - tree.told.at[i])
          BY <3>2 DEF Plus, Minus
        <4> HIDE DEF local
        <4> QED
          BY <3>2, <4>1, <1>7, <1>8, <1>10, <2>2 DEF Inside, Around, Far, FitsLocal, Near
      <3> QED
        BY <3>1, <3>2
    <2> QED
      BY <1>13, <2>1, <2>2
  <1> QED
    BY <1>3, <1>6, <1>14

(* In the window the tree is of, what the toolkit tells from fits, and gives the element. *)
LEMMA PointMeant ==
    ASSUME ElementInv, ElemAt("map"), StillMeant,
           NEW p, PointsIn(wins[tree.owner]) = {p}
    PROVE  p = Plus(wins[tree.owner].client.at, tree.offset)
  <1> DEFINE o == wins[tree.owner]
             meant == Plus(o.client.at, tree.offset)
  <1>1. /\ TreeFits /\ elem.global \in BOOLEAN
        /\ elem.point = IF elem.global THEN tree.spot ELSE tree.point
    BY DEF ElementInv, ElemAt, ElemFits, DeskFits, DeskTyped, Asked
  <1>2. /\ tree.owner \in KwinWindows /\ o # Absent /\ tree.told = Tells(o, tree.toolkit)
        /\ elem.global \/ tree.toolkit = "frame" => tree.spot = meant
    BY DEF StillMeant, StillTold, Open
  <1>3. o \in Windows
    BY <1>2, ElementAssumption DEF ElementInv, DeskFits, DeskTyped, AllWindows, Windows
  <1>4. /\ o.client \in Rectangles /\ o.frame \in Rectangles
        /\ o.client.at \in Pairs /\ o.client.size \in Pairs
        /\ o.frame.at \in Pairs /\ o.frame.size \in Pairs /\ tree.offset \in Pairs
    BY <1>1, <1>3 DEF Windows, Rectangles, Pairs, TreeFits
  <1>5. \A q \in Pairs : Near(q, q)
    BY DEF Near, Pairs
  <1> HIDE DEF o
  <1> DEFINE local == IF elem.global THEN elem.point
                      ELSE Plus(o.client.at, Minus(elem.point, tree.told.at))
  <1>6. PointsIn(o) =
          (IF FitsLocal(tree.told, o) /\ (elem.global => Inside(elem.point, o.client)) THEN {local} ELSE {})
          \cup (IF \/ FitsClient(tree.told, o) /\ (elem.global => Inside(elem.point, o.client))
                   \/ FitsFrame(tree.told, o) /\ (elem.global => Inside(elem.point, o.frame))
                THEN {elem.point} ELSE {})
    BY DEF PointsIn
  <1>7. PointsIn(o) = {p}
    BY DEF o
  <1>8. p \in {local, elem.point}
    BY <1>6, <1>7
  <1>9. p = meant
    <2>1. CASE elem.global
      BY <2>1, <1>1, <1>2, <1>8
    <2>2. CASE ~elem.global /\ tree.toolkit = "local"
      <3>1. tree.told = [o.client EXCEPT !.at = <<0, 0>>]
        BY <1>2, <2>2 DEF Tells
      <3>2. tree.told.at = <<0, 0>> /\ tree.told.size = o.client.size
        BY <3>1, <1>4 DEF Rectangles
      <3>3. <<0, 0>> \in Pairs
        BY DEF Pairs, Axes
      <3>4. FitsLocal(tree.told, o)
        BY <1>4, <1>5, <3>2, <3>3 DEF FitsLocal
      <3>5. p = local
        BY <1>6, <1>7, <3>4, <2>2
      <3>6. elem.point = tree.offset /\ \A i \in Axes : tree.told.at[i] = 0
        BY <1>1, <2>2 DEF TreeFits
      <3>7. local = [i \in Axes |-> o.client.at[i] + (tree.offset[i] - 0)]
        BY <2>2, <3>6 DEF Plus, Minus
      <3>8. meant = [i \in Axes |-> o.client.at[i] + tree.offset[i]]
        BY DEF Plus
      <3>9. \A i \in Axes : o.client.at[i] + (tree.offset[i] - 0) = o.client.at[i] + tree.offset[i]
        BY <1>4 DEF Pairs
      <3> HIDE DEF local, meant
      <3> QED
        BY <3>5, <3>7, <3>8, <3>9
    <2>3. CASE ~elem.global /\ tree.toolkit = "client"
      <3>1. tree.told = o.client
        BY <1>2, <2>3 DEF Tells
      <3>2. FitsClient(tree.told, o)
        BY <1>4, <1>5, <3>1 DEF FitsClient
      <3>3. p = elem.point
        BY <1>6, <1>7, <3>2, <2>3
      <3>4. elem.point = Plus(tree.told.at, tree.offset)
        BY <1>1, <2>3 DEF TreeFits
      <3> QED
        BY <3>1, <3>3, <3>4
    <2>4. CASE ~elem.global /\ tree.toolkit = "frame"
      <3>1. tree.told = o.frame
        BY <1>2, <2>4 DEF Tells
      <3>2. FitsFrame(tree.told, o)
        BY <1>4, <1>5, <3>1 DEF FitsFrame
      <3>3. p = elem.point
        BY <1>6, <1>7, <3>2, <2>4
      <3>4. elem.point = tree.spot
        BY <1>1, <2>4 DEF TreeFits
      <3> QED
        BY <1>2, <2>4, <3>3, <3>4
    <2> QED
      BY <1>1, <2>1, <2>2, <2>3, <2>4 DEF TreeFits
  <1> QED
    BY <1>9 DEF o

(* What a click may be off by is told by the desktop alone. *)
LEMMA SlackSame == UNCHANGED <<env, desktop>> => \A i \in Axes : Slack(i)' = Slack(i)
  BY DEF Slack, Shown, TopScale, PictureSize, PictureScale, Wayland, InPixels, Far, Box, Rects, RectOf

(* A pixel that is on the picture, of outputs of its scale, comes back. *)
LEMMA PixelLands ==
    ASSUME ElementInv, elem.outputs = Shown(desktop), NEW p \in Pairs, NEW w,
           OnCapture(p, w, PictureSize(desktop)), NEW i \in Axes
    PROVE  LET box == Box(Rects(Shown(desktop)))
               size == PictureSize(desktop)
               q == box.at[i] + (Pixel(p, box, size)[i] * box.size[i]) \div size[i]
           IN  q \in Int /\ q - p[i] \in Slack(i) /\ 0 \in Slack(i)
  <1> DEFINE box == Box(Rects(Shown(desktop)))
             size == PictureSize(desktop)
             P == Pixel(p, box, size)[i]
  <1>1. PICK m \in Shown(desktop) : TRUE
    BY DEF OnCapture, OutputOf
  <1>2. /\ 50 * Max({box.size[i] * m.scale - 2 * size[i], -(box.size[i] * m.scale - 2 * size[i])}) <= box.size[i]
        /\ 0 <= P /\ P < 0 + size[i]
    <2>1. 50 * Max({box.size[i] * m.scale - 2 * size[i], -(box.size[i] * m.scale - 2 * size[i])}) <= box.size[i]
      BY <1>1 DEF OnCapture
    <2>2. Inside(Pixel(p, box, size), [at |-> <<0, 0>>, size |-> size])
      BY DEF OnCapture
    <2>3. <<0, 0>>[i] = 0
      BY DEF Axes
    <2> HIDE DEF box, size
    <2>4. 0 <= P /\ P < 0 + size[i]
      BY <2>2, <2>3 DEF Inside, Far
    <2> QED
      BY <2>1, <2>4 DEF box, size
  <1>3. box.at[i] \in Int /\ box.size[i] \in Int /\ box.size[i] >= 1 /\ size[i] \in Int
    BY <1>1, BoxTyped, PictureTyped DEF ElementInv, DeskFits, DeskTyped
  <1>4. m.scale \in Int /\ m.scale >= 1
    <2>1. m.scale \in 1..Reach
      BY <1>1, DesktopAssumption DEF ElementInv, DeskFits, DeskTyped, Shown
    <2>2. Reach \in Nat
      BY DEF Reach
    <2> QED
      BY <2>1, <2>2
  <1>5. P = (2 * (p[i] - box.at[i]) * size[i] + box.size[i]) \div (2 * box.size[i])
    <2> HIDE DEF box, size
    <2> QED
      BY DEF Pixel
  <1> DEFINE q == p[i] - box.at[i]
             U == box.size[i]
             S == size[i]
             at == box.at[i]
  <1>6. q \in Int /\ p[i] \in Int
    BY <1>3 DEF Pairs
  <1>7. P \in Int
    <2>1. 2 * U \in Int /\ 2 * U > 0 /\ 2 * q * S + U \in Int
      <3> HIDE DEF q, box, size
      <3> QED
        BY <1>3, <1>6
    <2>2. (2 * q * S + U) \div (2 * U) \in Int
      <3> HIDE DEF q, box, size
      <3> QED
        BY <2>1, Quotient
    <2> HIDE DEF P, box, size
    <2> QED
      BY <1>5, <2>2
  <1> HIDE DEF P, q, box, size
  <1>s. TopScale(desktop) \in Int /\ TopScale(desktop) >= 1
    BY <1>1, TopScaleIsOne DEF ElementInv, DeskFits
  <1> DEFINE h == (P * U) \div S
             e == h - q
  <1>8. /\ h \in Int /\ e \in -2..1
        /\ 2 * e * S <= U /\ 2 * (-1 - e) * S < U
        /\ 2 * S = U * TopScale(desktop) => e >= 0
    <2>1. 50 * (U * m.scale - 2 * S) <= U /\ 0 <= P /\ P < S
      <3> DEFINE a == U * m.scale - 2 * S
      <3>1. a \in Int
        BY <1>3, <1>4
      <3>2. 50 * Max({a, -a}) <= U /\ 0 <= P /\ P < S
        BY <1>2, <1>3, <1>7
      <3> HIDE DEF a
      <3>3. -a \in Int /\ Max({a, -a}) = IF a >= -a THEN a ELSE -a
        BY <3>1, MaxOfTwo
      <3>4. 50 * a <= U
        BY <3>1, <3>2, <3>3, <1>3
      <3> QED
        BY <3>2, <3>4 DEF a
    <2>2. P = (2 * q * S + U) \div (2 * U)
      BY <1>5 DEF q
    <2> QED
      BY <1>3, <1>4, <1>6, <1>7, <1>s, <2>1, <2>2, PixelNear
  <1>z. S > 0 /\ S \in Int /\ U \in Int /\ U >= 1
    BY <1>2, <1>3, <1>7
  <1> HIDE DEF h
  <1> HIDE DEF e
  <1>9. Slack(i) = {x \in -2..1 : /\ 2 * x * S <= U /\ 2 * (-1 - x) * S < U
                                  /\ 2 * S = U * TopScale(desktop) => x >= 0}
    BY DEF Slack, box, size
  <1>10. e \in Slack(i) /\ 0 \in Slack(i)
    <2>1. 2 * 0 * S <= U /\ 2 * (-1 - 0) * S < U
      BY <1>z
    <2> QED
      BY <1>8, <1>9, <2>1
  <1>11. (at + h) - p[i] = e /\ at + h \in Int
    BY <1>3, <1>6, <1>8 DEF q, e
  <1>12. at + h \in Int /\ (at + h) - p[i] \in Slack(i) /\ 0 \in Slack(i)
    BY <1>10, <1>11
  <1> QED
    BY <1>12 DEF h, P, box, size

-----------------------------------------------------------------------------
(* The desktop and the tree stay what they are. *)
Still == UNCHANGED <<env, desktop, changes, wins, tree>>

LEMMA DeskKept == DeskFits /\ Still => DeskFits'
  BY DEF DeskFits, DeskTyped, Still, TreeFits

(* A click that is not sent. *)
LEMMA NotSent ==
    ASSUME ElementInv, elem # Absent, Still, NEW answer \in {"refused", "error"}, AnswerElem(answer)
    PROVE  ElementInv'
  <1>1. /\ elem'.at = "done" /\ elem'.answer # "sent" /\ elem'.global \in BOOLEAN
        /\ IsElem'
    BY DEF AnswerElem, NewElem, IsElem
  <1>2. tree' # Absent
    BY DEF ElementInv, ElemFits, Still
  <1>3. ElemFits'
    BY <1>1, <1>2 DEF ElemFits, Asked, Aimed
  <1>4. ElementIsHit'
    BY <1>1 DEF ElementIsHit
  <1> QED
    BY <1>3, <1>4, DeskKept DEF ElementInv

LEMMA ReadTreeKeeps == ElementInv /\ ReadTree => ElementInv'
  <1> SUFFICES ASSUME ElementInv, ReadTree PROVE ElementInv'
    OBVIOUS
  <1>1. /\ tree = Absent
        /\ UNCHANGED <<env, desktop, changes, wins, elem>>
    BY DEF ReadTree, pointVars, deskVars, windowVars
  <1>2. PICK w \in Open, toolkit \in {"local", "client", "frame"}, p \in Offsets, known \in BOOLEAN :
          \E id \in {Absent} \cup {v \in Open : ProcessOf[v] = ProcessOf[w]} :
             tree' = [owner |-> w, toolkit |-> toolkit, told |-> Tells(wins[w], toolkit),
                      point |-> IF toolkit = "local" THEN p ELSE Plus(wins[w].client.at, p),
                      spot |-> Plus(wins[w].client.at, p),
                      offset |-> p, id |-> id, pid |-> IF known THEN ProcessOf[w] ELSE Absent]
    BY DEF ReadTree
  <1>3. elem = Absent
    BY <1>1 DEF ElementInv, ElemFits
  <1>4. w \in KwinWindows /\ wins[w] \in Windows /\ p \in Pairs
    BY ElementAssumption DEF ElementInv, DeskFits, DeskTyped, Open, AllWindows, Windows
  <1> DEFINE spot == Plus(wins[w].client.at, p)
             told == Tells(wins[w], toolkit)
  <1>5. spot \in Pairs
    BY <1>4 DEF Plus, Windows, Rectangles, Pairs, Axes
  <1>6. /\ told \in Rectangles
        /\ toolkit = "local" => \A i \in Axes : told.at[i] = 0
        /\ toolkit = "client" => told = wins[w].client
    <2>1. wins[w].client \in Rectangles /\ wins[w].frame \in Rectangles
      BY <1>4 DEF Windows
    <2>2. CASE toolkit = "local"
      <3>1. told = [wins[w].client EXCEPT !.at = <<0, 0>>]
        BY <2>2 DEF Tells
      <3>2. <<0, 0>> \in Pairs /\ \A i \in Axes : <<0, 0>>[i] = 0
        BY DEF Pairs, Axes
      <3>3. told = [at |-> <<0, 0>>, size |-> wins[w].client.size]
        BY <3>1, <2>1 DEF Rectangles
      <3> HIDE DEF told
      <3>4. told \in Rectangles
        BY <3>2, <3>3, <2>1 DEF Rectangles
      <3>5. told.at = <<0, 0>>
        BY <3>3
      <3> QED
        BY <2>2, <3>2, <3>4, <3>5
    <2>3. CASE toolkit = "client"
      BY <2>1, <2>3 DEF Tells
    <2>4. CASE toolkit = "frame"
      BY <2>1, <2>4 DEF Tells
    <2> QED
      BY <2>2, <2>3, <2>4
  <1>7. /\ tree'.owner = w /\ tree'.toolkit = toolkit /\ tree'.told = told
        /\ tree'.point = IF toolkit = "local" THEN p ELSE spot
        /\ tree'.spot = spot /\ tree'.offset = p
        /\ tree'.pid \in {Absent, ProcessOf[w]}
    BY <1>2
  <1>8. toolkit = "client" => spot = Plus(told.at, p)
    BY <1>6
  <1> HIDE DEF told, spot
  <1>9. TreeFits'
    BY <1>4, <1>5, <1>6, <1>7, <1>8 DEF TreeFits
  <1>10. DeskFits'
    BY <1>1, <1>9 DEF ElementInv, DeskFits, DeskTyped
  <1> QED
    BY <1>1, <1>3, <1>10 DEF ElementInv, ElementIsHit, ElemAt

(* A click that has not asked the compositor yet keeps the point it was given. *)
LEMMA EarlyKeeps ==
    ElementInv /\ (\/ \E global \in BOOLEAN, focus \in {Absent} \cup KwinWindows : BeginElement(global, focus)
             \/ FocusElement \/ TargetElement \/ LearnPid) => ElementInv'
  <1>1. ASSUME ElementInv, NEW global \in BOOLEAN, NEW focus \in {Absent} \cup KwinWindows,
               BeginElement(global, focus)
        PROVE  ElementInv'
    <2>1. tree # Absent /\ Still
      BY <1>1 DEF BeginElement, ElemOnly, Still, pointVars, deskVars, windowVars
    <2>2. /\ elem'.at \in {"target", "focus"} /\ elem'.global = global /\ IsElem'
          /\ elem'.point = IF global THEN tree.spot ELSE tree.point
      BY <1>1 DEF BeginElement, NewElem, IsElem
    <2>3. ElemFits'
      BY <2>1, <2>2 DEF ElemFits, Asked, Aimed, Still
    <2>4. ElementIsHit'
      BY <2>2 DEF ElementIsHit, ElemAt
    <2> QED
      BY <1>1, <2>1, <2>3, <2>4, DeskKept DEF ElementInv
  <1>2. ASSUME ElementInv, FocusElement
        PROVE  ElementInv'
    <2>1. elem # Absent /\ elem.at = "focus" /\ Still /\ ElemFits
      BY <1>2 DEF FocusElement, ElemAt, Still, pointVars, deskVars, windowVars, ElementInv
    <2>2. CASE AnswerElem("refused")
      BY <1>2, <2>1, <2>2, NotSent
    <2>3. CASE Step("target")
      <3>1. /\ elem'.at = "target" /\ elem'.global = elem.global /\ elem'.point = elem.point /\ IsElem'
        BY <2>1, <2>3 DEF Step, ElemFits, IsElem
      <3>2. ElemFits'
        BY <2>1, <3>1 DEF ElemFits, Asked, Aimed, Still
      <3>3. ElementIsHit'
        BY <3>1 DEF ElementIsHit, ElemAt
      <3> QED
        BY <1>2, <2>1, <3>2, <3>3, DeskKept DEF ElementInv
    <2> QED
      BY <1>2, <2>2, <2>3 DEF FocusElement
  <1>3. ASSUME ElementInv, TargetElement
        PROVE  ElementInv'
    <2>1. elem # Absent /\ elem.at = "target" /\ Still /\ ElemFits /\ TreeFits
      BY <1>3 DEF TargetElement, ElemAt, ElemOnly, Still, pointVars, deskVars, windowVars, ElementInv, ElemFits, DeskFits, DeskTyped
    <2>2. CASE AnswerElem("refused")
      BY <1>3, <2>1, <2>2, NotSent
    <2>3. CASE ~AnswerElem("refused")
      <3>1. /\ InFrame
            /\ elem' = [elem EXCEPT !.at = IF tree.pid = Absent THEN "owner" ELSE "kwin",
                                    !.id = IF elem.focus # Absent THEN elem.focus ELSE tree.id,
                                    !.pid = tree.pid]
        BY <1>3, <2>3 DEF TargetElement
      <3>2. /\ elem'.at = IF tree.pid = Absent THEN "owner" ELSE "kwin"
            /\ elem'.pid = tree.pid
            /\ elem'.global = elem.global /\ elem'.point = elem.point /\ IsElem'
        BY <2>1, <3>1 DEF ElemFits, IsElem
      <3>3. InFrame'
        BY <2>1, <3>1, <3>2 DEF InFrame, Still
      <3>4. elem'.at = "kwin" => elem'.pid = ProcessOf[tree'.owner]
        BY <2>1, <3>2 DEF TreeFits, Still
      <3>5. ElemFits'
        BY <2>1, <3>2, <3>3, <3>4 DEF ElemFits, Asked, Aimed, Still
      <3>6. ElementIsHit'
        BY <3>2 DEF ElementIsHit, ElemAt
      <3> QED
        BY <1>3, <2>1, <3>5, <3>6, DeskKept DEF ElementInv
    <2> QED
      BY <2>2, <2>3
  <1>4. ASSUME ElementInv, LearnPid
        PROVE  ElementInv'
    <2>1. elem # Absent /\ elem.at = "owner" /\ Still /\ ElemFits
      BY <1>4 DEF LearnPid, ElemAt, ElemOnly, Still, pointVars, deskVars, windowVars, ElementInv
    <2>2. CASE AnswerElem("refused")
      BY <1>4, <2>1, <2>2, NotSent
    <2>3. CASE elem' = [elem EXCEPT !.at = "kwin", !.pid = ProcessOf[tree.owner]]
      <3>1. /\ elem'.at = "kwin" /\ elem'.pid = ProcessOf[tree.owner]
            /\ elem'.global = elem.global /\ elem'.point = elem.point /\ IsElem'
        BY <2>1, <2>3 DEF ElemFits, IsElem
      <3>2. InFrame'
        BY <2>1, <3>1 DEF ElemFits, InFrame, Still
      <3>3. ElemFits'
        BY <2>1, <3>1, <3>2 DEF ElemFits, Asked, Aimed, Still
      <3>4. ElementIsHit'
        BY <3>1 DEF ElementIsHit, ElemAt
      <3> QED
        BY <1>4, <2>1, <3>3, <3>4, DeskKept DEF ElementInv
    <2> QED
      BY <1>4, <2>2, <2>3 DEF LearnPid
  <1> QED
    BY <1>1, <1>2, <1>3, <1>4

LEMMA ReadKwinKeeps == ElementInv /\ ReadKwin => ElementInv'
  <1> SUFFICES ASSUME ElementInv, ReadKwin PROVE ElementInv'
    OBVIOUS
  <1>1. elem # Absent /\ elem.at = "kwin" /\ Still /\ ElemFits /\ changes \in Counts
    BY DEF ReadKwin, ElemAt, ElemOnly, Still, pointVars, deskVars, windowVars, ElementInv, DeskFits, DeskTyped
  <1>2. CASE AnswerElem("refused")
    BY <1>1, <1>2, NotSent
  <1>3. CASE elem' = [elem EXCEPT !.at = "map", !.windows = wins, !.front = front,
                                  !.outputs = Shown(desktop), !.since = changes]
    <2>1. /\ elem'.at = "map" /\ elem'.windows = wins /\ elem'.outputs = Shown(desktop)
          /\ elem'.since = changes /\ elem'.pid = elem.pid
          /\ elem'.global = elem.global /\ elem'.point = elem.point /\ IsElem'
      BY <1>1, <1>3 DEF ElemFits, IsElem
    <2>2. InFrame'
      BY <1>1, <2>1 DEF ElemFits, InFrame, Still
    <2>3. Past(elem.since)'
      BY <1>1, <2>1 DEF Past, Counts, Still
    <2>4. /\ tree' # Absent /\ elem'.global \in BOOLEAN /\ elem'.pid = ProcessOf[tree'.owner]
          /\ elem'.point = IF elem'.global THEN tree'.spot ELSE tree'.point
          /\ elem'.windows = wins' /\ elem'.outputs = Shown(desktop)'
      BY <1>1, <2>1 DEF ElemFits, Still, Shown
    <2>5. ElemFits'
      BY <2>1, <2>2, <2>3, <2>4 DEF ElemFits, Asked, Aimed
    <2>6. ElementIsHit'
      BY <2>1 DEF ElementIsHit, ElemAt
    <2> QED
      BY <1>1, <2>5, <2>6, DeskKept DEF ElementInv
  <1> QED
    BY <1>2, <1>3 DEF ReadKwin

(* What the map finds, if nothing changed since the compositor was asked. *)
LEMMA MapAims ==
    ASSUME ElementInv, ElemAt("map"), elem.since = changes,
           OwnerSeen # Absent, TheOne(PointsIn(elem.windows[OwnerSeen])) # Absent,
           OnCapture(TheOne(PointsIn(elem.windows[OwnerSeen])), elem.windows[OwnerSeen], PictureSize(desktop))
    PROVE  LET p == TheOne(PointsIn(elem.windows[OwnerSeen]))
               box == Box(Rects(Shown(desktop)))
               size == PictureSize(desktop)
               q(i) == box.at[i] + (Pixel(p, Box(Rects(elem.outputs)), size)[i] * box.size[i]) \div size[i]
           IN  /\ p \in Pairs /\ InOwner(p)
               /\ StillMeant => p = Plus(wins[tree.owner].client.at, tree.offset)
               /\ \A i \in Axes : q(i) \in Int /\ q(i) - p[i] \in Slack(i) /\ 0 \in Slack(i)
  <1> DEFINE w == OwnerSeen
             p == TheOne(PointsIn(elem.windows[w]))
  <1>1. elem.windows = wins /\ elem.outputs = Shown(desktop)
    BY DEF ElementInv, ElemAt, ElemFits, Asked
  <1>2. /\ w \in Open /\ wins[w] \in Placements
        /\ ProcessOf[w] = ProcessOf[tree.owner] /\ elem.id \in {Absent, w}
        /\ wins[w].shown /\ FitsWindow(tree.told, wins[w])
        /\ StillTold => w = tree.owner
    BY <1>1, OwnerFits
  <1>3. p \in Pairs /\ PointsIn(wins[w]) = {p} /\ Inside(p, Around(wins[w].frame))
    BY <1>1, <1>2, PointFits
  <1>4. InOwner(p)
    BY <1>2, <1>3 DEF InOwner
  <1>5. ASSUME StillMeant
        PROVE  p = Plus(wins[tree.owner].client.at, tree.offset)
    <2>1. w = tree.owner
      BY <1>2, <1>5 DEF StillMeant
    <2> HIDE DEF p, w
    <2> QED
      BY <1>3, <1>5, <2>1, PointMeant
  <1>6. OnCapture(p, wins[w], PictureSize(desktop))
    BY <1>1
  <1>7. ASSUME NEW i \in Axes
        PROVE  LET box == Box(Rects(Shown(desktop)))
                   size == PictureSize(desktop)
                   q == box.at[i] + (Pixel(p, box, size)[i] * box.size[i]) \div size[i]
               IN  q \in Int /\ q - p[i] \in Slack(i) /\ 0 \in Slack(i)
    <2> HIDE DEF p, w
    <2> QED
      BY <1>1, <1>3, <1>6, PixelLands
  <1> HIDE DEF p, w
  <1>8. \A i \in Axes :
           LET box == Box(Rects(Shown(desktop)))
               size == PictureSize(desktop)
               q == box.at[i] + (Pixel(p, Box(Rects(elem.outputs)), size)[i] * box.size[i]) \div size[i]
           IN  q \in Int /\ q - p[i] \in Slack(i) /\ 0 \in Slack(i)
    BY <1>1, <1>7
  <1> QED
    BY <1>3, <1>4, <1>5, <1>8 DEF p, w

(* A click that is found is aimed. *)
LEMMA MapElementKeeps == ElementInv /\ MapElement => ElementInv'
  <1> SUFFICES ASSUME ElementInv, MapElement PROVE ElementInv'
    OBVIOUS
  <1> DEFINE w == OwnerSeen
             size == PictureSize(desktop)
             p == IF w = Absent THEN Absent ELSE TheOne(PointsIn(elem.windows[w]))
             px == Pixel(p, Box(Rects(elem.outputs)), size)
  <1>1. elem # Absent /\ elem.at = "map" /\ Still /\ ElemFits
    BY DEF MapElement, ElemAt, Still, deskVars, windowVars, ElementInv
  <1>2. CASE AnswerElem("refused")
    BY <1>1, <1>2, NotSent
  <1>3. CASE /\ w # Absent /\ p # Absent /\ OnCapture(p, elem.windows[w], size)
             /\ elem' = [elem EXCEPT !.at = "ready", !.logical = p, !.size = size,
                                     !.windows = Absent, !.front = Absent, !.outputs = {},
                                     !.pixel = px]
    <2>0. Still /\ UNCHANGED <<env, desktop, changes, wins, tree>>
      BY <1>1 DEF Still
    <2>1. /\ elem'.at = "ready" /\ elem'.logical = p /\ elem'.size = size /\ elem'.pixel = px
          /\ elem'.since = elem.since /\ elem'.id = elem.id
          /\ elem'.global = elem.global /\ elem'.point = elem.point /\ IsElem'
      BY <1>1, <1>3 DEF ElemFits, IsElem
    <2>2. InFrame'
      BY <1>1, <2>1 DEF ElemFits, InFrame, Still, Asked
    <2>3. Past(elem.since)'
      BY <1>1, <2>1 DEF ElemFits, Past, Still, Asked
    <2>4. ASSUME elem.since = changes
          PROVE  Aims'
      <3>1. /\ p \in Pairs /\ InOwner(p)
            /\ StillMeant => p = Plus(wins[tree.owner].client.at, tree.offset)
            /\ \A i \in Axes :
                  LET box == Box(Rects(Shown(desktop)))
                      q == box.at[i] + (px[i] * box.size[i]) \div size[i]
                  IN  q \in Int /\ q - p[i] \in Slack(i) /\ 0 \in Slack(i)
        BY <1>1, <1>3, <2>4, MapAims DEF ElemAt
      <3> HIDE DEF p, px, size, w
      <3>2. InOwner(elem.logical)'
        <4>1. PICK v \in Open : /\ ProcessOf[v] = ProcessOf[tree.owner] /\ elem.id \in {Absent, v}
                                /\ wins[v].shown /\ Inside(p, Around(wins[v].frame))
          BY <3>1 DEF InOwner
        <4>2. v \in Open'
          BY <2>0 DEF Open
        <4>3. Inside(elem.logical, Around(wins[v].frame))'
          BY <4>1, <2>0, <2>1
        <4>4. ProcessOf[v] = ProcessOf[tree'.owner] /\ elem'.id \in {Absent, v} /\ wins'[v].shown
          BY <4>1, <2>0, <2>1
        <4> QED
          BY <4>2, <4>3, <4>4 DEF InOwner
      <3>3. StillMeant' => StillMeant
        BY <2>0, <2>1 DEF StillMeant, StillTold, Open
      <3>4. StillMeant' => elem'.logical = Plus(wins[tree.owner].client.at, tree.offset)'
        BY <2>0, <2>1, <3>1, <3>3
      <3>5. (\A i \in Axes : Slack(i)' = Slack(i)) /\ Shown(desktop)' = Shown(desktop)
        BY <2>0, SlackSame DEF Shown
      <3>6. ASSUME NEW i \in Axes
            PROVE  Returned(i)' \in Int /\ Returned(i)' - elem'.logical[i] \in Slack(i)' /\ 0 \in Slack(i)'
        <4>1. Returned(i)' = Box(Rects(Shown(desktop))).at[i]
                 + (px[i] * Box(Rects(Shown(desktop))).size[i]) \div size[i]
          BY <2>0, <2>1 DEF Returned
        <4> QED
          BY <4>1, <2>1, <3>1, <3>5
      <3>7. Lands'
        BY <3>6 DEF Lands
      <3> QED
        BY <2>1, <3>1, <3>2, <3>4, <3>7 DEF Aims
    <2>5. ElemFits'
      BY <1>1, <2>0, <2>1, <2>2, <2>3, <2>4 DEF ElemFits, Asked, Aimed
    <2>6. ElementIsHit'
      BY <2>1 DEF ElementIsHit, ElemAt
    <2> QED
      BY <1>1, <2>5, <2>6, DeskKept DEF ElementInv
  <1> HIDE DEF p, px, size, w
  <1>4. CASE ~AnswerElem("refused")
    BY <1>3, <1>4 DEF MapElement, p, px, size, w
  <1> QED
    BY <1>2, <1>4

(* Which step a click is at does not change what it is aimed at. *)
LEMMA AimsKept ==
    Still /\ Aims /\ elem'.logical = elem.logical /\ elem'.pixel = elem.pixel /\ elem'.size = elem.size
        /\ elem'.id = elem.id /\ elem'.global = elem.global => Aims'
  <1> SUFFICES ASSUME Still, Aims, elem'.logical = elem.logical, elem'.pixel = elem.pixel,
                      elem'.size = elem.size, elem'.id = elem.id, elem'.global = elem.global
               PROVE  Aims'
    OBVIOUS
  <1>0. UNCHANGED <<env, desktop, changes, wins, tree>>
    BY DEF Still
  <1>1. InOwner(elem.logical)'
    <2>1. PICK v \in Open : /\ ProcessOf[v] = ProcessOf[tree.owner] /\ elem.id \in {Absent, v}
                            /\ wins[v].shown /\ Inside(elem.logical, Around(wins[v].frame))
      BY DEF Aims, InOwner
    <2>2. v \in Open'
      BY <1>0 DEF Open
    <2>3. Inside(elem.logical, Around(wins[v].frame))'
      BY <1>0, <2>1
    <2>4. ProcessOf[v] = ProcessOf[tree'.owner] /\ elem'.id \in {Absent, v} /\ wins'[v].shown
      BY <1>0, <2>1
    <2> QED
      BY <2>2, <2>3, <2>4 DEF InOwner
  <1>2. StillMeant' => elem'.logical = Plus(wins[tree.owner].client.at, tree.offset)'
    BY <1>0 DEF StillMeant, StillTold, Open, Aims
  <1>3. Lands'
    BY <1>0, SlackSame DEF Aims, Lands, Returned, Shown
  <1> QED
    BY <1>1, <1>2, <1>3 DEF Aims

LEMMA ReadyDeviceKeeps == ElementInv /\ ReadyDevice => ElementInv'
  <1> SUFFICES ASSUME ElementInv, ReadyDevice PROVE ElementInv'
    OBVIOUS
  <1>1. elem # Absent /\ elem.at = "ready" /\ Still /\ ElemFits
    BY DEF ReadyDevice, ElemAt, Still, deskVars, windowVars, ElementInv
  <1>2. CASE AnswerElem("refused")
    BY <1>1, <1>2, NotSent
  <1>3. ASSUME NEW at \in {"device", "portal"}, Step(at), at = "device" => axes' = elem.size
        PROVE  ElementInv'
    <2>1. /\ elem'.at = at /\ elem'.logical = elem.logical /\ elem'.size = elem.size
          /\ elem'.pixel = elem.pixel /\ elem'.since = elem.since /\ elem'.id = elem.id
          /\ elem'.global = elem.global /\ elem'.point = elem.point /\ IsElem'
      BY <1>1, <1>3 DEF Step, ElemFits, IsElem
    <2>2. InFrame'
      BY <1>1, <2>1 DEF ElemFits, InFrame, Still, Asked, Aimed
    <2>3. Past(elem.since)'
      BY <1>1, <2>1 DEF ElemFits, Past, Still, Asked, Aimed
    <2>4. elem'.since = changes' => Aims'
      BY <1>1, <2>1, AimsKept DEF ElemFits, Aimed, Still
    <2>5. ElemFits'
      BY <1>1, <1>3, <2>1, <2>2, <2>3, <2>4 DEF ElemFits, Asked, Aimed, Still
    <2>6. ElementIsHit'
      BY <2>1 DEF ElementIsHit, ElemAt
    <2> QED
      BY <1>1, <2>5, <2>6, DeskKept DEF ElementInv
  <1>4. AnswerElem("refused") \/ \E at \in {"device", "portal"} : Step(at) /\ (at = "device" => axes' = elem.size)
    BY DEF ReadyDevice, FitsDevice
  <1> QED
    BY <1>2, <1>3, <1>4

(* What is sent is where the click was aimed, through the device or the portal. *)
LEMMA ClickKeeps == ElementInv /\ ClickElement => ElementInv'
  <1> SUFFICES ASSUME ElementInv, ClickElement PROVE ElementInv'
    OBVIOUS
  <1>1. elem # Absent /\ elem.at \in {"device", "portal"} /\ Still /\ ElemFits
    BY DEF ClickElement, ElemAt, ElemOnly, Still, pointVars, deskVars, windowVars, ElementInv
  <1>2. CASE AnswerElem("error")
    BY <1>1, <1>2, NotSent
  <1>3. CASE elem' = [elem EXCEPT !.at = "done", !.answer = "sent",
                        !.hit = IF elem.at = "device" THEN SpotByDevice(elem.pixel) ELSE elem.logical]
    <2>0. UNCHANGED <<env, desktop, changes, wins, tree>>
      BY <1>1 DEF Still
    <2>1. /\ elem'.at = "done" /\ elem'.logical = elem.logical /\ elem'.size = elem.size
          /\ elem'.pixel = elem.pixel /\ elem'.since = elem.since /\ elem'.id = elem.id
          /\ elem'.global = elem.global /\ IsElem'
          /\ elem'.hit = IF elem.at = "device" THEN SpotByDevice(elem.pixel) ELSE elem.logical
      BY <1>1, <1>3 DEF ElemFits, IsElem
    <2>2. Past(elem.since)'
      BY <1>1, <2>1 DEF ElemFits, Past, Still, Asked, Aimed
    <2>3. ElemFits'
      BY <1>1, <2>1, <2>2 DEF ElemFits, Asked, Aimed, Still
    <2>4. ASSUME elem'.since = changes'
          PROVE  /\ \E w \in Open' : /\ ProcessOf[w] = ProcessOf[tree'.owner] /\ elem'.id \in {Absent, w}
                                     /\ wins'[w].shown
                                     /\ \E d \in [Axes -> -2..1] : /\ \A i \in Axes : d[i] \in Slack(i)'
                                                                  /\ Inside(Minus(elem'.hit, d), Around(wins'[w].frame))
                 /\ StillMeant' => Meant(Plus(wins[tree.owner].client.at, tree.offset))'
      <3>1. Aims
        BY <1>1, <2>0, <2>1, <2>4 DEF ElemFits, Aimed
      <3>2. elem.logical \in Pairs
        BY <3>1 DEF Aims
      <3>3. \A i \in Axes : elem'.hit[i] \in Int /\ elem'.hit[i] - elem.logical[i] \in Slack(i)
        <4>1. CASE elem.at = "device"
          <5>1. axes = elem.size
            BY <1>1, <4>1 DEF ElemFits
          <5>2. \A i \in Axes : elem'.hit[i] = Returned(i)
            BY <2>1, <4>1, <5>1 DEF SpotByDevice, Returned
          <5> QED
            BY <5>2, <3>1 DEF Aims, Lands
        <4>2. CASE elem.at = "portal"
          <5>1. \A i \in Axes : 0 \in Slack(i)
            BY <3>1 DEF Aims, Lands
          <5>2. \A i \in Axes : elem'.hit[i] = elem.logical[i] /\ elem.logical[i] \in Int
            BY <2>1, <3>2, <4>2 DEF Pairs
          <5> QED
            BY <5>1, <5>2
        <4> QED
          BY <1>1, <4>1, <4>2
      <3> DEFINE d == [i \in Axes |-> elem'.hit[i] - elem.logical[i]]
      <3>a. \A i \in Axes : Slack(i)' = Slack(i)
        BY <2>0, SlackSame
      <3>4. d \in [Axes -> -2..1] /\ \A i \in Axes : d[i] \in Slack(i)'
        <4>1. \A i \in Axes : d[i] \in Slack(i) /\ d[i] \in -2..1
          BY <3>3 DEF Slack
        <4> QED
          BY <4>1, <3>a
      <3>5. Minus(elem'.hit, d) = elem.logical
        <4>1. \A i \in Axes : elem'.hit[i] - d[i] = elem.logical[i]
          BY <3>2, <3>3 DEF Pairs
        <4>2. elem.logical = [i \in Axes |-> elem.logical[i]]
          BY <3>2 DEF Pairs
        <4> HIDE DEF d
        <4> QED
          BY <4>1, <4>2 DEF Minus
      <3> HIDE DEF d
      <3>6. PICK w \in Open : /\ ProcessOf[w] = ProcessOf[tree.owner] /\ elem.id \in {Absent, w}
                              /\ wins[w].shown /\ Inside(elem.logical, Around(wins[w].frame))
        BY <3>1 DEF Aims, InOwner
      <3>7. w \in Open' /\ Inside(Minus(elem'.hit, d), Around(wins'[w].frame))
        BY <2>0, <3>5, <3>6 DEF Open
      <3>8. ASSUME StillMeant'
            PROVE  Meant(Plus(wins[tree.owner].client.at, tree.offset))'
        <4>1. StillMeant
          BY <2>0, <2>1, <3>8 DEF StillMeant, StillTold, Open
        <4>2. elem.logical = Plus(wins[tree.owner].client.at, tree.offset)'
          BY <2>0, <3>1, <4>1 DEF Aims
        <4> QED
          BY <3>3, <3>a, <4>2 DEF Meant
      <3>9. /\ ProcessOf[w] = ProcessOf[tree'.owner] /\ elem'.id \in {Absent, w} /\ wins'[w].shown
        BY <2>0, <2>1, <3>6
      <3> QED
        BY <3>4, <3>7, <3>8, <3>9
    <2>5. ElementIsHit'
      BY <2>0, <2>4 DEF ElementIsHit
    <2> QED
      BY <1>1, <2>3, <2>5, DeskKept DEF ElementInv
  <1> QED
    BY <1>2, <1>3 DEF ClickElement

(* What the user does counts as a change, and a click that asked before it is not judged. *)
LEMMA ChangeKeeps == ElementInv /\ (WindowChanges \/ FrontChanges \/ MonitorsChange) => ElementInv'
  <1> SUFFICES ASSUME ElementInv, WindowChanges \/ FrontChanges \/ MonitorsChange PROVE ElementInv'
    OBVIOUS
  <1>1. UNCHANGED <<env, axes, tree, elem>> /\ changes \in Counts
    BY DEF WindowChanges, FrontChanges, MonitorsChange, MayMove, Rearrange, windowVars, ElementInv, DeskFits, DeskTyped
  <1>2. /\ changes' \in Counts
        /\ \A c : Past(c) => c # changes' /\ Past(c)'
    <2>1. \/ changes' = [changes EXCEPT !.window = @ + 1]
          \/ changes' = [changes EXCEPT !.monitors = @ + 1]
      BY DEF WindowChanges, FrontChanges, MonitorsChange, MayMove, Rearrange
    <2>2. /\ changes' \in Counts
          /\ changes'.monitors >= changes.monitors /\ changes'.window >= changes.window
          /\ changes'.monitors > changes.monitors \/ changes'.window > changes.window
      BY <1>1, <2>1 DEF Counts
    <2> QED
      BY <1>1, <2>2 DEF Past, Counts
  <1>3. wins' \in AllWindows
    BY DEF WindowChanges, FrontChanges, MonitorsChange, windowVars, ElementInv, DeskFits, DeskTyped, AllWindows
  <1>4. desktop' \in Desktops[env'.desk]
    BY <1>1 DEF WindowChanges, FrontChanges, MonitorsChange, MayMove, Rearrange, ElementInv, DeskFits, DeskTyped
  <1>5. DeskFits'
    BY <1>1, <1>2, <1>3, <1>4 DEF ElementInv, DeskFits, DeskTyped, TreeFits
  <1>6. ASSUME elem # Absent
        PROVE  ElemFits'
    BY <1>1, <1>2, <1>6 DEF ElementInv, ElemFits, InFrame, IsElem, Asked, Aimed
  <1>7. ElementIsHit'
    BY <1>1, <1>2 DEF ElementInv, ElemFits, ElementIsHit, ElemAt
  <1> QED
    BY <1>1, <1>5, <1>6, <1>7 DEF ElementInv

LEMMA InitElementInv == ElementInit => ElementInv
  BY ElementAssumption
     DEF ElementInit, RestInit, ElementInv, DeskFits, DeskTyped, Counts, AllWindows, ElementIsHit, ElemAt

(* ElementIsHit: a click on an element goes to a window of its process that is shown, and to
   the element while the tree is right, or is not sent. *)
THEOREM ElementsStayHit == ElementSpec => []ElementIsHit
  <1>1. ElementInv /\ [ElementNext]_elementVars => ElementInv'
    <2>1. ASSUME ElementInv, UNCHANGED elementVars PROVE ElementInv'
      <3>1. /\ UNCHANGED <<env, desktop, changes, axes, wins, tree, elem>>
            /\ \A i \in Axes : Slack(i)' = Slack(i)
        BY <2>1, SlackSame DEF elementVars, pointVars, deskVars, windowVars
      <3>2. DeskFits'
        BY <2>1, <3>1 DEF ElementInv, DeskFits, DeskTyped, TreeFits
      <3>3. elem # Absent => ElemFits'
        <4>1. Aims => Aims'
          BY <3>1, AimsKept DEF Still
        <4> QED
          BY <2>1, <3>1, <4>1 DEF ElementInv, ElemFits, IsElem, InFrame, Past
      <3>4. ElementIsHit'
        BY <2>1, <3>1 DEF ElementInv, ElementIsHit, ElemAt, StillMeant, StillTold, Open, Meant
      <3> QED
        BY <3>1, <3>2, <3>3, <3>4 DEF ElementInv
    <2> QED
      BY <2>1, ReadTreeKeeps, EarlyKeeps, ReadKwinKeeps, MapElementKeeps, ReadyDeviceKeeps,
         ClickKeeps, ChangeKeeps DEF ElementNext, ElementSteps
  <1>2. ElementInv => ElementIsHit
    BY DEF ElementInv
  <1> QED
    BY InitElementInv, <1>1, <1>2, PTL DEF ElementSpec

-----------------------------------------------------------------------------
(* The button is down only between the press and the release of one call, or while an
   error of it is undone. *)
Pressed == {"path", "release", "undo", "drop"}

ButtonInv ==
    /\ "at" \in DOMAIN aim
    /\ buttonDown => aim.at \in Pressed

LEMMA PicturesKeepUp == ButtonInv /\ (PictureSteps \/ Rearrange \/ WindowMoves) => ButtonInv'
  <1>1. PictureSteps \/ Rearrange \/ WindowMoves => UNCHANGED <<aim, buttonDown>>
    BY DEF PictureSteps, BeginPicture, TakePicture, PlaceWindow, ListAgain, WarnOffScreen, CropWindow,
           Rearrange, WindowMoves
  <1> QED
    BY <1>1 DEF ButtonInv

LEMMA AimKeepsUp == ButtonInv /\ AimSteps => ButtonInv'
  <1>1. ASSUME ButtonInv, NEW r \in Requests, BeginAim(r)
        PROVE  ButtonInv'
    <2>1. aim.at \notin Pressed /\ UNCHANGED buttonDown
      BY <1>1 DEF BeginAim, Pressed
    <2>2. "at" \in DOMAIN aim'
      BY <1>1 DEF BeginAim, NoAim
    <2> QED
      BY <2>1, <2>2, <1>1 DEF ButtonInv
  <1>2. ASSUME ButtonInv, FocusForPoint
        PROVE  ButtonInv'
    <2>1. aim.at \notin Pressed /\ UNCHANGED buttonDown
      BY <1>2 DEF FocusForPoint, Pressed
    <2>2. "at" \in DOMAIN aim'
      BY <1>2 DEF ButtonInv, FocusForPoint
    <2> QED
      BY <1>2, <2>1, <2>2 DEF ButtonInv
  <1>3. ASSUME ButtonInv, MapPoint
        PROVE  ButtonInv'
    <2>1. aim.at \notin Pressed /\ UNCHANGED buttonDown
      BY <1>3 DEF MapPoint, Pressed, AimOnly
    <2>2. "at" \in DOMAIN aim'
      BY <1>3 DEF ButtonInv, MapPoint, AnswerAim, AimOnly
    <2> QED
      BY <1>3, <2>1, <2>2 DEF ButtonInv
  <1>4. ASSUME ButtonInv, ChooseRoute
        PROVE  ButtonInv'
    <2>1. aim.at \notin Pressed /\ UNCHANGED buttonDown
      BY <1>4 DEF ChooseRoute, Pressed, AimOnly
    <2>2. "at" \in DOMAIN aim'
      BY <1>4 DEF ButtonInv, ChooseRoute, AimOnly
    <2> QED
      BY <1>4, <2>1, <2>2 DEF ButtonInv
  <1>5. ASSUME ButtonInv, PointByXServer
        PROVE  ButtonInv'
    <2>1. aim.at \notin Pressed /\ UNCHANGED buttonDown
      BY <1>5 DEF PointByXServer, Pressed, AimOnly
    <2>2. "at" \in DOMAIN aim'
      BY <1>5 DEF ButtonInv, PointByXServer, AnswerAim, AimOnly
    <2> QED
      BY <1>5, <2>1, <2>2 DEF ButtonInv
  <1>6. ASSUME ButtonInv, UseDevice
        PROVE  ButtonInv'
    <2>1. aim.at \notin Pressed /\ UNCHANGED buttonDown
      BY <1>6 DEF UseDevice, Pressed, AimOnly
    <2>2. "at" \in DOMAIN aim'
      BY <1>6 DEF ButtonInv, UseDevice, To, AimOnly
    <2> QED
      BY <1>6, <2>1, <2>2 DEF ButtonInv
  <1>7. ASSUME ButtonInv, DropStaleDevice
        PROVE  ButtonInv'
    <2>1. aim.at \notin Pressed /\ UNCHANGED buttonDown
      BY <1>7 DEF DropStaleDevice, Pressed
    <2>2. "at" \in DOMAIN aim'
      BY <1>7 DEF ButtonInv, DropStaleDevice
    <2> QED
      BY <1>7, <2>1, <2>2 DEF ButtonInv
  <1>8. ASSUME ButtonInv, SizeDevice
        PROVE  ButtonInv'
    <2>1. aim.at \notin Pressed /\ UNCHANGED buttonDown
      BY <1>8 DEF SizeDevice, Pressed
    <2>2. "at" \in DOMAIN aim'
      BY <1>8 DEF ButtonInv, SizeDevice, To
    <2> QED
      BY <1>8, <2>1, <2>2 DEF ButtonInv
  <1>9. ASSUME ButtonInv, MakeDevice
        PROVE  ButtonInv'
    <2>1. aim.at \notin Pressed /\ UNCHANGED buttonDown
      BY <1>9 DEF MakeDevice, Pressed
    <2>2. "at" \in DOMAIN aim'
      BY <1>9 DEF ButtonInv, MakeDevice, To, AnswerAim
    <2> QED
      BY <1>9, <2>1, <2>2 DEF ButtonInv
  <1>10. ASSUME ButtonInv, MoveDevice
        PROVE  ButtonInv'
    <2>1. aim.at \notin Pressed /\ UNCHANGED buttonDown
      BY <1>10 DEF MoveDevice, Pressed, AimOnly
    <2>2. "at" \in DOMAIN aim'
      BY <1>10 DEF ButtonInv, MoveDevice, Hit, To, AimOnly
    <2> QED
      BY <1>10, <2>1, <2>2 DEF ButtonInv
  <1>11. ASSUME ButtonInv, StartSession
        PROVE  ButtonInv'
    <2>1. aim.at \notin Pressed /\ UNCHANGED buttonDown
      BY <1>11 DEF StartSession, Pressed
    <2>2. "at" \in DOMAIN aim'
      BY <1>11 DEF ButtonInv, StartSession, AnswerAim
    <2> QED
      BY <1>11, <2>1, <2>2 DEF ButtonInv
  <1>12. ASSUME ButtonInv, UseSession
        PROVE  ButtonInv'
    <2>1. aim.at \notin Pressed /\ UNCHANGED buttonDown
      BY <1>12 DEF UseSession, Pressed
    <2>2. "at" \in DOMAIN aim'
      BY <1>12 DEF ButtonInv, UseSession
    <2> QED
      BY <1>12, <2>1, <2>2 DEF ButtonInv
  <1>13. ASSUME ButtonInv, MapToSession
        PROVE  ButtonInv'
    <2>1. aim.at \notin Pressed /\ UNCHANGED buttonDown
      BY <1>13 DEF MapToSession, Pressed
    <2>2. "at" \in DOMAIN aim'
      BY <1>13 DEF ButtonInv, MapToSession, LoseSession, AnswerAim
    <2> QED
      BY <1>13, <2>1, <2>2 DEF ButtonInv
  <1>14. ASSUME ButtonInv, CheckLayout
        PROVE  ButtonInv'
    <2>1. aim.at \notin Pressed /\ UNCHANGED buttonDown
      BY <1>14 DEF CheckLayout, Pressed
    <2>2. "at" \in DOMAIN aim'
      BY <1>14 DEF ButtonInv, CheckLayout, To, LoseSession, AnswerAim
    <2> QED
      BY <1>14, <2>1, <2>2 DEF ButtonInv
  <1>15. ASSUME ButtonInv, SendToStreams
        PROVE  ButtonInv'
    <2>1. aim.at \notin Pressed /\ UNCHANGED buttonDown
      BY <1>15 DEF SendToStreams, Pressed
    <2>2. "at" \in DOMAIN aim'
      BY <1>15 DEF ButtonInv, SendToStreams, LoseSession, AnswerAim
    <2> QED
      BY <1>15, <2>1, <2>2 DEF ButtonInv
  <1>16. ASSUME ButtonInv, NotePoint
        PROVE  ButtonInv'
    <2>1. aim.at \notin Pressed /\ UNCHANGED buttonDown
      BY <1>16 DEF NotePoint, Pressed, AimOnly
    <2>2. "at" \in DOMAIN aim'
      BY <1>16 DEF ButtonInv, NotePoint, To, AfterNotes, AimOnly, Noted
    <2> QED
      BY <1>16, <2>1, <2>2 DEF ButtonInv
  <1>17. ASSUME ButtonInv, ReadMonitors
        PROVE  ButtonInv'
    <2>1. aim.at \notin Pressed /\ UNCHANGED buttonDown
      BY <1>17 DEF ReadMonitors, Pressed, AimOnly
    <2>2. "at" \in DOMAIN aim'
      BY <1>17 DEF ButtonInv, ReadMonitors, AimOnly
    <2> QED
      BY <1>17, <2>1, <2>2 DEF ButtonInv
  <1>18. ASSUME ButtonInv, KeepMonitors
        PROVE  ButtonInv'
    <2>1. aim.at \notin Pressed /\ UNCHANGED buttonDown
      BY <1>18 DEF KeepMonitors, Pressed
    <2>2. "at" \in DOMAIN aim'
      BY <1>18 DEF ButtonInv, KeepMonitors, Noted
    <2> QED
      BY <1>18, <2>1, <2>2 DEF ButtonInv
  <1>19. ASSUME ButtonInv, PressButton
        PROVE  ButtonInv'
    BY <1>19 DEF ButtonInv, PressButton, Pressed, To
  <1>20. ASSUME ButtonInv, FollowPath
        PROVE  ButtonInv'
    BY <1>20 DEF ButtonInv, FollowPath, Pressed, Hit, To, AimOnly
  <1>21. ASSUME ButtonInv, ReleaseButton
        PROVE  ButtonInv'
    BY <1>21 DEF ButtonInv, ReleaseButton, Pressed, To
  <1>22. ASSUME ButtonInv, UndoPress
        PROVE  ButtonInv'
    BY <1>22 DEF ButtonInv, UndoPress, Pressed, To
  <1>23. ASSUME ButtonInv, DropDevice
        PROVE  ButtonInv'
    BY <1>23 DEF ButtonInv, DropDevice, Pressed, AnswerAim
  <1> QED
    BY <1>1, <1>2, <1>3, <1>4, <1>5, <1>6, <1>7, <1>8, <1>9, <1>10, <1>11, <1>12, <1>13, <1>14, <1>15, <1>16, <1>17, <1>18, <1>19, <1>20, <1>21, <1>22, <1>23 DEF AimSteps

(* ButtonIsUp: whichever step of a click or a drag fails, no button stays down when the
   call has been answered. *)
THEOREM ButtonComesUp == PointSpec => []ButtonIsUp
  <1>1. PointInit => ButtonInv
    BY DEF PointInit, RestInit, ButtonInv, NoAim
  <1>2. ButtonInv /\ [PointNext]_pointVars => ButtonInv'
    <2>1. ButtonInv /\ UNCHANGED pointVars => ButtonInv'
      BY DEF ButtonInv, pointVars, deskVars
    <2> QED
      BY <2>1, PicturesKeepUp, AimKeepsUp DEF PointNext
  <1>3. ButtonInv => ButtonIsUp
    BY DEF ButtonInv, ButtonIsUp, Pressed
  <1> QED
    BY <1>1, <1>2, <1>3, PTL DEF PointSpec

-----------------------------------------------------------------------------
(* A pixel is in the rectangle rounded outward just if it shows some of what the rectangle
   was made from. *)
LEMMA PixelShows ==
    ASSUME NEW x \in Int, NEW A \in Int, NEW C \in Int, NEW B \in Int, B > 0
    PROVE  /\ A \div B <= x <=> (x + 1) * B > A
           /\ x < RoundUp(C, B) <=> x * B < C
           /\ A \div B \in Int /\ RoundUp(C, B) \in Int
  <1> DEFINE l == A \div B
             h == (-C) \div B
  <1>1. l \in Int /\ B * l <= A /\ A < B * l + B
    BY Quotient
  <1>2. h \in Int /\ B * h <= -C /\ -C < B * h + B
    BY Quotient
  <1>3. RoundUp(C, B) = -h /\ A \div B = l
    BY DEF RoundUp
  <1> HIDE DEF l, h
  <1>4. l <= x <=> (x + 1) * B > A
    <2>1. CASE l <= x
      <3>1. B * (l + 1) <= B * (x + 1)
        BY <2>1, <1>1
      <3> QED
        BY <3>1, <2>1, <1>1
    <2>2. CASE ~(l <= x)
      <3>1. B * (x + 1) <= B * l
        BY <2>2, <1>1
      <3> QED
        BY <3>1, <2>2, <1>1
    <2> QED
      BY <2>1, <2>2
  <1>5. x < -h <=> x * B < C
    <2>1. CASE x < -h
      <3>1. B * x <= B * (-h - 1)
        BY <2>1, <1>2
      <3>2. B * (-h - 1) = -(B * h + B)
        BY <1>2
      <3>3. B * x = x * B
        OBVIOUS
      <3>4. B * x < C
        BY <3>1, <3>2, <1>2
      <3> QED
        BY <3>3, <3>4, <2>1
    <2>2. CASE ~(x < -h)
      <3>1. B * (-h) <= B * x
        BY <2>2, <1>2
      <3>2. B * (-h) = -(B * h) /\ B * x = x * B
        BY <1>2
      <3>3. B * x \in Int /\ B * h \in Int
        BY <1>2
      <3>4. C <= B * x
        BY <3>1, <3>2, <3>3, <1>2
      <3> QED
        BY <3>2, <3>3, <3>4, <2>2
    <2> QED
      BY <2>1, <2>2
  <1> QED
    BY <1>1, <1>2, <1>3, <1>4, <1>5

(* What is left of a rectangle on the picture are its pixels that are on it. *)
LEMMA ClipCells ==
    ASSUME NEW r, NEW size, \A i \in Axes : r.at[i] \in Int /\ r.size[i] \in Int /\ size[i] \in Int,
           Clip(r, size) # Absent
    PROVE  /\ \A i \in Axes : size[i] > 0
           /\ \A x, y \in Int :
                 <<x, y>> \in Cells(Clip(r, size)) <=>
                     /\ 0 <= x /\ x < size[1] /\ r.at[1] <= x /\ x < r.at[1] + r.size[1]
                     /\ 0 <= y /\ y < size[2] /\ r.at[2] <= y /\ y < r.at[2] + r.size[2]
  <1> DEFINE low == [i \in Axes |-> Max({r.at[i], 0})]
             high == [i \in Axes |-> Min({Far(r)[i], size[i]})]
  <1>1. /\ \A i \in Axes : high[i] > low[i] \/ ~(high[i] <= low[i])
        /\ Clip(r, size) = [at |-> low, size |-> [i \in Axes |-> high[i] - low[i]]]
    BY DEF Clip
  <1>2. \A i \in Axes : Far(r)[i] = r.at[i] + r.size[i] /\ Far(r)[i] \in Int
    BY DEF Far
  <1>3. ASSUME NEW i \in Axes
        PROVE  /\ low[i] = IF r.at[i] >= 0 THEN r.at[i] ELSE 0
               /\ high[i] = IF Far(r)[i] <= size[i] THEN Far(r)[i] ELSE size[i]
    <2>1. low[i] = Max({r.at[i], 0}) /\ high[i] = Min({Far(r)[i], size[i]})
      OBVIOUS
    <2>2. r.at[i] \in Int /\ Far(r)[i] \in Int /\ size[i] \in Int
      BY <1>2
    <2>3. Max({r.at[i], 0}) = IF r.at[i] >= 0 THEN r.at[i] ELSE 0
      BY <2>2, MaxOfTwo
    <2>4. Min({Far(r)[i], size[i]}) = IF Far(r)[i] <= size[i] THEN Far(r)[i] ELSE size[i]
      BY <2>2, MaxOfTwo
    <2> HIDE DEF low, high
    <2> QED
      BY <2>1, <2>3, <2>4
  <1> HIDE DEF low, high
  <1>4. \A i \in Axes : low[i] \in Int /\ high[i] \in Int /\ low[i] >= 0
    BY <1>2, <1>3
  <1>5. \A i \in Axes : size[i] > 0
    BY <1>1, <1>2, <1>3, <1>4
  <1>6. Cells(Clip(r, size)) = (low[1] .. high[1] - 1) \X (low[2] .. high[2] - 1)
    <2>1. 1 \in Axes /\ 2 \in Axes
      BY DEF Axes
    <2>2. \A i \in Axes : Far(Clip(r, size))[i] = high[i]
      BY <1>1, <1>4 DEF Far
    <2> QED
      BY <1>1, <2>1, <2>2 DEF Cells
  <1>7. 1 \in Axes /\ 2 \in Axes
    BY DEF Axes
  <1>8. ASSUME NEW i \in Axes, NEW x \in Int
        PROVE  x \in low[i] .. high[i] - 1 <=> 0 <= x /\ x < size[i] /\ r.at[i] <= x /\ x < r.at[i] + r.size[i]
    BY <1>2, <1>3, <1>4
  <1> QED
    BY <1>5, <1>6, <1>7, <1>8

(* A window rounded outward and clipped to the picture is the window's pixels, as they are told
   by the box and the scale that it was rounded with. *)
Shows(box, scale, size) ==
    {p \in (0 .. size[1] - 1) \X (0 .. size[2] - 1) :
        \A i \in Axes : /\ (p[i] + 1) * box.size[i] > (window.at[i] - box.at[i]) * scale[i]
                        /\ p[i] * box.size[i] < (Far(window)[i] - box.at[i]) * scale[i]}

LEMMA OutwardShows ==
    ASSUME NEW box, NEW scale, NEW size, window \in Rectangles,
           \A i \in Axes : box.at[i] \in Int /\ box.size[i] \in Int /\ box.size[i] >= 1
                         /\ scale[i] \in Int /\ size[i] \in Int,
           Clip(Outward(window, box, scale), size) # Absent
    PROVE  Cells(Clip(Outward(window, box, scale), size)) = Shows(box, scale, size)
  <1> DEFINE r == Outward(window, box, scale)
             A(i) == (window.at[i] - box.at[i]) * scale[i]
             C(i) == (Far(window)[i] - box.at[i]) * scale[i]
             B(i) == box.size[i]
  <1>1. \A i \in Axes : window.at[i] \in Int /\ window.size[i] \in Nat /\ Far(window)[i] \in Int
    BY DEF Rectangles, Pairs, Far
  <1>2. \A i \in Axes : A(i) \in Int /\ C(i) \in Int /\ B(i) \in Int /\ B(i) > 0
    <2> TAKE i \in Axes
    <2>1. window.at[i] - box.at[i] \in Int /\ Far(window)[i] - box.at[i] \in Int
      BY <1>1
    <2> QED
      BY <2>1
  <1>3. \A i \in Axes : r.at[i] = A(i) \div B(i) /\ r.size[i] = RoundUp(C(i), B(i)) - A(i) \div B(i)
    BY DEF Outward
  <1> HIDE DEF r, A, C, B
  <1>4. ASSUME NEW i \in Axes
        PROVE  A(i) \div B(i) \in Int /\ RoundUp(C(i), B(i)) \in Int
    <2>1. 0 \in Int
      OBVIOUS
    <2> QED
      BY <1>2, <2>1, PixelShows
  <1>5. \A i \in Axes : r.at[i] \in Int /\ r.size[i] \in Int /\ r.at[i] + r.size[i] = RoundUp(C(i), B(i))
    BY <1>3, <1>4
  <1>6. ASSUME NEW i \in Axes, NEW x \in Int
        PROVE  r.at[i] <= x /\ x < r.at[i] + r.size[i] <=> (x + 1) * B(i) > A(i) /\ x * B(i) < C(i)
    <2>1. /\ A(i) \div B(i) <= x <=> (x + 1) * B(i) > A(i)
          /\ x < RoundUp(C(i), B(i)) <=> x * B(i) < C(i)
      BY <1>2, PixelShows
    <2> QED
      BY <2>1, <1>3, <1>5
  <1>7. /\ \A i \in Axes : size[i] > 0
        /\ \A x, y \in Int :
              <<x, y>> \in Cells(Clip(r, size)) <=>
                  /\ 0 <= x /\ x < size[1] /\ r.at[1] <= x /\ x < r.at[1] + r.size[1]
                  /\ 0 <= y /\ y < size[2] /\ r.at[2] <= y /\ y < r.at[2] + r.size[2]
    <2>1. Clip(r, size) # Absent
      BY DEF r
    <2> QED
      BY <2>1, <1>5, ClipCells
  <1>8. 1 \in Axes /\ 2 \in Axes /\ \A i \in Axes : i = 1 \/ i = 2
    BY DEF Axes
  <1>9. ASSUME NEW x \in Int, NEW y \in Int
        PROVE  <<x, y>> \in Shows(box, scale, size) <=>
                   /\ 0 <= x /\ x < size[1] /\ (x + 1) * B(1) > A(1) /\ x * B(1) < C(1)
                   /\ 0 <= y /\ y < size[2] /\ (y + 1) * B(2) > A(2) /\ y * B(2) < C(2)
    <2>1. <<x, y>> \in (0 .. size[1] - 1) \X (0 .. size[2] - 1) <=>
              0 <= x /\ x < size[1] /\ 0 <= y /\ y < size[2]
      BY <1>8
    <2>2. (\A i \in Axes : (<<x, y>>[i] + 1) * B(i) > A(i) /\ <<x, y>>[i] * B(i) < C(i)) <=>
              /\ (x + 1) * B(1) > A(1) /\ x * B(1) < C(1)
              /\ (y + 1) * B(2) > A(2) /\ y * B(2) < C(2)
      BY <1>8
    <2> QED
      BY <2>1, <2>2 DEF Shows, A, B, C
  <1>10. ASSUME NEW x \in Int, NEW y \in Int
         PROVE  <<x, y>> \in Cells(Clip(r, size)) <=> <<x, y>> \in Shows(box, scale, size)
    BY <1>6, <1>7, <1>8, <1>9
  <1>11. Shows(box, scale, size) \in SUBSET (Int \X Int)
    BY <1>8 DEF Shows
  <1>12. Cells(Clip(r, size)) \in SUBSET (Int \X Int)
    BY <1>8 DEF Cells
  <1>13. \A p \in Int \X Int : p = <<p[1], p[2]>> /\ p[1] \in Int /\ p[2] \in Int
    OBVIOUS
  <1>14. Cells(Clip(r, size)) = Shows(box, scale, size)
    <2>1. ASSUME NEW p \in Int \X Int
          PROVE  p \in Cells(Clip(r, size)) <=> p \in Shows(box, scale, size)
      <3>1. p = <<p[1], p[2]>> /\ p[1] \in Int /\ p[2] \in Int
        BY <1>13
      <3> QED
        BY <3>1, <1>10
    <2> QED
      BY <2>1, <1>11, <1>12
  <1> QED
    BY <1>14 DEF r

(* The X server's bounds are pixels already. *)
LEMMA PixelsShow ==
    ASSUME NEW size, window \in Rectangles, \A i \in Axes : size[i] \in Int,
           Clip(window, size) # Absent
    PROVE  Cells(Clip(window, size)) = Shows([at |-> <<0, 0>>, size |-> <<2, 2>>], <<2, 2>>, size)
  <1> DEFINE box == [at |-> <<0, 0>>, size |-> <<2, 2>>]
             scale == <<2, 2>>
  <1>1. \A i \in Axes : window.at[i] \in Int /\ window.size[i] \in Int
                        /\ Far(window)[i] = window.at[i] + window.size[i] /\ Far(window)[i] \in Int
    BY DEF Rectangles, Pairs, Far
  <1>2. /\ \A i \in Axes : size[i] > 0
        /\ \A x, y \in Int :
              <<x, y>> \in Cells(Clip(window, size)) <=>
                  /\ 0 <= x /\ x < size[1] /\ window.at[1] <= x /\ x < window.at[1] + window.size[1]
                  /\ 0 <= y /\ y < size[2] /\ window.at[2] <= y /\ y < window.at[2] + window.size[2]
    BY <1>1, ClipCells
  <1>3. \A i \in Axes : box.at[i] = 0 /\ box.size[i] = 2 /\ scale[i] = 2
    BY DEF Axes
  <1> HIDE DEF box, scale
  <1>4. ASSUME NEW i \in Axes, NEW x \in Int
        PROVE  window.at[i] <= x /\ x < window.at[i] + window.size[i] <=>
                  /\ (x + 1) * box.size[i] > (window.at[i] - box.at[i]) * scale[i]
                  /\ x * box.size[i] < (Far(window)[i] - box.at[i]) * scale[i]
    <2> DEFINE a == window.at[i]
               f == Far(window)[i]
    <2>1. a \in Int /\ f \in Int /\ f = window.at[i] + window.size[i]
      BY <1>1
    <2>2. box.size[i] = 2 /\ box.at[i] = 0 /\ scale[i] = 2
      BY <1>3
    <2> HIDE DEF a, f
    <2>3. (x + 1) * 2 > (a - 0) * 2 <=> x + 1 > a
      BY <2>1
    <2>4. x * 2 < (f - 0) * 2 <=> x < f
      BY <2>1
    <2> QED
      BY <2>1, <2>2, <2>3, <2>4 DEF a, f
  <1>8. 1 \in Axes /\ 2 \in Axes /\ \A i \in Axes : i = 1 \/ i = 2
    BY DEF Axes
  <1>9. ASSUME NEW x \in Int, NEW y \in Int
        PROVE  <<x, y>> \in Shows(box, scale, size) <=>
                   /\ 0 <= x /\ x < size[1] /\ window.at[1] <= x /\ x < window.at[1] + window.size[1]
                   /\ 0 <= y /\ y < size[2] /\ window.at[2] <= y /\ y < window.at[2] + window.size[2]
    <2>1. <<x, y>> \in (0 .. size[1] - 1) \X (0 .. size[2] - 1) <=>
              0 <= x /\ x < size[1] /\ 0 <= y /\ y < size[2]
      BY <1>8
    <2> DEFINE Meet(i, v) == /\ (v + 1) * box.size[i] > (window.at[i] - box.at[i]) * scale[i]
                              /\ v * box.size[i] < (Far(window)[i] - box.at[i]) * scale[i]
    <2>2. (\A i \in Axes : Meet(i, <<x, y>>[i])) <=> Meet(1, x) /\ Meet(2, y)
      <3> HIDE DEF Meet
      <3> QED
        BY <1>8
    <2>3. /\ Meet(1, x) <=> window.at[1] <= x /\ x < window.at[1] + window.size[1]
          /\ Meet(2, y) <=> window.at[2] <= y /\ y < window.at[2] + window.size[2]
      BY <1>4, <1>8
    <2> QED
      BY <2>1, <2>2, <2>3 DEF Shows
  <1>10. ASSUME NEW x \in Int, NEW y \in Int
         PROVE  <<x, y>> \in Cells(Clip(window, size)) <=> <<x, y>> \in Shows(box, scale, size)
    BY <1>2, <1>9
  <1>11. Shows(box, scale, size) \in SUBSET (Int \X Int)
    BY <1>8 DEF Shows
  <1>12. Cells(Clip(window, size)) \in SUBSET (Int \X Int)
    BY <1>8 DEF Cells
  <1>13. \A p \in Int \X Int : p = <<p[1], p[2]>> /\ p[1] \in Int /\ p[2] \in Int
    OBVIOUS
  <1>14. Cells(Clip(window, size)) = Shows(box, scale, size)
    <2>1. ASSUME NEW p \in Int \X Int
          PROVE  p \in Cells(Clip(window, size)) <=> p \in Shows(box, scale, size)
      <3>1. p = <<p[1], p[2]>> /\ p[1] \in Int /\ p[2] \in Int
        BY <1>13
      <3> QED
        BY <3>1, <1>10
    <2> QED
      BY <2>1, <1>11, <1>12
  <1> QED
    BY <1>14 DEF box, scale

(* The box around one rectangle. *)
LEMMA BoxOfOne ==
    ASSUME NEW r, \A i \in Axes : r.at[i] \in Int /\ r.size[i] \in Int
    PROVE  \A i \in Axes : Box({r}).at[i] = r.at[i] /\ Box({r}).size[i] = r.size[i]
  <1> TAKE i \in Axes
  <1>1. {q.at[i] : q \in {r}} = {r.at[i]} /\ {Far(q)[i] : q \in {r}} = {Far(r)[i]}
    OBVIOUS
  <1>2. \A x \in Int : Min({x}) = x /\ Max({x}) = x
    BY DEF Min, Max
  <1>3. Far(r)[i] = r.at[i] + r.size[i] /\ Far(r)[i] \in Int
    BY DEF Far
  <1> DEFINE at == r.at[i]
             far == Far(r)[i]
  <1>4. at \in Int /\ far \in Int /\ far - at = r.size[i]
    BY <1>3
  <1>5. Box({r}).at[i] = Min({at}) /\ Box({r}).size[i] = Max({far}) - Min({at})
    BY <1>1 DEF Box
  <1> HIDE DEF at, far
  <1>6. Min({at}) = at /\ Max({far}) = far
    BY <1>2, <1>4
  <1> QED
    BY <1>4, <1>5, <1>6 DEF at

(* A scale taken from a whole number of pixels, less than half a unit short of the desktop, finds
   every pixel that shows some of an interval, and at most the one before it. *)
LEMMA NearlyShown ==
    ASSUME NEW U \in Int, NEW S \in Int, NEW s \in Int, NEW e \in 0..1, U >= 1, s >= 1,
           2 * S = U * s - e, NEW X \in Int, NEW Y \in Int, X < Y, NEW n \in Int, 0 <= n, n < S
    PROVE  /\ (n + 1) * 2 > X * s /\ n * 2 < Y * s => (n + 1) * U > X * S /\ n * U < Y * S
           /\ (n + 1) * U > X * S /\ n * U < Y * S =>
                 \/ (n + 1) * 2 > X * s /\ n * 2 < Y * s
                 \/ e = 1 /\ (n + 2) * 2 > X * s /\ (n + 1) * 2 < Y * s
  <1> DEFINE A == 2 * (n + 1) - X * s
             B == Y * s - 2 * n
  <1>1. A \in Int /\ B \in Int /\ X * s \in Int /\ Y * s \in Int
    OBVIOUS
  <1>2. 2 * ((n + 1) * U - X * S) = U * A + X * e
    <2>1. 2 * ((n + 1) * U - X * S) = U * (2 * (n + 1)) - X * (2 * S)
      OBVIOUS
    <2>2. X * (2 * S) = X * (U * s - e)
      OBVIOUS
    <2>3. X * (U * s - e) = U * (X * s) - X * e
      OBVIOUS
    <2>4. U * A = U * (2 * (n + 1)) - U * (X * s)
      OBVIOUS
    <2> HIDE DEF A
    <2> QED
      BY <2>1, <2>2, <2>3, <2>4, <1>1
  <1>3. 2 * (Y * S - n * U) = U * B - Y * e
    <2>1. 2 * (Y * S - n * U) = Y * (2 * S) - U * (2 * n)
      OBVIOUS
    <2>2. Y * (2 * S) = Y * (U * s - e)
      OBVIOUS
    <2>3. Y * (U * s - e) = U * (Y * s) - Y * e
      OBVIOUS
    <2>4. U * B = U * (Y * s) - U * (2 * n)
      OBVIOUS
    <2> HIDE DEF B
    <2> QED
      BY <2>1, <2>2, <2>3, <2>4, <1>1
  <1>4. /\ (n + 1) * U > X * S <=> U * A + X * e > 0
        /\ n * U < Y * S <=> U * B - Y * e > 0
    <2>1. (n + 1) * U \in Int /\ X * S \in Int /\ n * U \in Int /\ Y * S \in Int
          /\ U * A + X * e \in Int /\ U * B - Y * e \in Int
      BY <1>1
    <2> HIDE DEF A, B
    <2> QED
      BY <1>2, <1>3, <2>1
  <1>5. /\ (n + 1) * 2 > X * s <=> A >= 1
        /\ n * 2 < Y * s <=> B >= 1
        /\ (n + 2) * 2 > X * s <=> A >= -1
        /\ (n + 1) * 2 < Y * s <=> B >= 3
    BY <1>1
  <1>6. U * s >= 1 /\ U * s \in Int /\ 2 * n <= U * s - e - 2
    BY SMT
  \* An end beyond the desktop is so by as many pixels as units at least.
  <1>a. A >= 1 => U * A + X * e > 0
    <2> SUFFICES ASSUME A >= 1 PROVE U * A + X * e > 0
      OBVIOUS
    <2>1. CASE X >= 0
      <3>1. U * A >= 1 /\ U * A \in Int
        <4> HIDE DEF A
        <4> QED
          BY <1>1
      <3>2. X * e >= 0 /\ X * e \in Int
        BY <2>1
      <3> QED
        BY <3>1, <3>2
    <2>2. CASE X < 0
      <3>1. X * s <= X
        BY <2>2
      <3>2. A >= 2 - X
        BY <3>1, <1>1
      <3>3. U * A >= A /\ U * A \in Int
        <4> HIDE DEF A
        <4> QED
          BY <1>1, <2>2, <3>2
      <3>4. X * e >= X /\ X * e \in Int
        BY <2>2
      <3> HIDE DEF A
      <3> QED
        BY <1>1, <3>2, <3>3, <3>4
    <2> QED
      BY <2>1, <2>2
  <1>b. B >= 1 => U * B - Y * e > 0
    <2> SUFFICES ASSUME B >= 1 PROVE U * B - Y * e > 0
      OBVIOUS
    <2>1. U * B >= U /\ U * B \in Int
      <3> HIDE DEF B
      <3> QED
        BY <1>1
    <2>2. CASE Y < U
      <3>1. Y * e < U /\ Y * e \in Int
        BY <2>2
      <3> HIDE DEF B
      <3> QED
        BY <2>1, <3>1
    <2>3. CASE Y >= U
      <3> DEFINE y == Y - U
      <3>1. y \in Int /\ y >= 0 /\ Y * s = U * s + y * s
        BY <2>3
      <3>2. B >= y * s + e + 2 /\ y * s \in Int /\ y * s >= y
        <4>1. y * s \in Int /\ y * s >= y
          <5> HIDE DEF y
          <5> QED
            BY <3>1
        <4> HIDE DEF y
        <4> QED
          BY <3>1, <4>1, <1>1, <1>6
      <3>3. B >= y + e + 2
        <4> HIDE DEF y, B
        <4> QED
          BY <3>1, <3>2, <1>1
      <3>4. U * B >= U * (y + e + 2)
        <4> HIDE DEF y, B
        <4> QED
          BY <3>1, <3>3, <1>1
      <3>5. U * (y + e + 2) = U * y + U * e + 2 * U /\ U * y >= y /\ U * y \in Int /\ U * e \in Int
        <4> HIDE DEF y, B
        <4> QED
          BY <3>1
      <3>6. Y * e = U * e + y * e /\ y * e <= y /\ y * e \in Int
        <4>1. Y = U + y
          BY <3>1
        <4> HIDE DEF y, B
        <4> QED
          BY <3>1, <4>1
      <3> HIDE DEF y, B
      <3> QED
        BY <2>1, <3>1, <3>4, <3>5, <3>6
    <2> QED
      BY <2>2, <2>3
  <1>c. U * B - Y * e > 0 => B >= 1
    <2> SUFFICES ASSUME U * B - Y * e > 0 PROVE B >= 1
      OBVIOUS
    <2>1. CASE Y >= 0
      <3>1. Y * e >= 0 /\ Y * e \in Int
        BY <2>1
      <3> HIDE DEF B
      <3>2. U * B > 0
        BY <3>1, <1>1
      <3> QED
        BY <3>2, <1>1
    <2>2. CASE Y < 0
      <3>1. Y * s <= Y
        BY <2>2
      <3>2. B <= Y
        BY <3>1, <1>1
      <3>3. U * B <= B /\ U * B \in Int
        <4> HIDE DEF B
        <4> QED
          BY <1>1, <2>2, <3>2
      <3>4. Y * e >= Y /\ Y * e \in Int
        BY <2>2
      <3> HIDE DEF B
      <3> QED
        BY <1>1, <3>2, <3>3, <3>4
    <2> QED
      BY <2>1, <2>2
  <1>d. ASSUME U * A + X * e > 0, A < 1
        PROVE  e = 1 /\ A = 0
    <2>1. X > 0
      <3>1. CASE X <= 0
        <4>1. X * s <= 0
          BY <3>1
        <4> QED
          BY <4>1, <1>1, <1>d
      <3> QED
        BY <3>1
    <2>2. U * A <= A /\ U * A <= 0 /\ U * A \in Int
      <3> HIDE DEF A
      <3> QED
        BY <1>1, <1>d
    <2>3. e = 1
      <3>1. CASE e = 0
        <4>1. X * e = 0
          BY <3>1
        <4> HIDE DEF A
        <4> QED
          BY <4>1, <2>2, <1>d
      <3> QED
        BY <3>1
    <2>4. U * A + X > 0
      <3>1. X * e = X
        BY <2>3
      <3> HIDE DEF A
      <3> QED
        BY <3>1, <1>d
    <2>5. X <= U
      <3>1. CASE X > U
        <4> DEFINE x == X - U
        <4>1. x \in Int /\ x >= 1 /\ X * s = U * s + x * s
          BY <3>1
        <4>2. x * s \in Int /\ x * s >= x
          <5> HIDE DEF x
          <5> QED
            BY <4>1
        <4>3. A <= -1 - x
          <5>1. 2 * (n + 1) <= U * s - 1
            BY <1>6, <2>3
          <5> HIDE DEF x
          <5> QED
            BY <5>1, <4>1, <4>2, <1>1, <1>6
        <4>4. U * A <= U * (-1 - x)
          <5> HIDE DEF x, A
          <5> QED
            BY <4>1, <4>3, <1>1
        <4>5. U * (-1 - x) = -U - U * x /\ U * x >= x /\ U * x \in Int
          <5> HIDE DEF x, A
          <5> QED
            BY <4>1
        <4>6. X = U + x
          BY <4>1
        <4> HIDE DEF x, A
        <4> QED
          BY <2>2, <2>4, <4>1, <4>4, <4>5, <4>6
      <3> QED
        BY <3>1
    <2>6. A = 0
      <3>1. CASE A <= -1
        <4>1. U * A <= -U
          <5> HIDE DEF A
          <5> QED
            BY <3>1, <1>1
        <4> HIDE DEF A
        <4> QED
          BY <4>1, <2>2, <2>4, <2>5
      <3> HIDE DEF A
      <3> QED
        BY <3>1, <1>1, <1>d
    <2> QED
      BY <2>3, <2>6
  <1>7. ASSUME A = 0
        PROVE  A >= -1 /\ B >= 3
    <2>1. (Y - X) * s = Y * s - X * s
      OBVIOUS
    <2>2. (Y - X) * s >= 1 /\ (Y - X) * s \in Int
      OBVIOUS
    <2> QED
      BY <1>7, <2>1, <2>2, <1>1
  <1> HIDE DEF A, B
  <1> QED
    BY <1>1, <1>4, <1>5, <1>a, <1>b, <1>c, <1>d, <1>7

(* The pixels of a picture, and of a window on it. *)
LEMMA PictureCells ==
    ASSUME \A i \in Axes : PictureSize(desktop)[i] \in Int
    PROVE  Picture = (0 .. PictureSize(desktop)[1] - 1) \X (0 .. PictureSize(desktop)[2] - 1)
  <1> DEFINE size == PictureSize(desktop)
             r == [at |-> <<0, 0>>, size |-> size]
  <1>1. 1 \in Axes /\ 2 \in Axes
    BY DEF Axes
  <1>2. r.at = <<0, 0>> /\ r.size = size
    OBVIOUS
  <1> HIDE DEF size
  <1>3. Far(r)[1] = size[1] /\ Far(r)[2] = size[2]
    BY <1>1 DEF Far, size
  <1>4. Cells(r) = (0 .. size[1] - 1) \X (0 .. size[2] - 1)
    BY <1>3 DEF Cells
  <1> QED
    BY <1>4 DEF Picture, size

LEMMA PixelsAreShown ==
    ASSUME \A i \in Axes : PictureSize(desktop)[i] \in Int
    PROVE  /\ Wayland => LET box == [at |-> Box(Rects(Shown(desktop))).at, size |-> <<2, 2>>]
                             s == PictureScale(desktop)
                         IN  PixelsOf(window) = Shows(box, <<s, s>>, PictureSize(desktop))
           /\ ~Wayland => PixelsOf(window) =
                             Shows([at |-> <<0, 0>>, size |-> <<2, 2>>], <<2, 2>>, PictureSize(desktop))
           /\ PixelsOf(window) \subseteq PixelsNear(window)
  <1> DEFINE size == PictureSize(desktop)
             box == [at |-> Box(Rects(Shown(desktop))).at, size |-> <<2, 2>>]
             s == PictureScale(desktop)
             zero == [at |-> <<0, 0>>, size |-> <<2, 2>>]
  <1>1. Picture = (0 .. size[1] - 1) \X (0 .. size[2] - 1)
    BY PictureCells
  <1>2. \A i \in Axes : box.size[i] = 2 /\ <<s, s>>[i] = s /\ zero.size[i] = 2 /\ zero.at[i] = 0
                        /\ <<2, 2>>[i] = 2 /\ box.at[i] = Box(Rects(Shown(desktop))).at[i]
    BY DEF Axes
  <1>3. PixelsOf(window) \subseteq PixelsNear(window)
    BY DEF PixelsOf, PixelsNear, Grazes
  <1> HIDE DEF size, box, s, zero
  <1>4. ASSUME Wayland PROVE PixelsOf(window) = Shows(box, <<s, s>>, size)
    <2>1. Scale = s /\ \A i \in Axes : Origin(i) = box.at[i]
      BY <1>2, <1>4 DEF Scale, Origin, s
    <2>2. \A i \in Axes, n \in Int :
             Meets(i, n, window) <=> /\ (n + 1) * box.size[i] > (window.at[i] - box.at[i]) * <<s, s>>[i]
                                     /\ n * box.size[i] < (Far(window)[i] - box.at[i]) * <<s, s>>[i]
      BY <1>2, <2>1 DEF Meets
    <2>3. \A p \in Picture, i \in Axes : p[i] \in Int
      BY <1>1 DEF Axes
    <2> QED
      BY <1>1, <2>2, <2>3 DEF PixelsOf, Shows
  <1>5. ASSUME ~Wayland PROVE PixelsOf(window) = Shows(zero, <<2, 2>>, size)
    <2>1. Scale = 2 /\ \A i \in Axes : Origin(i) = zero.at[i]
      BY <1>2, <1>5 DEF Scale, Origin
    <2>2. \A i \in Axes, n \in Int :
             Meets(i, n, window) <=> /\ (n + 1) * zero.size[i] > (window.at[i] - zero.at[i]) * <<2, 2>>[i]
                                     /\ n * zero.size[i] < (Far(window)[i] - zero.at[i]) * <<2, 2>>[i]
      BY <1>2, <2>1 DEF Meets
    <2>3. \A p \in Picture, i \in Axes : p[i] \in Int
      BY <1>1 DEF Axes
    <2> QED
      BY <1>1, <2>2, <2>3 DEF PixelsOf, Shows
  <1> QED
    BY <1>3, <1>4, <1>5 DEF size, box, s, zero

(* What the server takes for the window's pixels where it goes by the size of the picture. *)
LEMMA ShowsNearly ==
    ASSUME DeskTyped, Shown(desktop) # {}, window \in Places, Wayland, env.desk # "sway"
    PROVE  LET rough == Shows(Box(Rects(Shown(desktop))), PictureSize(desktop), PictureSize(desktop))
           IN  PixelsOf(window) \subseteq rough /\ rough \subseteq PixelsNear(window)
  <1> DEFINE size == PictureSize(desktop)
             box == Box(Rects(Shown(desktop)))
             s == PictureScale(desktop)
             X(i) == window.at[i] - box.at[i]
             Y(i) == Far(window)[i] - box.at[i]
             e(i) == (box.size[i] * s) % 2
  <1>1. s \in Int /\ s >= 1
    BY TopScaleIsOne DEF PictureScale
  <1>2. \A i \in Axes : box.at[i] \in Int /\ box.size[i] \in Int /\ box.size[i] >= 1 /\ size[i] \in Int
    BY BoxTyped, PictureTyped DEF DeskTyped
  <1>3. \A i \in Axes : size[i] = (box.size[i] * s) \div 2
    BY DEF PictureSize, InPixels
  <1>4. \A i \in Axes : X(i) \in Int /\ Y(i) \in Int /\ X(i) < Y(i)
    <2> HIDE DEF box
    <2>1. \A i \in Axes : window.at[i] \in Int /\ window.size[i] \in Int /\ window.size[i] >= 1
      BY DesktopAssumption DEF Pairs
    <2>2. \A i \in Axes : Far(window)[i] = window.at[i] + window.size[i]
      BY DEF Far
    <2> QED
      BY <1>2, <2>1, <2>2
  <1>5. Picture = (0 .. size[1] - 1) \X (0 .. size[2] - 1)
    BY <1>2, PictureCells
  <1>6. Scale = s /\ \A i \in Axes : Origin(i) = box.at[i]
    BY DEF Scale, Origin
  <1>7. \A i \in Axes : WholePixels(i) <=> e(i) = 0
    BY <1>6 DEF WholePixels
  <1> HIDE DEF size, box, s
  <1>8. \A i \in Axes, n \in Int : Meets(i, n, window) <=> (n + 1) * 2 > X(i) * s /\ n * 2 < Y(i) * s
    BY <1>6 DEF Meets
  <1>9. ASSUME NEW i \in Axes
        PROVE  e(i) \in 0..1 /\ 2 * size[i] = box.size[i] * s - e(i)
    <2> DEFINE k == box.size[i] * s
    <2>1. k \in Int
      BY <1>1, <1>2
    <2>2. size[i] = k \div 2 /\ e(i) = k % 2
      BY <1>3
    <2> HIDE DEF k, e
    <2>3. e(i) \in 0..1 /\ 2 * size[i] = k - e(i)
      BY <2>1, <2>2
    <2> QED
      BY <2>3 DEF k
  <1> HIDE DEF X, Y, e
  <1>10. ASSUME NEW i \in Axes, NEW n \in 0 .. size[i] - 1
         PROVE  /\ Meets(i, n, window) => (n + 1) * box.size[i] > X(i) * size[i] /\ n * box.size[i] < Y(i) * size[i]
                /\ (n + 1) * box.size[i] > X(i) * size[i] /\ n * box.size[i] < Y(i) * size[i] => Grazes(i, n, window)
    <2> DEFINE by(m) == (m + 1) * 2 > X(i) * s /\ m * 2 < Y(i) * s
               rough == (n + 1) * box.size[i] > X(i) * size[i] /\ n * box.size[i] < Y(i) * size[i]
    <2>1. n \in Int /\ 0 <= n /\ n < size[i] /\ n + 1 \in Int /\ (n + 1) + 1 = n + 2
      BY <1>2
    <2>2. /\ by(n) => rough
          /\ rough => \/ by(n)
                      \/ e(i) = 1 /\ (n + 2) * 2 > X(i) * s /\ (n + 1) * 2 < Y(i) * s
      <3> DEFINE U == box.size[i]
                 S == size[i]
                 x == X(i)
                 y == Y(i)
                 z == e(i)
      <3>1. U \in Int /\ S \in Int /\ z \in 0..1 /\ U >= 1 /\ 2 * S = U * s - z
        BY <1>2, <1>9
      <3>2. x \in Int /\ y \in Int /\ x < y /\ n \in Int /\ 0 <= n /\ n < S
        BY <1>4, <2>1
      <3> HIDE DEF U, S, x, y, z
      <3>3. /\ (n + 1) * 2 > x * s /\ n * 2 < y * s => (n + 1) * U > x * S /\ n * U < y * S
            /\ (n + 1) * U > x * S /\ n * U < y * S =>
                  \/ (n + 1) * 2 > x * s /\ n * 2 < y * s
                  \/ z = 1 /\ (n + 2) * 2 > x * s /\ (n + 1) * 2 < y * s
        BY <1>1, <3>1, <3>2, NearlyShown
      <3> QED
        BY <3>3 DEF U, S, x, y, z
    <2>3. (Meets(i, n, window) <=> by(n)) /\ (Meets(i, n + 1, window) <=> by(n + 1))
      BY <1>8, <2>1
    <2>4. rough => by(n) \/ (e(i) = 1 /\ by(n + 1))
      BY <2>1, <2>2
    <2>5. e(i) = 1 => ~WholePixels(i)
      BY <1>7
    <2> HIDE DEF by, rough
    <2>6. (Meets(i, n, window) => rough) /\ (rough => Grazes(i, n, window))
      BY <2>2, <2>3, <2>4, <2>5 DEF Grazes
    <2> QED
      BY <2>6 DEF rough
  <1>11. \A p \in Picture, i \in Axes : p[i] \in 0 .. size[i] - 1
    BY <1>5 DEF Axes
  <1>12. Shows(box, size, size) =
            {p \in Picture : \A i \in Axes : (p[i] + 1) * box.size[i] > X(i) * size[i]
                                             /\ p[i] * box.size[i] < Y(i) * size[i]}
    BY <1>5 DEF Shows, X, Y
  <1>13. PixelsOf(window) \subseteq Shows(box, size, size) /\ Shows(box, size, size) \subseteq PixelsNear(window)
    BY <1>10, <1>11, <1>12 DEF PixelsOf, PixelsNear
  <1> QED
    BY <1>13 DEF box, size

(* The crop that is found for the window as it is now. *)
LEMMA CropFits ==
    ASSUME DeskTyped, window \in Places, NEW monitors \in WorkspaceReads, NEW bounds \in ListedBounds,
           WindowMap(bounds, monitors, PictureSize(desktop)) # Absent,
           WindowMap(bounds, monitors, PictureSize(desktop)).crop # Absent,
           Shown(desktop) # {}
    PROVE  LET crop == WindowMap(bounds, monitors, PictureSize(desktop)).crop
           IN  PixelsOf(window) \subseteq Cells(crop) /\ Cells(crop) \subseteq PixelsNear(window)
  <1> DEFINE size == PictureSize(desktop)
             box == Box(Rects(Shown(desktop)))
             full == IF LogicalBounds THEN Outward(bounds, Box(monitors), size) ELSE bounds
  <1>1. window \in Rectangles /\ env.desk \in {"gnome", "kde", "hyprland", "sway", "x11"}
    <2>1. window \in [at : Pairs, size : [Axes -> Nat \ {0}]]
      BY DesktopAssumption
    <2>2. window \in Rectangles
      BY <2>1 DEF Rectangles
    <2> QED
      BY <2>2, DesktopAssumption DEF DeskTyped
  <1>2. \A i \in Axes : box.at[i] \in Int /\ box.size[i] \in Int /\ box.size[i] >= 1 /\ size[i] \in Int
    BY BoxTyped, PictureTyped DEF DeskTyped
  <1>3. size # Absent
    <2>1. size \in Pairs
      <3>1. size = [i \in Axes |-> size[i]]
        BY DEF PictureSize, InPixels, Far
      <3> HIDE DEF size
      <3> QED
        BY <3>1, <1>2 DEF Pairs
    <2> QED
      BY <2>1, DesktopAssumption
  <1>4. /\ bounds # Absent /\ (LogicalBounds => monitors # {})
        /\ WindowMap(bounds, monitors, size).crop = Clip(full, size) /\ Clip(full, size) # Absent
    <2> DEFINE part == Clip(full, size)
               map == WindowMap(bounds, monitors, size)
    <2>1. map # Absent
      OBVIOUS
    <2>2. map = IF bounds = Absent \/ (LogicalBounds /\ (monitors = {} \/ ~Even(Box(monitors), size)))
                THEN Absent ELSE IF part = Absent THEN Absent ELSE [crop |-> part, full |-> full]
      <3> HIDE DEF size
      <3> QED
        BY <1>3 DEF WindowMap
    <2> HIDE DEF map, part, full, size
    <2>3. bounds # Absent /\ (LogicalBounds => monitors # {}) /\ map.crop = part /\ part # Absent
      BY <2>1, <2>2
    <2> QED
      BY <2>3 DEF map, part
  <1>5. SUFFICES PixelsOf(window) \subseteq Cells(Clip(full, size)) /\ Cells(Clip(full, size)) \subseteq PixelsNear(window)
    BY <1>4
  <1>6. CASE LogicalBounds
    <2>1. env.desk \in {"gnome", "kde"} /\ bounds = window /\ Wayland
      BY <1>6 DEF LogicalBounds, ListedBounds, Wayland
    <2>2. monitors = {box} \/ monitors = Rects(Shown(desktop))
      BY <1>4, <1>6 DEF WorkspaceReads
    <2>3. \A i \in Axes : Box(monitors).at[i] = box.at[i] /\ Box(monitors).size[i] = box.size[i]
      <3>1. CASE monitors = {box}
        <4> HIDE DEF box
        <4> QED
          BY <3>1, <1>2, BoxOfOne
      <3>2. CASE monitors = Rects(Shown(desktop))
        BY <3>2
      <3> QED
        BY <2>2, <3>1, <3>2
    <2> HIDE DEF size, box
    <2>4. Outward(window, Box(monitors), size) = Outward(window, box, size)
      BY <2>3 DEF Outward
    <2>5. full = Outward(window, box, size)
      BY <1>6, <2>1, <2>4
    <2>6. Cells(Clip(full, size)) = Shows(box, size, size)
      BY <1>1, <1>2, <1>4, <2>5, OutwardShows
    <2>7. PixelsOf(window) \subseteq Shows(box, size, size) /\ Shows(box, size, size) \subseteq PixelsNear(window)
      BY <2>1, ShowsNearly DEF size, box
    <2> QED
      BY <2>6, <2>7
  <1>7. CASE ~LogicalBounds /\ Wayland
    <2>1. /\ env.desk \in {"hyprland", "sway"} /\ full = bounds
          /\ bounds = PixelBounds(PictureScale(desktop))
      BY <1>1, <1>4, <1>7 DEF LogicalBounds, Wayland, ListedBounds, HyprlandBounds, SwayBounds, PictureScale
    <2> DEFINE unit == [at |-> box.at, size |-> <<2, 2>>]
               s == PictureScale(desktop)
    <2>2. full = Outward(window, unit, <<s, s>>)
      BY <2>1 DEF PixelBounds
    <2>3. s \in Int /\ \A i \in Axes : unit.at[i] = box.at[i] /\ unit.size[i] = 2 /\ <<s, s>>[i] = s
      BY ScaleTyped DEF Axes
    <2>4. PixelsOf(window) = Shows(unit, <<s, s>>, size) /\ PixelsOf(window) \subseteq PixelsNear(window)
      BY <1>2, <1>7, PixelsAreShown
    <2> HIDE DEF size, box, full, unit, s
    <2>5. Cells(Clip(full, size)) = Shows(unit, <<s, s>>, size)
      BY <1>1, <1>2, <1>4, <2>2, <2>3, OutwardShows
    <2> QED
      BY <2>4, <2>5
  <1>8. CASE ~Wayland
    <2>1. env.desk = "x11" /\ ~LogicalBounds /\ bounds = window /\ full = window
      BY <1>8 DEF Wayland, LogicalBounds, ListedBounds
    <2>2. /\ PixelsOf(window) = Shows([at |-> <<0, 0>>, size |-> <<2, 2>>], <<2, 2>>, size)
          /\ PixelsOf(window) \subseteq PixelsNear(window)
      BY <1>2, <1>8, PixelsAreShown
    <2> HIDE DEF size, box, full
    <2> QED
      BY <1>1, <1>2, <1>4, <2>1, <2>2, PixelsShow
  <1> QED
    BY <1>6, <1>7, <1>8

-----------------------------------------------------------------------------
(* A window's picture keeps what was listed and how large the picture was while nothing
   changes. *)
IsShot ==
    shot = [at |-> shot.at, does |-> shot.does, bounds |-> shot.bounds, since |-> shot.since,
            size |-> shot.size, seen |-> shot.seen, says |-> shot.says, crop |-> shot.crop]

ShotFits ==
    /\ IsShot
    /\ shot.at \in {"idle", "move", "take", "list", "warn", "crop", "done"}
    /\ shot.at # "idle" => Past(shot.since)
    /\ shot.at # "done" => shot.crop = Absent
    /\ shot.at = "crop" => shot.does = "window"
    /\ shot.does = "window" => shot.at \notin {"move", "list"}
    /\ shot.at \in {"take", "warn", "crop"} /\ shot.does = "window" /\ shot.since = changes =>
          shot.bounds \in ListedBounds
    /\ shot.at \in {"warn", "crop"} /\ shot.does = "window" /\ shot.since = changes =>
          shot.size = PictureSize(desktop)

CropInv == DeskTyped /\ window \in Places /\ changes \in Counts /\ ShotFits /\ CropIsWindow

(* What is told of the window is told by the desktop alone. *)
LEMMA DeskSame ==
    ASSUME UNCHANGED deskVars
    PROVE  ListedBounds' = ListedBounds /\ PictureSize(desktop)' = PictureSize(desktop)
  BY DEF deskVars, ListedBounds, HyprlandBounds, SwayBounds, PixelBounds, PictureSize, PictureScale,
         TopScale, Wayland, Shown

LEMMA PixelsSame ==
    ASSUME UNCHANGED deskVars
    PROVE  PixelsOf(window)' = PixelsOf(window) /\ PixelsNear(window)' = PixelsNear(window)
  <1>1. Picture' = Picture
    BY DeskSame DEF Picture
  <1>2. Scale' = Scale /\ window' = window
    BY DEF Scale, deskVars, PictureScale, TopScale, Shown, Wayland
  <1>3. \A i \in Axes : Origin(i)' = Origin(i) /\ WholePixels(i)' = WholePixels(i)
    BY <1>2 DEF Origin, WholePixels, deskVars, Shown, Wayland
  <1>4. \A n : \A i \in Axes : Meets(i, n, window)' = Meets(i, n, window)
    BY <1>2, <1>3 DEF Meets
  <1>5. \A n : \A i \in Axes : Grazes(i, n, window)' = Grazes(i, n, window)
    BY <1>3, <1>4 DEF Grazes
  <1> QED
    BY <1>1, <1>4, <1>5 DEF PixelsOf, PixelsNear

(* Nothing changes, and the picture's call does not either. *)
LEMMA ShotKept == CropInv /\ UNCHANGED <<deskVars, shot>> => CropInv'
  <1> SUFFICES ASSUME CropInv, UNCHANGED <<deskVars, shot>> PROVE CropInv'
    OBVIOUS
  <1>1. UNCHANGED <<env, desktop, window, changes, shot>>
    BY DEF deskVars
  <1>2. ListedBounds' = ListedBounds /\ PictureSize(desktop)' = PictureSize(desktop)
    BY DeskSame
  <1>3. PixelsOf(window)' = PixelsOf(window) /\ PixelsNear(window)' = PixelsNear(window)
    BY PixelsSame
  <1>4. ShotFits'
    BY <1>1, <1>2 DEF CropInv, ShotFits, IsShot, Past
  <1>5. CropIsWindow'
    BY <1>1, <1>3 DEF CropInv, CropIsWindow
  <1> QED
    BY <1>1, <1>4, <1>5 DEF CropInv, DeskTyped

(* A step of the picture's call that is not its last. *)
LEMMA ShotSteps ==
    ASSUME CropInv, UNCHANGED <<env, desktop, changes>>, window' \in Places, ShotFits',
           shot'.at = "done" => shot'.crop = Absent
    PROVE  CropInv'
  BY DEF CropInv, DeskTyped, CropIsWindow

LEMMA PicturesKeepCrop == CropInv /\ PictureSteps => CropInv'
  <1>1. ASSUME CropInv, NEW does \in {"screen", "window", "move"}, BeginPicture(does)
        PROVE  CropInv'
    <2>1. UNCHANGED deskVars
      BY <1>1 DEF BeginPicture
    <2>2. PICK bounds \in IF does = "screen" THEN {Absent} ELSE ListedBounds :
             shot' = [NoShot EXCEPT !.at = IF does = "move" THEN "move" ELSE "take", !.does = does,
                                    !.bounds = bounds, !.since = changes]
      BY <1>1 DEF BeginPicture
    <2>3. /\ shot'.at = IF does = "move" THEN "move" ELSE "take"
          /\ shot'.does = does /\ shot'.bounds = bounds /\ shot'.since = changes
          /\ shot'.crop = Absent /\ IsShot'
      BY <2>2 DEF NoShot, IsShot
    <2>4. Past(shot.since)'
      BY <1>1, <2>1, <2>3 DEF CropInv, Past, Counts, deskVars
    <2>5. ShotFits'
      BY <2>1, <2>2, <2>3, <2>4, DeskSame DEF ShotFits
    <2> QED
      BY <1>1, <2>1, <2>3, <2>5, ShotSteps DEF deskVars, CropInv
  <1>2. ASSUME CropInv, TakePicture
        PROVE  CropInv'
    <2>1. UNCHANGED deskVars /\ shot.at = "take" /\ ShotFits
      BY <1>2 DEF TakePicture, CropInv
    <2>2. /\ shot'.at = IF shot.does = "window" /\ shot.bounds # Absent THEN "warn" ELSE "done"
          /\ shot'.does = shot.does /\ shot'.bounds = shot.bounds /\ shot'.since = shot.since
          /\ shot'.crop = Absent /\ shot'.size = PictureSize(desktop) /\ IsShot'
      BY <1>2, <2>1 DEF TakePicture, Pictured, ShotFits, IsShot
    <2>3. Past(shot.since)'
      BY <2>1, <2>2 DEF ShotFits, Past, deskVars
    <2>4. ShotFits'
      BY <2>1, <2>2, <2>3, DeskSame DEF ShotFits, deskVars
    <2> QED
      BY <1>2, <2>1, <2>2, <2>4, ShotSteps DEF deskVars, CropInv
  <1>3. ASSUME CropInv, PlaceWindow
        PROVE  CropInv'
    <2>1. UNCHANGED <<env, desktop, changes>> /\ window' \in Places /\ shot.at = "move" /\ ShotFits
      BY <1>3 DEF PlaceWindow, CropInv
    <2>2. /\ shot'.at \in {"list", "done"}
          /\ shot'.does = shot.does /\ shot'.since = shot.since /\ shot'.crop = Absent /\ IsShot'
      BY <1>3, <2>1 DEF PlaceWindow, ShotFits, IsShot
    <2>3. Past(shot.since)'
      BY <2>1, <2>2 DEF ShotFits, Past
    <2>4. ShotFits'
      BY <2>1, <2>2, <2>3 DEF ShotFits
    <2> QED
      BY <1>3, <2>1, <2>2, <2>4, ShotSteps
  <1>4. ASSUME CropInv, ListAgain
        PROVE  CropInv'
    <2>1. UNCHANGED deskVars /\ shot.at = "list" /\ ShotFits
      BY <1>4 DEF ListAgain, CropInv
    <2>2. PICK bounds \in ListedBounds :
             shot' = [shot EXCEPT !.at = "warn", !.bounds = bounds, !.since = changes]
      BY <1>4 DEF ListAgain
    <2>3. /\ shot'.at = "warn" /\ shot'.does = shot.does /\ shot'.since = changes
          /\ shot'.crop = Absent /\ IsShot'
      BY <2>1, <2>2 DEF ShotFits, IsShot
    <2>4. Past(shot.since)'
      BY <1>4, <2>1, <2>3 DEF CropInv, Past, Counts, deskVars
    <2>5. ShotFits'
      BY <2>1, <2>3, <2>4 DEF ShotFits
    <2> QED
      BY <1>4, <2>1, <2>3, <2>5, ShotSteps DEF deskVars, CropInv
  <1>5. ASSUME CropInv, WarnOffScreen
        PROVE  CropInv'
    <2>1. UNCHANGED deskVars /\ shot.at = "warn" /\ ShotFits
      BY <1>5 DEF WarnOffScreen, CropInv
    <2>2. /\ shot'.at = IF shot.does = "window" THEN "crop" ELSE "done"
          /\ shot'.does = shot.does /\ shot'.bounds = shot.bounds /\ shot'.since = shot.since
          /\ shot'.crop = Absent /\ shot'.size = shot.size /\ IsShot'
      <3>1. CASE shot' = [shot EXCEPT !.says = OffScreen(shot.bounds, Rects(Shown(desktop))),
                                      !.seen = changes.monitors,
                                      !.at = IF shot.does = "window" THEN "crop" ELSE "done"]
        BY <2>1, <3>1 DEF ShotFits, IsShot
      <3>2. CASE shot' = [shot EXCEPT
                            !.seen = view'.seen,
                            !.says = OffScreen(shot.bounds, {[at |-> <<0, 0>>, size |-> view'.size]}),
                            !.at = IF shot.does = "window" THEN "crop" ELSE "done"]
        BY <2>1, <3>2 DEF ShotFits, IsShot
      <3> QED
        BY <1>5, <3>1, <3>2 DEF WarnOffScreen
    <2>3. Past(shot.since)'
      BY <2>1, <2>2 DEF ShotFits, Past, deskVars
    <2>4. ShotFits'
      BY <2>1, <2>2, <2>3, DeskSame DEF ShotFits, deskVars
    <2> QED
      BY <1>5, <2>1, <2>2, <2>4, ShotSteps DEF deskVars, CropInv
  <1>6. ASSUME CropInv, CropWindow
        PROVE  CropInv'
    <2>1. UNCHANGED deskVars /\ shot.at = "crop" /\ ShotFits
      BY <1>6 DEF CropWindow, CropInv
    <2>2. PICK monitors \in WorkspaceReads :
             LET map == WindowMap(shot.bounds, monitors, shot.size)
             IN  shot' = [shot EXCEPT !.at = "done", !.crop = IF map = Absent THEN Absent ELSE map.crop]
      BY <1>6 DEF CropWindow
    <2> DEFINE map == WindowMap(shot.bounds, monitors, shot.size)
    <2>3. /\ shot'.at = "done" /\ shot'.does = shot.does /\ shot'.since = shot.since
          /\ shot'.crop = IF map = Absent THEN Absent ELSE map.crop
          /\ IsShot'
      <3> HIDE DEF map
      <3>1. shot' = [shot EXCEPT !.at = "done", !.crop = IF map = Absent THEN Absent ELSE map.crop]
        BY <2>2 DEF map
      <3> QED
        BY <2>1, <3>1 DEF ShotFits, IsShot
    <2>4. Past(shot.since)'
      BY <2>1, <2>3 DEF ShotFits, Past, deskVars
    <2>5. ShotFits'
      BY <2>1, <2>3, <2>4 DEF ShotFits
    <2>6. ASSUME shot'.since = changes', shot'.crop # Absent
          PROVE  PixelsOf(window)' \subseteq Cells(shot'.crop) /\ Cells(shot'.crop) \subseteq PixelsNear(window)'
      <3>1. shot.since = changes /\ shot.does = "window"
        BY <2>1, <2>3, <2>6 DEF ShotFits, deskVars
      <3>2. shot.bounds \in ListedBounds /\ shot.size = PictureSize(desktop)
        BY <2>1, <3>1 DEF ShotFits
      <3>3. map # Absent /\ map.crop # Absent /\ shot'.crop = map.crop
        BY <2>3, <2>6
      <3>4. Shown(desktop) # {}
        BY <1>6, DesktopAssumption DEF CropInv, DeskTyped, Shown
      <3>5. PixelsOf(window) \subseteq Cells(map.crop) /\ Cells(map.crop) \subseteq PixelsNear(window)
        BY <1>6, <3>2, <3>3, <3>4, CropFits DEF CropInv
      <3>6. PixelsOf(window)' = PixelsOf(window) /\ PixelsNear(window)' = PixelsNear(window)
        BY <2>1, PixelsSame
      <3> QED
        BY <3>3, <3>5, <3>6
    <2>7. CropIsWindow'
      BY <2>6 DEF CropIsWindow
    <2> QED
      BY <1>6, <2>1, <2>5, <2>7 DEF CropInv, deskVars, DeskTyped
  <1> QED
    BY <1>1, <1>2, <1>3, <1>4, <1>5, <1>6 DEF PictureSteps

LEMMA MovesKeepCrop == CropInv /\ (Rearrange \/ WindowMoves) => CropInv'
  <1> SUFFICES ASSUME CropInv, Rearrange \/ WindowMoves PROVE CropInv'
    OBVIOUS
  <1>1. UNCHANGED <<env, shot>> /\ ShotFits /\ changes \in Counts
    BY DEF Rearrange, WindowMoves, CropInv
  <1>2. /\ changes' \in Counts
        /\ \A c : Past(c) => c # changes' /\ Past(c)'
    <2>1. \/ changes' = [changes EXCEPT !.window = @ + 1]
          \/ changes' = [changes EXCEPT !.monitors = @ + 1]
      BY DEF Rearrange, WindowMoves
    <2>2. /\ changes' \in Counts
          /\ changes'.monitors >= changes.monitors /\ changes'.window >= changes.window
          /\ changes'.monitors > changes.monitors \/ changes'.window > changes.window
      BY <1>1, <2>1 DEF Counts
    <2> QED
      BY <1>1, <2>2 DEF Past, Counts
  <1>3. DeskTyped' /\ window' \in Places
    BY <1>1 DEF CropInv, DeskTyped, Rearrange, WindowMoves
  <1>4. ShotFits'
    BY <1>1, <1>2 DEF ShotFits, IsShot
  <1>5. CropIsWindow'
    BY <1>1, <1>2 DEF ShotFits, CropIsWindow
  <1> QED
    BY <1>2, <1>3, <1>4, <1>5 DEF CropInv

(* CropIsWindow: a cropped picture shows the window, all of it that is on the screen and
   nothing else, on every desktop, at every scale. *)
THEOREM CropsShowWindow == PointSpec => []CropIsWindow
  <1>1. PointInit => CropInv
    BY DEF PointInit, RestInit, CropInv, DeskTyped, Counts, ShotFits, IsShot, NoShot, CropIsWindow
  <1>2. CropInv /\ [PointNext]_pointVars => CropInv'
    <2>1. AimSteps => UNCHANGED <<deskVars, shot>>
      BY DEF AimSteps, BeginAim, FocusForPoint, MapPoint, ChooseRoute, PointByXServer, UseDevice,
             DropStaleDevice, SizeDevice, MakeDevice, MoveDevice, PressButton, FollowPath, ReleaseButton,
             UndoPress, DropDevice, StartSession, UseSession, MapToSession, CheckLayout, SendToStreams,
             NotePoint, ReadMonitors, KeepMonitors, AimOnly
    <2>2. UNCHANGED pointVars => UNCHANGED <<deskVars, shot>>
      BY DEF pointVars
    <2> QED
      BY <2>1, <2>2, ShotKept, PicturesKeepCrop, MovesKeepCrop DEF PointNext
  <1>3. CropInv => CropIsWindow
    BY DEF CropInv
  <1> QED
    BY <1>1, <1>2, <1>3, PTL DEF PointSpec
=============================================================================
