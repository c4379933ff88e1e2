---------------------------- MODULE Desktop_proof ----------------------------
(***************************************************************************)
(* What is set up around the input calls, for any number of calls and any  *)
(* bounds: the age of the diagnostics report, what a setup of the Shell's  *)
(* extension has done, what a call of the Pi extension says of its         *)
(* request, which session the server takes for its own, and what doctor    *)
(* says of a machine.                                                      *)
(***************************************************************************)
EXTENDS DiagnosticsCache, ExtensionSetup, PiClient, SessionEnvironment, DoctorReport,
        SequenceTheorems, TLAPS

(***************************************************************************)
(* DiagnosticsCache.  What a call returns says nothing of what the next    *)
(* one will, so the inductive invariant is about the entry and the probes  *)
(* under way:                                                              *)
(*   - whatever carries the present generation was read after the last     *)
(*     setup tool returned (EntrySettled, ProbeSettled);                   *)
(*   - whatever was read, was read after its entry's age began to count    *)
(*     (EntryAged, ProbeAged).                                             *)
(***************************************************************************)

Probing == {"probing", "read"}

CallsSettled == settled <= version /\ \A c \in Callers : floor[c] <= settled

EntrySettled ==
    entry # None =>
        /\ entry.generation <= generation
        /\ entry.generation = generation => entry.report.version >= settled

ProbeSettled ==
    \A c \in Callers :
        /\ pc[c] \in Probing => seen[c].generation <= generation
        /\ pc[c] = "read" =>
              /\ reading[c].version >= floor[c]
              /\ seen[c].generation = generation => reading[c].version >= settled

EntryAged == entry # None => entry.computedAt <= entry.report.readAt

ProbeAged ==
    \A c \in Callers :
        /\ pc[c] \in Probing => seen[c].now <= clock
        /\ pc[c] = "read" => seen[c].now <= reading[c].readAt

IInv ==
    /\ TypeOK /\ CallsSettled /\ EntrySettled /\ ProbeSettled /\ EntryAged /\ ProbeAged
    /\ SetupIsVisible /\ ReuseWithinTTL

(* The initial states satisfy the invariant: nothing is cached and nobody probes. *)
LEMMA InitIInv == Init => IInv
  <1> SUFFICES ASSUME Init PROVE IInv
    OBVIOUS
  <1> USE DiagnosticsAssumption DEF Init
  <1>1. TypeOK
    <2>1. NoReport \in Reports /\ NotSeen \in [generation : Nat, now : Nat]
      BY DEF NoReport, NotSeen, Reports
    <2>2. NoAnswer \in [report : Reports, probed : BOOLEAN, at : Nat]
      BY <2>1 DEF NoAnswer
    <2>3. waiting \in Seq(Callers)
      BY EmptySeq
    <2> QED
      BY <2>1, <2>2, <2>3 DEF TypeOK
  <1>2. CallsSettled /\ EntrySettled /\ ProbeSettled /\ EntryAged /\ ProbeAged
    BY DEF CallsSettled, EntrySettled, ProbeSettled, EntryAged, ProbeAged, Probing
  <1>3. SetupIsVisible /\ ReuseWithinTTL
    BY DEF SetupIsVisible, ReuseWithinTTL
  <1> QED
    BY <1>1, <1>2, <1>3 DEF IInv

(* Removing a waiting caller leaves a queue of callers. *)
LEMMA RemovalTyped ==
    ASSUME NEW q \in Seq(Callers), NEW i \in DOMAIN q
    PROVE  SubSeq(q, 1, i - 1) \o SubSeq(q, i + 1, Len(q)) \in Seq(Callers)
  <1>1. i \in 1..Len(q) /\ Len(q) \in Nat
    BY LenProperties
  <1>2. \A j \in 1..Len(q) : q[j] \in Callers
    BY ElementOfSeq
  <1>3. SubSeq(q, 1, i - 1) \in Seq(Callers) /\ SubSeq(q, i + 1, Len(q)) \in Seq(Callers)
    BY <1>1, <1>2, SubSeqProperties
  <1> QED
    BY <1>3, ConcatProperties

(* A call that ends leaves well-typed slots behind. *)
LEMMA GoneTyped ==
    ASSUME TypeOK, NEW c \in Callers, Gone(c)
    PROVE  /\ pc' \in [Callers -> {"idle", "waiting", "probing", "read", "returned"}]
           /\ refresh' \in [Callers -> BOOLEAN]
           /\ floor' \in [Callers -> Nat]
           /\ seen' \in [Callers -> [generation : Nat, now : Nat]]
           /\ reading' \in [Callers -> Reports]
           /\ answer' \in [Callers -> [report : Reports, probed : BOOLEAN, at : Nat]]
  <1> USE DEF TypeOK, Gone, NotSeen, NoReport, NoAnswer
  <1>1. NoReport \in Reports /\ NotSeen \in [generation : Nat, now : Nat]
    BY DEF Reports
  <1>2. NoAnswer \in [report : Reports, probed : BOOLEAN, at : Nat]
    BY <1>1
  <1> QED
    BY <1>1, <1>2

(* Every step keeps every variable in its type. *)
LEMMA TypeStep == IInv /\ [Next]_vars => TypeOK'
  <1> SUFFICES ASSUME IInv, [Next]_vars PROVE TypeOK'
    OBVIOUS
  <1> USE DiagnosticsAssumption DEF IInv, TypeOK, worldVars, mutexVars, callVars
  <1>1. ASSUME NEW c \in Callers, Call(c) PROVE TypeOK'
    BY SMTT(30), <1>1, AppendProperties DEF Call
  <1>2. ASSUME NEW c \in Callers, ReturnCached(c) PROVE TypeOK'
    <2>1. entry \in Entries
      BY <1>2 DEF ReturnCached, Hit
    <2>2. entry.report \in Reports
      BY <2>1 DEF Entries
    <2>3. waiting' \in Seq(Callers)
      BY <1>2, HeadTailProperties DEF ReturnCached, Lock
    <2> QED
      BY <1>2, <2>2, <2>3 DEF ReturnCached
  <1>3. ASSUME NEW c \in Callers, StartProbe(c) PROVE TypeOK'
    <2>1. waiting' \in Seq(Callers)
      BY <1>3, HeadTailProperties DEF StartProbe, Lock
    <2> QED
      BY <1>3, <2>1 DEF StartProbe
  <1>4. ASSUME NEW c \in Callers, ProbeReads(c) PROVE TypeOK'
    BY <1>4 DEF ProbeReads, Reports
  <1>5. ASSUME NEW c \in Callers, StoreReport(c) PROVE TypeOK'
    <2>1. entry' \in Entries
      BY <1>5 DEF StoreReport, NewEntry, Entries
    <2>2. answer' \in [Callers -> [report : Reports, probed : BOOLEAN, at : Nat]]
      BY <1>5 DEF StoreReport
    <2> QED
      BY <1>5, <2>1, <2>2 DEF StoreReport
  <1>6. ASSUME NEW c \in Callers, Forget(c) PROVE TypeOK'
    BY <1>6, GoneTyped DEF Forget
  <1>7. ASSUME NEW c \in Callers, CancelWaiting(c) PROVE TypeOK'
    <2>1. PICK i \in DOMAIN waiting :
             waiting' = SubSeq(waiting, 1, i - 1) \o SubSeq(waiting, i + 1, Len(waiting))
      BY <1>7 DEF CancelWaiting
    <2>2. waiting' \in Seq(Callers)
      BY <2>1, RemovalTyped
    <2> QED
      BY <1>7, <2>2, GoneTyped DEF CancelWaiting
  <1>8. ASSUME NEW c \in Callers, CancelProbing(c) PROVE TypeOK'
    BY <1>8, GoneTyped DEF CancelProbing
  <1>9. CASE Invalidate
    BY <1>9 DEF Invalidate
  <1>10. CASE SetupChanges
    BY <1>10 DEF SetupChanges
  <1>11. CASE SetupReturns
    <2>1. settled' \in Nat /\ generation' \in Nat
      BY <1>11 DEF SetupReturns
    <2>2. setup' \in BOOLEAN
      BY <1>11, Zenon DEF SetupReturns
    <2> QED
      BY <1>11, <2>1, <2>2 DEF SetupReturns
  <1>12. CASE DesktopChanges
    BY <1>12 DEF DesktopChanges
  <1>13. CASE Tick
    BY <1>13 DEF Tick
  <1>14. CASE UNCHANGED vars
    BY <1>14 DEF vars
  <1> QED
    BY <1>1, <1>2, <1>3, <1>4, <1>5, <1>6, <1>7, <1>8, <1>9, <1>10, <1>11,
       <1>12, <1>13, <1>14
    DEF Next, Serve

(* The numbers inside the entry and the slots are naturals. *)
LEMMA Numbers ==
    ASSUME TypeOK
    PROVE  /\ entry # None =>
                /\ entry.generation \in Nat /\ entry.computedAt \in Nat
                /\ entry.report.version \in Nat /\ entry.report.readAt \in Nat
           /\ \A c \in Callers :
                /\ seen[c].generation \in Nat /\ seen[c].now \in Nat
                /\ reading[c].version \in Nat /\ reading[c].readAt \in Nat
                /\ answer[c].report.version \in Nat /\ answer[c].report.readAt \in Nat
                /\ answer[c].at \in Nat
  BY DEF TypeOK, Entries, Reports

(* A step that only ends a call or serves none of the probes. *)
LEMMA GoneKeeps ==
    ASSUME IInv, NEW c \in Callers, Gone(c),
           UNCHANGED <<clock, version, settled, generation, entry>>
    PROVE  /\ CallsSettled' /\ EntrySettled' /\ ProbeSettled' /\ EntryAged' /\ ProbeAged'
           /\ SetupIsVisible' /\ ReuseWithinTTL'
  <1> USE DEF IInv, TypeOK, Gone
  <1>1. CallsSettled'
    BY DEF CallsSettled
  <1>2. EntrySettled' /\ EntryAged'
    BY DEF EntrySettled, EntryAged
  <1>3. \A d \in Callers : pc'[d] # "idle" =>
          /\ pc'[d] = pc[d] /\ seen'[d] = seen[d] /\ reading'[d] = reading[d]
          /\ floor'[d] = floor[d] /\ answer'[d] = answer[d]
    OBVIOUS
  <1>4. ProbeSettled' /\ ProbeAged'
    BY <1>3 DEF ProbeSettled, ProbeAged, Probing
  <1>5. SetupIsVisible' /\ ReuseWithinTTL'
    BY <1>3 DEF SetupIsVisible, ReuseWithinTTL
  <1> QED
    BY <1>1, <1>2, <1>4, <1>5

(* Every step keeps what carries the present generation as fresh as it claims. *)
LEMMA FreshStep ==
    ASSUME IInv, [Next]_vars, TypeOK'
    PROVE  CallsSettled' /\ EntrySettled' /\ ProbeSettled' /\ EntryAged' /\ ProbeAged'
  <1> DEFINE Settled == CallsSettled /\ EntrySettled /\ ProbeSettled /\ EntryAged /\ ProbeAged
  <1> SUFFICES Settled'
    OBVIOUS
  <1> USE Numbers DEF IInv, TypeOK, Probing, worldVars, mutexVars, callVars
  <1>1. ASSUME NEW c \in Callers, Call(c) PROVE Settled'
    <2>1. CallsSettled'
      BY <1>1 DEF Call, CallsSettled
    <2>2. ProbeSettled' /\ ProbeAged'
      BY <1>1 DEF Call, ProbeSettled, ProbeAged
    <2> QED
      BY <1>1, <2>1, <2>2 DEF Call, EntrySettled, EntryAged
  <1>2. ASSUME NEW c \in Callers, ReturnCached(c) PROVE Settled'
    <2>1. ProbeSettled' /\ ProbeAged'
      BY <1>2 DEF ReturnCached, ProbeSettled, ProbeAged
    <2> QED
      BY <1>2, <2>1 DEF ReturnCached, CallsSettled, EntrySettled, EntryAged
  <1>3. ASSUME NEW c \in Callers, StartProbe(c) PROVE Settled'
    <2>1. ProbeSettled' /\ ProbeAged'
      BY <1>3 DEF StartProbe, ProbeSettled, ProbeAged
    <2> QED
      BY <1>3, <2>1 DEF StartProbe, CallsSettled, EntrySettled, EntryAged
  <1>4. ASSUME NEW c \in Callers, ProbeReads(c) PROVE Settled'
    <2>1. reading'[c].version = version /\ reading'[c].readAt = clock
      BY <1>4 DEF ProbeReads
    <2>2. \A d \in Callers \ {c} : reading'[d] = reading[d] /\ pc'[d] = pc[d]
      BY <1>4 DEF ProbeReads
    <2>3. ProbeSettled'
      BY <1>4, <2>1, <2>2 DEF ProbeReads, ProbeSettled, CallsSettled
    <2>4. ProbeAged'
      BY <1>4, <2>1, <2>2 DEF ProbeReads, ProbeAged
    <2> QED
      BY <1>4, <2>3, <2>4 DEF ProbeReads, CallsSettled, EntrySettled, EntryAged
  <1>5. ASSUME NEW c \in Callers, StoreReport(c) PROVE Settled'
    <2>1. ProbeSettled' /\ ProbeAged'
      BY <1>5 DEF StoreReport, ProbeSettled, ProbeAged
    <2>2. EntrySettled' /\ EntryAged'
      BY <1>5 DEF StoreReport, NewEntry, EntrySettled, EntryAged, ProbeSettled, ProbeAged
    <2> QED
      BY <1>5, <2>1, <2>2 DEF StoreReport, CallsSettled
  <1>6. ASSUME NEW c \in Callers, Forget(c) \/ CancelWaiting(c) \/ CancelProbing(c)
        PROVE  Settled'
    BY <1>6, GoneKeeps DEF Forget, CancelWaiting, CancelProbing
  <1>7. CASE Invalidate \/ SetupReturns
    <2>1. CallsSettled'
      BY <1>7 DEF Invalidate, SetupReturns, CallsSettled
    <2>2. EntrySettled' /\ EntryAged'
      <3>1. entry' = entry /\ generation' = generation + 1
        BY <1>7 DEF Invalidate, SetupReturns
      <3>2. ASSUME entry # None
            PROVE  entry.generation <= generation' /\ entry.generation # generation'
        <4>1. entry.generation \in Nat /\ generation \in Nat
          BY <3>2
        <4>2. entry.generation <= generation
          BY <3>2 DEF EntrySettled
        <4> HIDE Numbers DEF IInv, TypeOK
        <4> QED
          BY <3>1, <4>1, <4>2
      <3> QED
        BY <3>1, <3>2 DEF EntrySettled, EntryAged
    <2>3. generation' = generation + 1 /\ clock' = clock /\ UNCHANGED callVars
      BY <1>7 DEF Invalidate, SetupReturns
    <2>4. ProbeSettled'
      <3>1. ASSUME NEW c \in Callers, pc[c] \in Probing
            PROVE  seen[c].generation <= generation' /\ seen[c].generation # generation'
        <4>1. seen[c].generation \in Nat /\ generation \in Nat
          OBVIOUS
        <4>2. seen[c].generation <= generation
          BY <3>1 DEF ProbeSettled
        <4> HIDE Numbers DEF IInv, TypeOK
        <4> QED
          BY <2>3, <4>1, <4>2
      <3> QED
        BY <2>3, <3>1 DEF ProbeSettled
    <2>5. ProbeAged'
      BY <2>3 DEF ProbeAged
    <2> QED
      BY <2>1, <2>2, <2>4, <2>5
  <1>8. CASE SetupChanges \/ DesktopChanges \/ Tick
    <2>1. /\ version <= version' /\ clock <= clock'
          /\ UNCHANGED <<settled, generation, entry, callVars>>
      <3>1. CASE SetupChanges \/ DesktopChanges
        BY <3>1 DEF SetupChanges, DesktopChanges
      <3>2. CASE Tick
        BY <3>2 DEF Tick
      <3> QED
        BY <1>8, <3>1, <3>2
    <2>2. CallsSettled' /\ EntrySettled' /\ EntryAged' /\ ProbeSettled'
      BY <2>1 DEF CallsSettled, EntrySettled, EntryAged, ProbeSettled
    <2>3. ProbeAged'
      <3>1. ASSUME NEW c \in Callers, pc[c] \in Probing PROVE seen[c].now <= clock'
        <4>1. seen[c].now \in Nat /\ clock \in Nat /\ clock' \in Int
          OBVIOUS
        <4>2. seen[c].now <= clock /\ clock <= clock'
          BY <2>1, <3>1 DEF ProbeAged
        <4> QED
          BY SMTT(30), <4>1, <4>2
      <3> QED
        BY <2>1, <3>1 DEF ProbeAged
    <2> QED
      BY <2>2, <2>3
  <1>9. CASE UNCHANGED vars
    BY <1>9 DEF vars, CallsSettled, EntrySettled, EntryAged, ProbeSettled, ProbeAged
  <1> QED
    BY <1>1, <1>2, <1>3, <1>4, <1>5, <1>6, <1>7, <1>8, <1>9 DEF Next, Serve

(* An entry is at least as old as the report in it. *)
LEMMA HitIsYoung ==
    ASSUME IInv, entry # None, clock - entry.computedAt < TTL
    PROVE  clock - entry.report.readAt < TTL
  <1>1. /\ clock \in Nat /\ TTL \in Nat
        /\ entry.computedAt \in Nat /\ entry.report.readAt \in Nat
    BY Numbers, DiagnosticsAssumption DEF IInv, TypeOK
  <1>2. entry.computedAt <= entry.report.readAt
    BY DEF IInv, EntryAged
  <1> QED
    BY <1>1, <1>2

(* Every step answers, if it answers a call, with a report that is fresh enough. *)
LEMMA AnswerStep ==
    ASSUME IInv, [Next]_vars
    PROVE  SetupIsVisible' /\ ReuseWithinTTL'
  <1> DEFINE Good == SetupIsVisible /\ ReuseWithinTTL
  <1> SUFFICES Good'
    OBVIOUS
  <1> USE DiagnosticsAssumption, Numbers
      DEF IInv, TypeOK, SetupIsVisible, ReuseWithinTTL, worldVars, mutexVars, callVars
  <1>1. ASSUME NEW c \in Callers, Call(c) PROVE Good'
    BY <1>1 DEF Call
  <1>2. ASSUME NEW c \in Callers, ReturnCached(c) PROVE Good'
    <2>1. entry # None /\ entry.generation = generation /\ clock - entry.computedAt < TTL
      BY <1>2 DEF ReturnCached, Hit, IsFresh
    <2>2. entry.report.version >= floor[c]
      BY <2>1 DEF EntrySettled, CallsSettled
    <2>3. clock - entry.report.readAt < TTL
      BY <2>1, HitIsYoung
    <2> QED
      BY <1>2, <2>2, <2>3 DEF ReturnCached
  <1>3. ASSUME NEW c \in Callers, StartProbe(c) \/ ProbeReads(c) PROVE Good'
    BY <1>3 DEF StartProbe, ProbeReads
  <1>4. ASSUME NEW c \in Callers, StoreReport(c) PROVE Good'
    BY <1>4 DEF StoreReport, ProbeSettled
  <1>5. ASSUME NEW c \in Callers, Forget(c) \/ CancelWaiting(c) \/ CancelProbing(c)
        PROVE  Good'
    BY <1>5, GoneKeeps DEF Forget, CancelWaiting, CancelProbing
  <1>6. CASE Invalidate \/ SetupChanges \/ SetupReturns \/ DesktopChanges \/ Tick
    BY <1>6 DEF Invalidate, SetupChanges, SetupReturns, DesktopChanges, Tick
  <1>7. CASE UNCHANGED vars
    BY <1>7 DEF vars
  <1> QED
    BY <1>1, <1>2, <1>3, <1>4, <1>5, <1>6, <1>7 DEF Next, Serve

(* The inductive invariant holds of every behaviour of the cache. *)
THEOREM Invariance == Spec => []IInv
  <1>1. IInv /\ [Next]_vars => IInv'
    BY TypeStep, FreshStep, AnswerStep DEF IInv
  <1> QED
    BY InitIInv, <1>1, PTL DEF Spec

(* The variables of the cache keep their types. *)
THEOREM TypeCorrect == Spec => []TypeOK
  <1>1. IInv => TypeOK
    BY DEF IInv
  <1> QED
    BY Invariance, <1>1, PTL

(* A setup tool's effect is visible to every call made after it returned, however  *)
(* probes, invalidations and cancellations interleave.                             *)
THEOREM SetupVisible == Spec => []SetupIsVisible
  <1>1. IInv => SetupIsVisible
    BY DEF IInv
  <1> QED
    BY Invariance, <1>1, PTL

(* A report that is reused was read less than the TTL ago. *)
THEOREM ReuseFresh == Spec => []ReuseWithinTTL
  <1>1. IInv => ReuseWithinTTL
    BY DEF IInv
  <1> QED
    BY Invariance, <1>1, PTL

(* What a call is told is current in both respects. *)
THEOREM Current == Spec => []ReportIsCurrent
  <1>1. SetupIsVisible /\ ReuseWithinTTL => ReportIsCurrent
    BY DEF ReportIsCurrent
  <1> QED
    BY SetupVisible, ReuseFresh, <1>1, PTL

(***************************************************************************)
(* ExtensionSetup.  What a setup reports was true of the disk some steps   *)
(* before; that it still is rests on all smooth calls, those that nothing  *)
(* came between, having found the same packages, so that none undoes what  *)
(* another did.  A call that begins while a disturbed one is under way is  *)
(* disturbed too, so no smooth call runs beside one of those.              *)
(***************************************************************************)

(* Calls begun since anything came between them. *)
Smooth(c) == c \in Begun /\ c \notin disturbed

Afterwards == {"enable", "list", "report", "done"}

(* What a smooth call has found still holds, and what it has done still stands: all smooth *)
(* calls found the same packages, so none undoes what another did.                         *)
Stands(c) ==
    /\ install[c].packaged = system
    /\ install[c].loaded \in {shell.found, "unknown"}
    /\ ~install[c].failed
    /\ install[c].at = "javascript" => ~system /\ disk[install[c].dir].meta = "current"
    /\ install[c].at \in Afterwards =>
          disk[install[c].dir] = IF system THEN NoCopy ELSE CurrentCopy
    /\ install[c].ok => install[c].at \in Afterwards /\ listed

SaidAsMade(c) ==
    said[c].made =>
        /\ install[c].at = "done"
        /\ said[c].ok = (install[c].ok /\ ~install[c].failed)
        /\ said[c].reload = Reload(install[c])

ExtInv ==
    /\ ExtTypeOK
    /\ disturbed \subseteq Begun
    /\ (\E c \in Installs : Smooth(c)) => Installing \cap disturbed = {}
    /\ \A c \in Installs : (Smooth(c) => Stands(c)) /\ SaidAsMade(c)
    /\ \A c \in Installs : install[c].at = "idle" => install[c] = Fresh

LEMMA ExtInitInv == ExtInit => ExtInv
  <1> SUFFICES ASSUME ExtInit PROVE ExtInv
    OBVIOUS
  <1>1. disk \in [Dirs -> Copy] /\ disk["shell"] \in Copy
    BY DEF ExtInit, Dirs, Copy, NoCopy, CurrentCopy
  <1>2. shell \in Shells
    BY <1>1 DEF ExtInit, LogIn, Shells, Sources, Copy
  <1>3. install \in [Installs -> InstallCall]
    BY DEF ExtInit, Fresh, InstallCall, InstallSteps, Sources, Dirs, Tri
  <1>4. said \in [Installs -> InstallAnswers] /\ events \in 0..MaxEvents
    BY ExtensionAssumption DEF ExtInit, InstallAnswers
  <1>5. ExtTypeOK
    BY <1>1, <1>2, <1>3, <1>4 DEF ExtInit, ExtTypeOK
  <1>6. Begun = {}
    BY DEF ExtInit, Begun, Fresh
  <1>7. \A c \in Installs : SaidAsMade(c) /\ install[c] = Fresh
    BY DEF ExtInit, SaidAsMade
  <1> QED
    BY <1>5, <1>6, <1>7 DEF ExtInv, ExtInit, Smooth

LEMMA ExtInvMeans == ExtInv => SetupLasts
  <1> SUFFICES ASSUME ExtInv, NEW c \in Installs,
                      Undisturbed(c), said[c].ok, ~said[c].reload
               PROVE  /\ install[c].dir = "shell" \/ disk["shell"] = NoCopy =>
                            LogIn(disk["shell"], system, listed).imported = "current"
                      /\ install[c].packaged => shell.found # "user"
    BY DEF SetupLasts
  <1>1. /\ install[c].at = "done" /\ install[c].ok /\ ~Reload(install[c])
        /\ Smooth(c) /\ Stands(c)
    BY DEF ExtInv, SaidAsMade, Undisturbed, Smooth, Begun
  <1>2. /\ listed /\ install[c].packaged = system
        /\ disk[install[c].dir] = IF system THEN NoCopy ELSE CurrentCopy
    BY <1>1 DEF Stands, Afterwards
  <1>3. install[c].packaged => shell.found # "user"
    BY <1>1 DEF Reload, Stands, Undisturbed
  <1>4. disk["shell"] = (IF system THEN NoCopy ELSE CurrentCopy) =>
            LogIn(disk["shell"], system, listed).imported = "current"
    BY <1>2 DEF LogIn, NoCopy, CurrentCopy
  <1>5. install[c].dir = "shell" \/ disk["shell"] = NoCopy =>
            disk["shell"] = IF system THEN NoCopy ELSE CurrentCopy
    BY <1>2 DEF Undisturbed
  <1> QED
    BY <1>3, <1>4, <1>5

(* A step of a call that has begun: it may disturb nothing, as long as it leaves what *)
(* smooth calls rely on; they all found the same packages.                            *)
LEMMA StepOfCall ==
    ASSUME ExtInv, ExtTypeOK', NEW c \in Installs, install[c].at \notin {"idle", "done"},
           \A d \in Installs : d # c => install'[d] = install[d] /\ said'[d] = said[d],
           install'[c].at # "idle",
           SaidAsMade(c)',
           UNCHANGED <<disturbed, system>>, shell'.found = shell.found, listed => listed',
           Smooth(c) => /\ Stands(c)'
                        /\ \A dir \in Dirs :
                              /\ disk[dir] = (IF system THEN NoCopy ELSE CurrentCopy) => disk'[dir] = disk[dir]
                              /\ ~system /\ disk[dir].meta = "current" => disk'[dir].meta = "current"
    PROVE  ExtInv'
  <1>1. Begun' = Begun /\ Installing' \subseteq Installing
    BY DEF Begun, Installing
  <1>2. \A d \in Installs : Smooth(d)' <=> Smooth(d)
    BY <1>1 DEF Smooth
  <1>3. ASSUME NEW d \in Installs, Smooth(d) PROVE Smooth(c)
    BY <1>3 DEF ExtInv, Smooth, Installing, Begun
  <1>4. \A d \in Installs : install[d].dir \in Dirs
    BY DEF ExtInv, ExtTypeOK, InstallCall
  <1>5. ASSUME NEW d \in Installs PROVE (Smooth(d)' => Stands(d)') /\ SaidAsMade(d)'
    <2>1. CASE d = c
      BY <1>2, <2>1
    <2>2. CASE d # c
      <3>1. install'[d] = install[d] /\ said'[d] = said[d]
        BY <2>2
      <3>2. SaidAsMade(d)'
        BY <3>1 DEF ExtInv, SaidAsMade
      <3>3. ASSUME Smooth(d)' PROVE Stands(d)'
        <4>1. Smooth(c) /\ Stands(d)
          BY <1>2, <1>3, <3>3 DEF ExtInv
        <4> QED
          BY <1>4, <3>1, <4>1 DEF Stands
      <3> QED
        BY <3>2, <3>3
    <2> QED
      BY <2>1, <2>2
  <1> QED
    BY <1>1, <1>2, <1>5 DEF ExtInv

(* Something comes between: no call under way or made is smooth any longer. *)
LEMMA StepDisturbs ==
    ASSUME ExtInv, ExtTypeOK', Begun' = Begun, disturbed' = Begun,
           \A d \in Installs : install[d].at = "idle" => install'[d] = Fresh,
           \A d \in Installs : SaidAsMade(d)'
    PROVE  ExtInv'
  <1>1. \A d \in Installs : ~Smooth(d)'
    BY DEF Smooth
  <1>2. \A d \in Installs : install'[d].at = "idle" => install[d].at = "idle"
    BY DEF Begun
  <1> QED
    BY <1>1, <1>2 DEF ExtInv

LEMMA QueryInv ==
    ASSUME ExtInv, NEW c \in Installs, Query(c)
    PROVE  ExtInv'
  <1>0. ExtTypeOK /\ install[c] = Fresh /\ c \notin Begun /\ c \notin disturbed
    BY DEF ExtInv, Query, Under, Begun
  <1>1. PICK known \in {shell.found, "unknown"}, own \in OwnDirs :
            /\ IF known = "unknown" THEN Fault ELSE UNCHANGED events
            /\ install' = [install EXCEPT ![c].at = "enabled", ![c].loaded = known,
                               ![c].dir = IF known = "user" THEN "shell" ELSE own,
                               ![c].packaged = system]
    BY DEF Query
  <1> DEFINE r == [Fresh EXCEPT !.at = "enabled", !.loaded = known,
                                !.dir = IF known = "user" THEN "shell" ELSE own,
                                !.packaged = system]
  <1>2. install' = [install EXCEPT ![c] = r]
    BY <1>0, <1>1 DEF ExtTypeOK, Fresh
  <1>3. /\ r \in InstallCall /\ r.at = "enabled" /\ r.loaded = known /\ r.packaged = system
        /\ ~r.failed /\ ~r.ok
    BY <1>0, ExtensionAssumption
       DEF ExtTypeOK, Fresh, InstallCall, InstallSteps, Sources, Shells, Dirs, Tri
  <1> HIDE DEF r
  <1>4. /\ install' \in [Installs -> InstallCall] /\ install'[c] = r
        /\ \A d \in Installs : d # c => install'[d] = install[d]
    BY <1>0, <1>2, <1>3 DEF ExtTypeOK
  <1>5. /\ UNCHANGED <<disk, system, listed, shell, said>>
        /\ disturbed' = disturbed \cup IF Installing \cap disturbed = {} THEN {} ELSE {c}
    BY DEF Query, shellVars
  <1>6. ExtTypeOK'
    <2>1. events' \in 0..MaxEvents
      BY <1>0, <1>1, ExtensionAssumption DEF ExtTypeOK, Fault
    <2>2. disturbed' \subseteq Installs
      BY <1>0, <1>5 DEF ExtTypeOK
    <2> QED
      BY <1>0, <1>4, <1>5, <2>1, <2>2 DEF ExtTypeOK
  <1>7. Begun' = Begun \cup {c} /\ Installing' = Installing \cup {c}
    BY <1>3, <1>4 DEF Begun, Installing
  <1>8. ASSUME NEW d \in Installs, Smooth(d)'
        PROVE  Installing \cap disturbed = {} /\ disturbed' = disturbed /\ (d # c => Smooth(d))
    <2>1. CASE Installing \cap disturbed = {}
      BY <1>5, <1>7, <1>8, <2>1 DEF Smooth
    <2>2. CASE Installing \cap disturbed # {}
      BY <1>5, <1>7, <1>8, <2>2 DEF Smooth, ExtInv
    <2> QED
      BY <2>1, <2>2
  <1>9. disturbed' \subseteq Begun'
    BY <1>5, <1>7 DEF ExtInv
  <1>10. (\E d \in Installs : Smooth(d)') => Installing' \cap disturbed' = {}
    BY <1>0, <1>7, <1>8
  <1>11. ASSUME NEW d \in Installs
         PROVE  /\ (Smooth(d)' => Stands(d)') /\ SaidAsMade(d)'
                /\ install'[d].at = "idle" => install'[d] = Fresh
    <2>1. CASE d = c
      <3>1. Stands(c)'
        BY <1>1, <1>3, <1>4, <1>5 DEF Stands, Afterwards
      <3>2. SaidAsMade(c)'
        BY <1>0, <1>5 DEF ExtInv, SaidAsMade, Fresh
      <3> QED
        BY <1>3, <1>4, <2>1, <3>1, <3>2
    <2>2. CASE d # c
      <3>1. install'[d] = install[d]
        BY <1>4, <2>2
      <3>2. SaidAsMade(d)' /\ (install'[d].at = "idle" => install'[d] = Fresh)
        BY <1>5, <3>1 DEF ExtInv, SaidAsMade, Reload
      <3>3. ASSUME Smooth(d)' PROVE Stands(d)'
        <4>1. Stands(d)
          BY <1>8, <2>2, <3>3 DEF ExtInv
        <4> QED
          BY <1>5, <3>1, <4>1 DEF Stands
      <3> QED
        BY <3>2, <3>3
    <2> QED
      BY <2>1, <2>2
  <1> QED
    BY <1>6, <1>9, <1>10, <1>11 DEF ExtInv

LEMMA FilesFailInv ==
    ASSUME ExtInv, NEW c \in Installs, FilesFail(c), install[c].at \in {"files", "javascript"},
           UNCHANGED <<system, listed, shell, said>>
    PROVE  ExtInv'
  <1> DEFINE r == [install[c] EXCEPT !.at = "list", !.failed = TRUE]
  <1>0. ExtTypeOK /\ install[c] \in InstallCall /\ SaidAsMade(c)
    BY DEF ExtInv, ExtTypeOK
  <1>1. install' = [install EXCEPT ![c] = r]
    BY <1>0 DEF FilesFail, InstallCall
  <1>2. r \in InstallCall /\ r.at = "list"
    BY <1>0 DEF InstallCall, InstallSteps
  <1> HIDE DEF r
  <1>3. /\ install' \in [Installs -> InstallCall] /\ install'[c] = r
        /\ \A d \in Installs : d # c => install'[d] = install[d]
    BY <1>0, <1>1, <1>2 DEF ExtTypeOK
  <1>4. disturbed' = Begun /\ disk' = disk /\ events' \in 0..MaxEvents
    BY <1>0, ExtensionAssumption DEF FilesFail, Fault, ExtTypeOK
  <1>5. Begun' = Begun
    BY <1>2, <1>3 DEF Begun
  <1>6. ExtTypeOK'
    BY <1>0, <1>3, <1>4 DEF ExtTypeOK, Begun
  <1>7. \A d \in Installs : SaidAsMade(d)'
    <2>1. ~said[c].made
      BY <1>0 DEF SaidAsMade
    <2>2. \A d \in Installs : d # c => SaidAsMade(d)'
      BY <1>3 DEF ExtInv, SaidAsMade
    <2> QED
      BY <2>1, <2>2 DEF SaidAsMade
  <1>8. \A d \in Installs : install[d].at = "idle" => install'[d] = Fresh
    BY <1>3 DEF ExtInv
  <1> QED
    BY <1>4, <1>5, <1>6, <1>7, <1>8, StepDisturbs

LEMMA AroundInv ==
    ASSUME ExtInv, Around
    PROVE  ExtInv'
  <1>0. ExtTypeOK /\ disturbed \subseteq Begun /\ UNCHANGED <<install, said>>
        /\ disturbed' = disturbed \cup Begun
    BY DEF ExtInv, Around
  <1>1. disk["shell"] \in Copy /\ shell \in Shells
    BY <1>0 DEF ExtTypeOK, Dirs
  <1>2. LogIn(disk["shell"], system, listed) \in Shells /\ Import \in Shells
    BY <1>1 DEF LogIn, Import, Shells, Sources, Copy
  <1>3. /\ disk' = disk /\ system' \in BOOLEAN /\ listed' \in BOOLEAN /\ shell' \in Shells
        /\ events' \in 0..MaxEvents
    <2>1. events' \in 0..MaxEvents
      BY <1>0, ExtensionAssumption DEF Around, ExtTypeOK, Fault
    <2>2. disk' = disk /\ system' \in BOOLEAN /\ listed' \in BOOLEAN
      BY <1>0 DEF Around, ExtTypeOK
    <2>3. shell' \in Shells
      BY <1>1, <1>2 DEF Around
    <2> QED
      BY <2>1, <2>2, <2>3
  <1>4. Begun' = Begun /\ disturbed' = Begun
    BY <1>0 DEF Begun
  <1>5. ExtTypeOK'
    BY <1>0, <1>3, <1>4 DEF ExtTypeOK, Begun
  <1>6. \A d \in Installs : SaidAsMade(d)'
    BY <1>0 DEF ExtInv, SaidAsMade, Reload
  <1>7. \A d \in Installs : install[d].at = "idle" => install'[d] = Fresh
    BY <1>0 DEF ExtInv
  <1> QED
    BY <1>4, <1>5, <1>6, <1>7, StepDisturbs

(* Steps that only go on with the call. *)
LEMMA ReadingStep ==
    ASSUME ExtInv, NEW c \in Installs, install[c].at \in {"enabled", "list"},
           NEW r \in InstallCall, install' = [install EXCEPT ![c] = r],
           r.at = IF install[c].at = "enabled" THEN "files" ELSE "report",
           r.packaged = install[c].packaged, r.loaded = install[c].loaded, r.dir = install[c].dir,
           r.failed = install[c].failed, r.ok = install[c].ok,
           events' \in 0..MaxEvents, UNCHANGED <<shellVars, said, disturbed>>
    PROVE  ExtInv'
  <1>0. ExtTypeOK /\ SaidAsMade(c) /\ (Smooth(c) => Stands(c))
    BY DEF ExtInv
  <1>1. /\ install' \in [Installs -> InstallCall] /\ install'[c] = r
        /\ \A d \in Installs : d # c => install'[d] = install[d] /\ said'[d] = said[d]
    BY <1>0 DEF ExtTypeOK
  <1>2. ExtTypeOK'
    BY <1>0, <1>1 DEF ExtTypeOK, shellVars
  <1>3. SaidAsMade(c)'
    BY <1>0 DEF SaidAsMade
  <1>4. Smooth(c) => Stands(c)'
    BY <1>0, <1>1 DEF Stands, Afterwards, shellVars
  <1> QED
    BY <1>1, <1>2, <1>3, <1>4, StepOfCall DEF shellVars

LEMMA ReadEnabledInv ==
    ASSUME ExtInv, NEW c \in Installs, ReadEnabled(c)
    PROVE  ExtInv'
  <1>0. ExtTypeOK /\ install[c] \in InstallCall /\ install[c].at = "enabled"
        /\ UNCHANGED <<shellVars, said, disturbed>>
    BY DEF ExtInv, ExtTypeOK, ReadEnabled, Under
  <1>1. PICK e \in Tri : /\ install' = [install EXCEPT ![c].at = "files", ![c].enabled = e]
                         /\ events' \in 0..MaxEvents
    <2>1. events' \in 0..MaxEvents
      BY <1>0, ExtensionAssumption DEF ReadEnabled, Fault, ExtTypeOK
    <2> QED
      BY <2>1 DEF ReadEnabled, Tri
  <1> DEFINE r == [install[c] EXCEPT !.at = "files", !.enabled = e]
  <1>2. install' = [install EXCEPT ![c] = r]
    BY <1>0, <1>1 DEF InstallCall
  <1>3. /\ r \in InstallCall /\ r.at = "files" /\ r.packaged = install[c].packaged
        /\ r.loaded = install[c].loaded /\ r.dir = install[c].dir
        /\ r.failed = install[c].failed /\ r.ok = install[c].ok
    BY <1>0 DEF InstallCall, InstallSteps
  <1> HIDE DEF r
  <1> QED
    BY <1>0, <1>1, <1>2, <1>3, ReadingStep

LEMMA ListWindowsInv ==
    ASSUME ExtInv, NEW c \in Installs, ListWindows(c)
    PROVE  ExtInv'
  <1>0. ExtTypeOK /\ install[c] \in InstallCall /\ install[c].at = "list"
        /\ UNCHANGED <<shellVars, said, disturbed>>
    BY DEF ExtInv, ExtTypeOK, ListWindows, Under
  <1>1. PICK v \in BOOLEAN : install' = [install EXCEPT ![c] = [@ EXCEPT !.at = "report", !.serves = v]]
    <2>1. CASE install' = [install EXCEPT ![c].at = "report", ![c].serves = Serves]
      <3>1. Serves \in BOOLEAN
        BY <1>0 DEF Serves, ExtTypeOK
      <3> QED
        BY <1>0, <2>1, <3>1 DEF InstallCall
    <2>2. CASE install' = [install EXCEPT ![c].at = "report"]
      <3>1. install[c].serves \in BOOLEAN
        BY <1>0 DEF InstallCall
      <3>2. [install[c] EXCEPT !.at = "report", !.serves = install[c].serves] = [install[c] EXCEPT !.at = "report"]
        BY <1>0 DEF InstallCall
      <3> QED
        BY <2>2, <3>1, <3>2
    <2> QED
      BY <2>1, <2>2 DEF ListWindows
  <1>2. events' \in 0..MaxEvents
    BY <1>0, ExtensionAssumption DEF ListWindows, Fault, ExtTypeOK
  <1> DEFINE r == [install[c] EXCEPT !.at = "report", !.serves = v]
  <1>3. install' = [install EXCEPT ![c] = r]
    BY <1>1
  <1>4. /\ r \in InstallCall /\ r.at = "report" /\ r.packaged = install[c].packaged
        /\ r.loaded = install[c].loaded /\ r.dir = install[c].dir
        /\ r.failed = install[c].failed /\ r.ok = install[c].ok
    BY <1>0 DEF InstallCall, InstallSteps
  <1> HIDE DEF r
  <1> QED
    BY <1>0, <1>2, <1>3, <1>4, ReadingStep

(* A step that changes a copy on the disk, to what all smooth calls want of it. *)
LEMMA WritingStep ==
    ASSUME ExtInv, NEW c \in Installs, install[c].at \in {"files", "javascript"},
           NEW r \in InstallCall, install' = [install EXCEPT ![c] = r],
           r.at \in {"javascript", "enable"},
           r.packaged = install[c].packaged, r.loaded = install[c].loaded, r.dir = install[c].dir,
           r.failed = install[c].failed, r.ok = install[c].ok,
           NEW copy \in Copy, disk' = [disk EXCEPT ![install[c].dir] = copy],
           ~Smooth(c) \/ system = install[c].packaged,
           Smooth(c) /\ install[c].packaged => r.at = "enable" /\ copy = NoCopy,
           Smooth(c) /\ ~install[c].packaged =>
               /\ copy.meta = "current" \/ copy.meta = disk[install[c].dir].meta
               /\ copy.js = "current" \/ copy.js = disk[install[c].dir].js
               /\ r.at = "javascript" => copy.meta = "current"
               /\ r.at = "enable" => copy = CurrentCopy,
           UNCHANGED <<system, listed, shell, said, disturbed, events>>
    PROVE  ExtInv'
  <1> DEFINE dir == install[c].dir
  <1>0. ExtTypeOK /\ SaidAsMade(c) /\ (Smooth(c) => Stands(c)) /\ install[c] \in InstallCall
        /\ dir \in Dirs
    BY DEF ExtInv, ExtTypeOK, InstallCall
  <1>1. /\ install' \in [Installs -> InstallCall] /\ install'[c] = r
        /\ \A d \in Installs : d # c => install'[d] = install[d] /\ said'[d] = said[d]
    BY <1>0 DEF ExtTypeOK
  <1>2. /\ disk' \in [Dirs -> Copy] /\ disk'[dir] = copy
        /\ \A d \in Dirs : d # dir => disk'[d] = disk[d]
    BY <1>0 DEF ExtTypeOK
  <1> HIDE DEF dir
  <1>3. ExtTypeOK'
    BY <1>0, <1>1, <1>2 DEF ExtTypeOK
  <1>4. SaidAsMade(c)'
    BY <1>0 DEF SaidAsMade
  <1>5. ~install[c].ok \/ ~Smooth(c)
    BY <1>0 DEF Stands, Afterwards
  <1>6. Smooth(c) => Stands(c)'
    BY <1>0, <1>1, <1>2, <1>5 DEF Stands, Afterwards, dir
  <1>7. ASSUME Smooth(c), NEW d \in Dirs
        PROVE  /\ disk[d] = (IF system THEN NoCopy ELSE CurrentCopy) => disk'[d] = disk[d]
               /\ ~system /\ disk[d].meta = "current" => disk'[d].meta = "current"
    <2>1. CASE d # dir
      BY <1>2, <2>1
    <2>2. CASE d = dir /\ system
      BY <1>2, <1>7, <2>2
    <2>3. CASE d = dir /\ ~system
      <3>1. /\ copy.meta = "current" \/ copy.meta = disk[d].meta
            /\ copy.js = "current" \/ copy.js = disk[d].js
        BY <1>7, <2>3 DEF dir
      <3>2. ASSUME disk[d] = CurrentCopy PROVE copy = CurrentCopy
        BY <3>1, <3>2 DEF CurrentCopy, Copy
      <3> QED
        BY <1>2, <2>3, <3>1, <3>2
    <2> QED
      BY <2>1, <2>2, <2>3
  <1>8. r.at # "idle" /\ install[c].at \notin {"idle", "done"}
    OBVIOUS
  <1> QED
    BY <1>1, <1>3, <1>4, <1>6, <1>7, <1>8, StepOfCall

LEMMA RemoveUserCopyInv ==
    ASSUME ExtInv, NEW c \in Installs, RemoveUserCopy(c)
    PROVE  ExtInv'
  <1>0. ExtTypeOK /\ install[c] \in InstallCall /\ install[c].at = "files" /\ install[c].packaged
        /\ UNCHANGED <<system, listed, shell, said>>
    BY DEF ExtInv, ExtTypeOK, RemoveUserCopy, Under
  <1>1. CASE FilesFail(c)
    BY <1>0, <1>1, FilesFailInv
  <1>2. CASE ~FilesFail(c)
    <2> DEFINE v == disk[install[c].dir] # NoCopy
               r == [install[c] EXCEPT !.at = "enable", !.removed = v]
    <2>1. /\ disk' = [disk EXCEPT ![install[c].dir] = NoCopy]
          /\ install' = [install EXCEPT ![c].at = "enable", ![c].removed = v]
          /\ UNCHANGED <<disturbed, events>>
      BY <1>2 DEF RemoveUserCopy
    <2>2. v \in BOOLEAN
      OBVIOUS
    <2> HIDE DEF v
    <2>3. install' = [install EXCEPT ![c] = r]
      BY <1>0, <2>1 DEF InstallCall
    <2>4. /\ r \in InstallCall /\ r.at = "enable" /\ r.packaged = install[c].packaged
          /\ r.loaded = install[c].loaded /\ r.dir = install[c].dir
          /\ r.failed = install[c].failed /\ r.ok = install[c].ok
      BY <1>0, <2>2 DEF InstallCall, InstallSteps
    <2>5. NoCopy \in Copy
      BY DEF NoCopy, Copy
    <2>6. ~Smooth(c) \/ system = install[c].packaged
      BY DEF ExtInv, Stands
    <2> HIDE DEF r
    <2> QED
      BY <1>0, <2>1, <2>3, <2>4, <2>5, <2>6, WritingStep
  <1> QED
    BY <1>1, <1>2

LEMMA WriteMetadataInv ==
    ASSUME ExtInv, NEW c \in Installs, WriteMetadata(c)
    PROVE  ExtInv'
  <1> DEFINE dir == install[c].dir
  <1>0. ExtTypeOK /\ install[c] \in InstallCall /\ install[c].at = "files" /\ ~install[c].packaged
        /\ UNCHANGED <<system, listed, shell, said>> /\ dir \in Dirs /\ disk[dir] \in Copy
    BY DEF ExtInv, ExtTypeOK, WriteMetadata, Under, InstallCall
  <1>1. CASE FilesFail(c)
    BY <1>0, <1>1, FilesFailInv
  <1>2. CASE ~FilesFail(c)
    <2> DEFINE v == NeedsReload(disk[dir])
               r == [install[c] EXCEPT !.at = "javascript", !.changed = v]
               copy == [disk[dir] EXCEPT !.meta = "current"]
    <2>1. /\ disk' = [disk EXCEPT ![dir].meta = "current"]
          /\ install' = [install EXCEPT ![c].at = "javascript", ![c].changed = v]
          /\ UNCHANGED <<disturbed, events>>
      BY <1>2 DEF WriteMetadata
    <2>2. v \in BOOLEAN
      BY DEF NeedsReload
    <2> HIDE DEF v
    <2>3. install' = [install EXCEPT ![c] = r]
      BY <1>0, <2>1 DEF InstallCall
    <2>4. /\ r \in InstallCall /\ r.at = "javascript" /\ r.packaged = install[c].packaged
          /\ r.loaded = install[c].loaded /\ r.dir = install[c].dir
          /\ r.failed = install[c].failed /\ r.ok = install[c].ok
      BY <1>0, <2>2 DEF InstallCall, InstallSteps
    <2>5. copy \in Copy /\ copy.meta = "current" /\ copy.js = disk[dir].js
      BY <1>0 DEF Copy
    <2>6. disk' = [disk EXCEPT ![dir] = copy]
      BY <2>1
    <2>7. ~Smooth(c) \/ system = install[c].packaged
      BY DEF ExtInv, Stands
    <2>10. Smooth(c) /\ ~install[c].packaged =>
               /\ copy.meta = "current" \/ copy.meta = disk[install[c].dir].meta
               /\ copy.js = "current" \/ copy.js = disk[install[c].dir].js
               /\ r.at = "javascript" => copy.meta = "current"
               /\ r.at = "enable" => copy = CurrentCopy
      BY <2>4, <2>5
    <2>11. Smooth(c) /\ install[c].packaged => r.at = "enable" /\ copy = NoCopy
      BY <1>0
    <2> HIDE DEF r, copy
    <2> QED
      BY ZenonT(60), <1>0, <2>1, <2>3, <2>4, <2>5, <2>6, <2>7, <2>10, <2>11, WritingStep
  <1> QED
    BY <1>1, <1>2

LEMMA WriteJavascriptInv ==
    ASSUME ExtInv, NEW c \in Installs, WriteJavascript(c)
    PROVE  ExtInv'
  <1> DEFINE dir == install[c].dir
  <1>0. ExtTypeOK /\ install[c] \in InstallCall /\ install[c].at = "javascript"
        /\ UNCHANGED <<system, listed, shell, said>> /\ dir \in Dirs /\ disk[dir] \in Copy
    BY DEF ExtInv, ExtTypeOK, WriteJavascript, Under, InstallCall
  <1>1. CASE FilesFail(c)
    BY <1>0, <1>1, FilesFailInv
  <1>2. CASE ~FilesFail(c)
    <2> DEFINE r == [install[c] EXCEPT !.at = "enable"]
               copy == [disk[dir] EXCEPT !.js = "current"]
    <2>1. /\ disk' = [disk EXCEPT ![dir].js = "current"]
          /\ install' = [install EXCEPT ![c].at = "enable"]
          /\ UNCHANGED <<disturbed, events>>
      BY <1>2 DEF WriteJavascript
    <2>3. install' = [install EXCEPT ![c] = r]
      BY <1>0, <2>1 DEF InstallCall
    <2>4. /\ r \in InstallCall /\ r.at = "enable" /\ r.packaged = install[c].packaged
          /\ r.loaded = install[c].loaded /\ r.dir = install[c].dir
          /\ r.failed = install[c].failed /\ r.ok = install[c].ok
      BY <1>0 DEF InstallCall, InstallSteps
    <2>5. copy \in Copy /\ copy.meta = disk[dir].meta /\ copy.js = "current"
      BY <1>0 DEF Copy
    <2>6. disk' = [disk EXCEPT ![dir] = copy]
      BY <2>1
    <2>7. /\ ~Smooth(c) \/ system = install[c].packaged
          /\ Smooth(c) => ~install[c].packaged /\ disk[dir].meta = "current"
      BY <1>0 DEF ExtInv, Stands
    <2>8. disk[dir].meta = "current" => copy = CurrentCopy
      BY <2>5 DEF Copy, CurrentCopy
    <2>9. install[c].packaged => ~Smooth(c)
      BY <2>7
    <2>10. Smooth(c) /\ ~install[c].packaged =>
               /\ copy.meta = "current" \/ copy.meta = disk[install[c].dir].meta
               /\ copy.js = "current" \/ copy.js = disk[install[c].dir].js
               /\ r.at = "javascript" => copy.meta = "current"
               /\ r.at = "enable" => copy = CurrentCopy
      BY <2>4, <2>5, <2>7, <2>8
    <2>11. Smooth(c) /\ install[c].packaged => r.at = "enable" /\ copy = NoCopy
      BY <1>0, <2>9
    <2> HIDE DEF r, copy
    <2> QED
      BY ZenonT(60), <1>0, <2>1, <2>3, <2>4, <2>5, <2>6, <2>7, <2>9, <2>10, <2>11, WritingStep
  <1> QED
    BY <1>1, <1>2

LEMMA EnableInv ==
    ASSUME ExtInv, NEW c \in Installs, Enable(c)
    PROVE  ExtInv'
  <1>0. ExtTypeOK /\ install[c] \in InstallCall /\ install[c].at = "enable" /\ SaidAsMade(c)
        /\ (Smooth(c) => Stands(c))
        /\ UNCHANGED <<disk, system, said, disturbed>>
    BY DEF ExtInv, ExtTypeOK, Enable, Under
  <1>1. PICK v \in BOOLEAN :
            /\ install' = [install EXCEPT ![c].at = "list", ![c].ok = v]
            /\ v => listed'
            /\ listed => listed'
            /\ shell' \in {shell, Import} /\ listed' \in BOOLEAN
            /\ events' \in 0..MaxEvents
    <2>1. CASE /\ listed' = TRUE /\ shell' = Import
               /\ install' = [install EXCEPT ![c].at = "list", ![c].ok = TRUE]
               /\ UNCHANGED events
      BY <1>0, <2>1 DEF ExtTypeOK
    <2>2. CASE /\ Fault /\ UNCHANGED <<listed, shell>>
               /\ install' = [install EXCEPT ![c].at = "list", ![c].ok = FALSE]
      <3>1. events' \in 0..MaxEvents
        BY <1>0, <2>2, ExtensionAssumption DEF ExtTypeOK, Fault
      <3> QED
        BY <1>0, <2>2, <3>1 DEF ExtTypeOK
    <2> QED
      BY <2>1, <2>2 DEF Enable
  <1> DEFINE r == [install[c] EXCEPT !.at = "list", !.ok = v]
  <1>2. install' = [install EXCEPT ![c] = r]
    BY <1>0, <1>1 DEF InstallCall
  <1>3. /\ r \in InstallCall /\ r.at = "list" /\ r.packaged = install[c].packaged
        /\ r.loaded = install[c].loaded /\ r.dir = install[c].dir
        /\ r.failed = install[c].failed /\ r.ok = v
    BY <1>0 DEF InstallCall, InstallSteps
  <1> HIDE DEF r
  <1>4. /\ install' \in [Installs -> InstallCall] /\ install'[c] = r
        /\ \A d \in Installs : d # c => install'[d] = install[d] /\ said'[d] = said[d]
    BY <1>0, <1>2, <1>3 DEF ExtTypeOK
  <1>5. shell' \in Shells /\ shell'.found = shell.found
    <2>1. disk["shell"] \in Copy /\ shell \in Shells
      BY <1>0 DEF ExtTypeOK, Dirs
    <2>2. Import \in Shells /\ Import.found = shell.found
      BY <2>1 DEF Import, Shells, Copy, Sources
    <2> QED
      BY <1>1, <2>1, <2>2
  <1>6. ExtTypeOK'
    BY <1>0, <1>1, <1>4, <1>5 DEF ExtTypeOK
  <1>7. SaidAsMade(c)'
    BY <1>0 DEF SaidAsMade
  <1>8. Smooth(c) => Stands(c)'
    BY <1>0, <1>1, <1>3, <1>4, <1>5 DEF Stands, Afterwards
  <1> QED
    BY <1>0, <1>1, <1>3, <1>4, <1>5, <1>6, <1>7, <1>8, StepOfCall

LEMMA EndInstallInv ==
    ASSUME ExtInv, NEW c \in Installs, EndInstall(c)
    PROVE  ExtInv'
  <1> DEFINE r == [install[c] EXCEPT !.at = "done"]
             a == [made |-> TRUE, ok |-> install[c].ok /\ ~install[c].failed,
                   serves |-> install[c].serves, reload |-> Reload(install[c])]
  <1>0. ExtTypeOK /\ install[c] \in InstallCall /\ install[c].at = "report"
        /\ (Smooth(c) => Stands(c))
        /\ UNCHANGED <<disk, system, listed, shell, disturbed, events>>
        /\ said' = [said EXCEPT ![c] = a]
    BY DEF ExtInv, ExtTypeOK, EndInstall, Under, shellVars
  <1>1. install' = [install EXCEPT ![c] = r]
    BY <1>0 DEF EndInstall, InstallCall
  <1>2. /\ r \in InstallCall /\ r.at = "done" /\ r.packaged = install[c].packaged
        /\ r.loaded = install[c].loaded /\ r.dir = install[c].dir
        /\ r.failed = install[c].failed /\ r.ok = install[c].ok
        /\ r.removed = install[c].removed /\ r.serves = install[c].serves
        /\ r.enabled = install[c].enabled /\ r.changed = install[c].changed
    BY <1>0 DEF InstallCall, InstallSteps
  <1>3. Reload(r) = Reload(install[c]) /\ Reload(r) \in BOOLEAN
    BY <1>2 DEF Reload
  <1>4. a \in InstallAnswers
    BY <1>0, <1>3 DEF InstallAnswers, InstallCall
  <1>5. a.ok = (r.ok /\ ~r.failed) /\ a.reload = Reload(r)
    BY <1>2, <1>3
  <1> HIDE DEF r, a
  <1>6. /\ install' \in [Installs -> InstallCall] /\ install'[c] = r
        /\ said' \in [Installs -> InstallAnswers] /\ said'[c] = a
        /\ \A d \in Installs : d # c => install'[d] = install[d] /\ said'[d] = said[d]
    BY <1>0, <1>1, <1>2, <1>4 DEF ExtTypeOK
  <1>7. ExtTypeOK'
    BY <1>0, <1>6 DEF ExtTypeOK
  <1>8. SaidAsMade(c)'
    BY <1>2, <1>5, <1>6 DEF SaidAsMade
  <1>9. Smooth(c) => Stands(c)'
    BY <1>0, <1>2, <1>6 DEF Stands, Afterwards
  <1> QED
    BY <1>0, <1>2, <1>6, <1>7, <1>8, <1>9, StepOfCall

LEMMA ExtNextInv ==
    ASSUME ExtInv, [ExtNext]_extVars
    PROVE  ExtInv'
  <1>1. CASE UNCHANGED extVars
    <2>1. ExtTypeOK' /\ Begun' = Begun /\ Installing' = Installing
      BY <1>1 DEF ExtInv, extVars, ExtTypeOK, Begun, Installing
    <2>2. \A c \in Installs : (Smooth(c)' <=> Smooth(c)) /\ (Stands(c) => Stands(c)')
                              /\ (SaidAsMade(c) => SaidAsMade(c)')
      BY <1>1, <2>1 DEF extVars, Smooth, Stands, SaidAsMade
    <2> QED
      BY <1>1, <2>1, <2>2 DEF ExtInv, extVars
  <1>2. ASSUME NEW c \in Installs, InstallStep(c)
        PROVE  ExtInv'
    BY <1>2, QueryInv, ReadEnabledInv, RemoveUserCopyInv, WriteMetadataInv, WriteJavascriptInv,
       EnableInv, ListWindowsInv, EndInstallInv
       DEF InstallStep
  <1> QED
    BY <1>1, <1>2, AroundInv DEF ExtNext

(* In every behaviour of the extension's setup, what a setup that reports success without a *)
(* reload has done lasts.                                                                   *)
THEOREM SetupStays == ExtSpec => []SetupLasts
  <1>1. ExtSpec => []ExtInv
    BY ExtInitInv, ExtNextInv, PTL DEF ExtSpec
  <1> QED
    BY <1>1, ExtInvMeans, PTL

(***************************************************************************)
(* PiClient.  A call that waits has the client for itself (OneUnanswered,  *)
(* from the sequential mode), a request is to the process of its client or *)
(* the client has been closed (Linked), a connect under way is its         *)
(* client's (ProcsOfClients), and every client but the session's is closed *)
(* (ClientsInUse).                                                         *)
(***************************************************************************)

Conns == [binary : {"none", "package", "path"}, session : 0..MaxEnds, process : 0..MaxProcs,
          connecting : 0..MaxProcs, closed : BOOLEAN]
Processes == [of : 0..MaxClients, at : {"unused", "live", "closing", "gone"},
              verdict : {"pending", "ok", "failed"}]
Records == [at : PiSteps, session : 0..MaxEnds, client : 0..MaxClients, process : 0..MaxProcs,
            aborted : BOOLEAN, sent : 0..2, hadPackage : BOOLEAN,
            answer : {"none", "ok", "error", "told", "raw"}]
Launches == [binary : {"none", "package", "path"}, fallback : BOOLEAN, failed : BOOLEAN]
Binaries == [package : BOOLEAN, path : BOOLEAN, fits : BOOLEAN, canInstall : BOOLEAN]

PiTyped ==
    /\ binaries \in Binaries /\ session \in 0..MaxEnds /\ fetching \in BOOLEAN
    /\ launch \in Launches /\ client \in 0..MaxClients
    /\ conn \in [Clients -> Conns] /\ proc \in [Procs -> Processes]
    /\ pi \in [PiCalls -> Records]

OnClient == {"ensure", "reconnect", "waiting", "request"}

Stage(r) ==
    /\ r.at \in PiSteps \ {"request", "done"} => r.sent = 0
    /\ r.at = "request" => r.sent = 1
    /\ r.at = "done" => r.answer # "none"
    /\ r.sent <= 1
    /\ r.sent = 1 => r.client # 0
    /\ r.at \in OnClient => r.client # 0 /\ r.answer = "none"

Linked(r) ==
    /\ r.at \in OnClient => conn[r.client].binary # "none"
    /\ r.at = "reconnect" => conn[r.client].process = 0 /\ conn[r.client].connecting = 0
    /\ r.at = "request" =>
          /\ r.process # 0
          /\ conn[r.client].process = r.process \/ conn[r.client].closed
    /\ r.answer = "raw" /\ r.sent = 1 => conn[r.client].closed

Fitted(r) == r.hadPackage => binaries.package /\ ~launch.fallback

Waits(r) == r.at # "idle" /\ r.answer = "none"

OneUnanswered == \A j, k \in PiCalls : Waits(pi[j]) /\ Waits(pi[k]) => j = k

ClientsInUse ==
    /\ client # 0 => conn[client].binary # "none"
    /\ \A c \in Clients :
          /\ conn[c].process # 0 => conn[c].connecting = 0
          /\ conn[c].closed => conn[c].process = 0
          /\ conn[c].binary # "none" =>
                conn[c].closed \/ (c = client /\ conn[c].session = session)

ProcsOfClients ==
    \A p \in Procs :
        /\ proc[p].of = 0 <=> proc[p].at = "unused"
        /\ proc[p].of # 0 => conn[proc[p].of].binary # "none"
        /\ proc[p].of # 0 /\ proc[p].verdict = "pending" =>
              conn[proc[p].of].connecting = p \/ conn[proc[p].of].closed
        /\ proc[p].at = "live" => conn[proc[p].of].process = p \/ proc[p].verdict = "pending"

PiInv ==
    /\ PiTypeOK
    /\ \A k \in PiCalls : Stage(pi[k]) /\ Linked(pi[k]) /\ Fitted(pi[k])
    /\ OneUnanswered /\ ClientsInUse /\ ProcsOfClients

LEMMA PiTypes == (PiTypeOK <=> PiTyped) /\ (PiTypeOK' <=> PiTyped')
  BY DEF PiTypeOK, PiTyped, Binaries, Launches, Conns, Processes, Records

LEMMA NoThings == NoConn \in Conns /\ NoProc \in Processes /\ NoPi \in Records /\ NoLaunch \in Launches
  BY PiAssumption DEF NoConn, NoProc, NoPi, NoLaunch, Conns, Processes, Records, Launches, PiSteps

LEMMA PiInitInv == PiInit => PiInv
  <1> SUFFICES ASSUME PiInit PROVE PiInv
    OBVIOUS
  <1>1. PiTypeOK
    <2>1. 0 \in 0..MaxEnds /\ 0 \in 0..MaxClients
      BY PiAssumption
    <2>2. PiTyped
      BY <2>1, NoThings DEF PiInit, PiTyped, Binaries
    <2> QED
      BY <2>2, PiTypes
  <1>2. \A k \in PiCalls : Stage(pi[k]) /\ Linked(pi[k]) /\ Fitted(pi[k])
    BY DEF PiInit, Stage, Linked, Fitted, OnClient, NoPi
  <1>3. OneUnanswered
    BY DEF PiInit, OneUnanswered, Waits, NoPi
  <1>4. ClientsInUse /\ ProcsOfClients
    BY DEF PiInit, ClientsInUse, ProcsOfClients, NoConn, NoProc
  <1> QED
    BY <1>1, <1>2, <1>3, <1>4 DEF PiInv

LEMMA PiInvMeans == PiInv => CallsAreTold /\ NoServerIsForgotten
  <1> SUFFICES ASSUME PiInv PROVE CallsAreTold /\ NoServerIsForgotten
    OBVIOUS
  <1>1. UncertainIsTold
    BY DEF PiInv, Stage, Linked, UncertainIsTold
  <1>2. FallbackIsLeft
    BY DEF PiInv, Fitted, FallbackIsLeft
  <1>3. NoServerIsForgotten
    BY DEF PiInv, PiTypeOK, ProcsOfClients, ClientsInUse, NoServerIsForgotten, Clients, Procs
  <1> QED
    BY <1>1, <1>2, <1>3 DEF CallsAreTold

(* What a step does to one call leaves the others as they were. *)
LEMMA SetPiKeeps ==
    ASSUME PiTyped, NEW k \in PiCalls, NEW r \in Records, SetPi(k, r)
    PROVE  /\ pi' \in [PiCalls -> Records] /\ pi'[k] = r
           /\ \A j \in PiCalls : j # k => pi'[j] = pi[j]
  BY DEF SetPi, PiTyped

LEMMA EndsKeeps ==
    ASSUME PiTyped, NEW k \in PiCalls, NEW a \in {"ok", "error", "told", "raw"}, Ends(k, a)
    PROVE  /\ pi' \in [PiCalls -> Records]
           /\ pi'[k].at = "done"
           /\ pi'[k].answer = IF pi[k].answer = "none" THEN a ELSE pi[k].answer
           /\ pi'[k].sent = pi[k].sent /\ pi'[k].client = pi[k].client
           /\ pi'[k].hadPackage = pi[k].hadPackage
           /\ \A j \in PiCalls : j # k => pi'[j] = pi[j]
  <1> DEFINE final == IF pi[k].answer = "none" THEN a ELSE pi[k].answer
             r == [pi[k] EXCEPT !.at = "done", !.answer = final]
  <1>1. pi[k] \in Records
    BY DEF PiTyped
  <1>2. /\ r \in Records /\ r.at = "done" /\ r.answer = final
        /\ r.sent = pi[k].sent /\ r.client = pi[k].client /\ r.hadPackage = pi[k].hadPackage
    BY <1>1 DEF Records, PiSteps
  <1>3. SetPi(k, r)
    BY DEF Ends, SetPi
  <1> HIDE DEF r
  <1>4. /\ pi' \in [PiCalls -> Records] /\ pi'[k] = r
        /\ \A j \in PiCalls : j # k => pi'[j] = pi[j]
    BY <1>2, <1>3, SetPiKeeps
  <1> QED
    BY <1>2, <1>4

(* A step of one call keeps the invariant of the calls, when it keeps that of its own: *)
(* one that nobody answered has the client for itself; and one that was answered, or    *)
(* begins, leaves clients in use alone.                                                 *)
LEMMA StepOfOne ==
    ASSUME PiInv, PiTypeOK', NEW k \in PiCalls,
           \A j \in PiCalls : j # k => pi'[j] = pi[j],
           Stage(pi'[k]), Linked(pi[k])', Fitted(pi[k])',
           \/ Waits(pi'[k]) => Waits(pi[k])
           \/ \A j \in PiCalls : j # k => ~Waits(pi[j]),
           \/ Waits(pi[k])
           \/ \A j \in PiCalls : j # k => ~Waits(pi[j])
           \/ \A c \in Clients : conn[c].binary # "none" => conn'[c] = conn[c],
           \A c \in Clients : conn[c].closed => conn'[c].closed,
           binaries.package => binaries'.package,
           launch'.fallback => launch.fallback \/ ~binaries.package,
           ClientsInUse', ProcsOfClients'
    PROVE  PiInv'
  <1>0. PiTyped
    BY PiTypes DEF PiInv
  <1>1. OneUnanswered'
    BY DEF PiInv, OneUnanswered, Waits
  <1>2. ASSUME NEW j \in PiCalls PROVE Stage(pi[j])' /\ Linked(pi[j])' /\ Fitted(pi[j])'
    <2>1. CASE j = k
      BY <2>1 DEF Stage
    <2>2. CASE j # k
      <3>1. pi'[j] = pi[j] /\ Stage(pi[j]) /\ Linked(pi[j]) /\ Fitted(pi[j])
        BY <2>2 DEF PiInv
      <3>2. Stage(pi[j])'
        BY <3>1 DEF Stage
      <3>3. Fitted(pi[j])'
        BY <3>1 DEF Fitted
      <3>4. pi[j].client # 0 => pi[j].client \in Clients
        BY <1>0, PiAssumption DEF PiTyped, Records, Clients
      <3>5. Linked(pi[j])'
        <4>1. CASE Waits(pi[j])
          <5>1. \A c \in Clients : conn[c].binary # "none" => conn'[c] = conn[c]
            BY <4>1, <2>2 DEF PiInv, OneUnanswered
          <5> QED
            BY <5>1, <4>1, <3>1, <3>4 DEF Linked, Stage, Waits, OnClient
        <4>2. CASE ~Waits(pi[j])
          <5>1. pi[j].at \notin OnClient
            BY <4>2, <3>1 DEF Stage, Waits, OnClient
          <5> QED
            BY <5>1, <3>1, <3>4 DEF Linked, Stage, OnClient
        <4> QED
          BY <4>1, <4>2
      <3> QED
        BY <3>2, <3>3, <3>5
    <2> QED
      BY <2>1, <2>2
  <1> QED
    BY <1>1, <1>2 DEF PiInv

(***************************************************************************)
(* Steps that leave the clients and the servers as they are.               *)
(***************************************************************************)
Quiet == UNCHANGED <<binaries, session, launch, fetching, client, conn, proc>>

LEMMA QuietStep ==
    ASSUME PiInv, Quiet, NEW k \in PiCalls, pi' \in [PiCalls -> Records],
           \A j \in PiCalls : j # k => pi'[j] = pi[j],
           Stage(pi'[k]), Linked(pi[k])', Fitted(pi[k])',
           \/ Waits(pi'[k]) => Waits(pi[k])
           \/ \A j \in PiCalls : j # k => ~Waits(pi[j])
    PROVE  PiInv'
  <1>1. PiTypeOK'
    BY PiTypes DEF PiInv, PiTyped, Quiet
  <1>2. ClientsInUse' /\ ProcsOfClients'
    BY DEF PiInv, Quiet, ClientsInUse, ProcsOfClients
  <1>3. /\ \A c \in Clients : conn'[c] = conn[c]
        /\ binaries'.package = binaries.package /\ launch'.fallback = launch.fallback
    BY DEF Quiet
  <1> QED
    BY <1>1, <1>2, <1>3, StepOfOne

LEMMA StartsPiInv ==
    ASSUME PiInv, NEW k \in PiCalls, StartsPi(k)
    PROVE  PiInv'
  <1> DEFINE r == [NoPi EXCEPT !.at = "dropping", !.session = session,
                               !.hadPackage = binaries.package]
  <1>1. PiTyped /\ Quiet /\ Free(k) /\ SetPi(k, r) /\ ~(launch.fallback /\ binaries.package)
    BY PiTypes DEF PiInv, StartsPi, Quiet
  <1>2. /\ r \in Records /\ r.at = "dropping" /\ r.sent = 0 /\ r.answer = "none"
        /\ r.hadPackage = binaries.package
    BY <1>1, NoThings DEF NoPi, Records, PiSteps, PiTyped, Binaries
  <1> HIDE DEF r
  <1>3. /\ pi' \in [PiCalls -> Records] /\ pi'[k] = r
        /\ \A j \in PiCalls : j # k => pi'[j] = pi[j]
    BY <1>1, <1>2, SetPiKeeps
  <1>4. Stage(pi'[k]) /\ Linked(pi[k])' /\ Fitted(pi[k])'
    BY <1>1, <1>2, <1>3 DEF Stage, Linked, Fitted, OnClient, Quiet
  <1>5. \A j \in PiCalls : j # k => ~Waits(pi[j])
    BY <1>1 DEF Free, Waits
  <1> QED
    BY <1>1, <1>3, <1>4, <1>5, QuietStep

LEMMA AnsweredInv ==
    ASSUME PiInv, NEW k \in PiCalls, Answered(k)
    PROVE  PiInv'
  <1>1. PiTyped /\ Quiet /\ pi[k].at = "request" /\ Stage(pi[k]) /\ Linked(pi[k]) /\ Fitted(pi[k])
    BY PiTypes DEF PiInv, Answered, Quiet
  <1>2. PICK a \in {"ok", "error"} : Ends(k, a)
    BY DEF Answered
  <1>3. /\ pi' \in [PiCalls -> Records]
        /\ pi'[k].at = "done"
        /\ pi'[k].answer = IF pi[k].answer = "none" THEN a ELSE pi[k].answer
        /\ pi'[k].sent = pi[k].sent /\ pi'[k].client = pi[k].client
        /\ pi'[k].hadPackage = pi[k].hadPackage
        /\ \A j \in PiCalls : j # k => pi'[j] = pi[j]
    BY <1>1, <1>2, EndsKeeps
  <1>4. Stage(pi'[k]) /\ Linked(pi[k])' /\ Fitted(pi[k])' /\ ~Waits(pi'[k])
    BY <1>1, <1>2, <1>3 DEF Stage, Linked, Fitted, OnClient, Quiet, PiSteps, Waits
  <1> QED
    BY <1>1, <1>3, <1>4, QuietStep

LEMMA AbortPiInv ==
    ASSUME PiInv, NEW k \in PiCalls, AbortPi(k)
    PROVE  PiInv'
  <1> DEFINE r == [pi[k] EXCEPT !.aborted = TRUE,
                       !.answer = IF pi[k].at = "request" THEN "told" ELSE "raw",
                       !.at = IF pi[k].at \in {"dropping", "installing"} THEN pi[k].at ELSE "done"]
  <1>1. PiTyped /\ Quiet /\ SetPi(k, r) /\ Stage(pi[k]) /\ Linked(pi[k]) /\ Fitted(pi[k])
    BY PiTypes DEF PiInv, AbortPi, Quiet, SetPi
  <1>0. pi[k] \in Records /\ pi[k].at # "idle" /\ pi[k].answer = "none"
    BY <1>1 DEF AbortPi, PiTyped
  <1>2. /\ r \in Records /\ r.answer = IF pi[k].at = "request" THEN "told" ELSE "raw"
        /\ r.at = IF pi[k].at \in {"dropping", "installing"} THEN pi[k].at ELSE "done"
        /\ r.sent = pi[k].sent /\ r.client = pi[k].client
        /\ r.hadPackage = pi[k].hadPackage
    BY <1>0 DEF Records, PiSteps
  <1> HIDE DEF r
  <1>3. /\ pi' \in [PiCalls -> Records] /\ pi'[k] = r
        /\ \A j \in PiCalls : j # k => pi'[j] = pi[j]
    BY <1>1, <1>2, SetPiKeeps
  <1>4. pi[k].at \in {"request", "done"} \/ pi[k].sent = 0
    BY <1>0, <1>1 DEF Stage, Records
  <1>5. Stage(pi'[k]) /\ Linked(pi[k])' /\ Fitted(pi[k])' /\ ~Waits(pi'[k])
    BY <1>0, <1>1, <1>2, <1>3, <1>4 DEF Stage, Linked, Fitted, OnClient, Quiet, PiSteps, Waits
  <1> QED
    BY <1>1, <1>3, <1>5, QuietStep

(***************************************************************************)
(* What becomes of clients and servers.                                    *)
(***************************************************************************)

(* The client of the session, if there is one, is closed and given up. *)
LEMMA ClientClosed ==
    ASSUME PiInv, Close(client), client' = 0, session' \in 0..MaxEnds
    PROVE  /\ conn' \in [Clients -> Conns] /\ proc' \in [Procs -> Processes]
           /\ \A c \in Clients : conn[c].closed => conn'[c].closed
           /\ \A c \in Clients : conn'[c].binary = conn[c].binary
           /\ client # 0 => client \in Clients /\ conn'[client].closed
           /\ ClientsInUse' /\ ProcsOfClients'
           /\ \A c \in Clients : c # client => conn'[c] = conn[c]
  <1>0. PiTyped /\ client \in 0..MaxClients
    BY PiTypes DEF PiInv, PiTyped
  <1>1. CASE client = 0
    <2>1. conn' = conn /\ proc' = proc
      BY <1>1 DEF Close
    <2>2. \A c \in Clients : c # 0
      BY PiAssumption DEF Clients
    <2> QED
      BY <2>1, <2>2, <1>0, <1>1 DEF PiInv, PiTyped, ClientsInUse, ProcsOfClients
  <1>2. CASE client # 0
    <2> DEFINE p == conn[client].process
    <2>1. client \in Clients /\ conn[client] \in Conns /\ p \in 0..MaxProcs
      BY <1>0, <1>2, PiAssumption DEF PiTyped, Clients, Conns
    <2> DEFINE r == [conn[client] EXCEPT !.process = 0, !.closed = TRUE, !.connecting = 0]
    <2>2. /\ conn' = [conn EXCEPT ![client] = r]
          /\ proc' = IF p # 0 /\ proc[p].at = "live" THEN [proc EXCEPT ![p].at = "closing"] ELSE proc
      BY <1>0, <1>2, <2>1 DEF Close, Reset, PiTyped, Conns
    <2>3. /\ conn' \in [Clients -> Conns]
          /\ \A c \in Clients : c # client => conn'[c] = conn[c]
          /\ conn'[client].binary = conn[client].binary /\ conn'[client].session = conn[client].session
          /\ conn'[client].process = 0 /\ conn'[client].connecting = 0 /\ conn'[client].closed
      <3>0. 0 \in 0..MaxProcs /\ conn[client] \in Conns
        BY <2>1, PiAssumption
      <3>1. r \in Conns
        BY <3>0 DEF Conns
      <3>2. /\ conn' \in [Clients -> Conns] /\ conn'[client] = r
            /\ \A c \in Clients : c # client => conn'[c] = conn[c]
        BY <1>0, <2>1, <2>2, <3>1 DEF PiTyped
      <3>3. /\ r.process = 0 /\ r.connecting = 0 /\ r.closed
            /\ r.binary = conn[client].binary /\ r.session = conn[client].session
        BY <2>1 DEF Conns
      <3> QED
        BY <3>2, <3>3
    <2>4. p # 0 => p \in Procs
      BY <2>1, PiAssumption DEF Procs
    <2>5. /\ proc' \in [Procs -> Processes]
          /\ \A q \in Procs : /\ proc'[q].of = proc[q].of /\ proc'[q].verdict = proc[q].verdict
                              /\ proc'[q].at = IF q = p /\ proc[q].at = "live" THEN "closing"
                                              ELSE proc[q].at
      BY <1>0, <2>2, <2>4, PiAssumption DEF PiTyped, Processes, Procs
    <2> HIDE DEF p
    <2>6. ClientsInUse'
      BY <2>1, <2>3 DEF PiInv, ClientsInUse
    <2>7. ProcsOfClients'
      <3> SUFFICES ASSUME NEW q \in Procs
                   PROVE  /\ proc'[q].of = 0 <=> proc'[q].at = "unused"
                          /\ proc'[q].of # 0 => conn'[proc'[q].of].binary # "none"
                          /\ proc'[q].of # 0 /\ proc'[q].verdict = "pending" =>
                                conn'[proc'[q].of].connecting = q \/ conn'[proc'[q].of].closed
                          /\ proc'[q].at = "live" => conn'[proc'[q].of].process = q \/ proc'[q].verdict = "pending"
        BY DEF ProcsOfClients
      <3>1. proc[q].of # 0 => proc[q].of \in Clients
        BY <1>0, PiAssumption DEF PiTyped, Processes, Clients
      <3> QED
        BY <3>1, <2>3, <2>5 DEF PiInv, ProcsOfClients, p
    <2> QED
      BY <2>1, <2>3, <2>5, <2>6, <2>7
  <1> QED
    BY <1>1, <1>2

(* A connect of a client in use begins, with a server that was not there before. *)
LEMMA ServerSpawned ==
    ASSUME PiInv, NEW c \in Clients, NEW p \in Procs,
           conn[c].binary # "none", conn[c].process = 0, conn[c].connecting = 0,
           proc[p].at = "unused",
           proc' = [proc EXCEPT ![p] = [of |-> c, at |-> "live", verdict |-> "pending"]],
           conn' = [conn EXCEPT ![c].connecting = p],
           UNCHANGED <<client, session>>
    PROVE  /\ conn' \in [Clients -> Conns] /\ proc' \in [Procs -> Processes]
           /\ conn'[c].closed = conn[c].closed /\ conn'[c].binary = conn[c].binary
           /\ \A d \in Clients : d # c => conn'[d] = conn[d]
           /\ ClientsInUse' /\ ProcsOfClients'
  <1>0. PiTyped /\ c \in 0..MaxClients /\ p \in 0..MaxProcs /\ c # 0
    BY PiTypes, PiAssumption DEF PiInv, PiTyped, Clients, Procs
  <1>1. /\ conn' \in [Clients -> Conns]
        /\ \A d \in Clients : d # c => conn'[d] = conn[d]
        /\ conn'[c].binary = conn[c].binary /\ conn'[c].session = conn[c].session
        /\ conn'[c].process = 0 /\ conn'[c].connecting = p /\ conn'[c].closed = conn[c].closed
    BY <1>0 DEF PiTyped, Conns
  <1>2. /\ proc' \in [Procs -> Processes]
        /\ \A q \in Procs : q # p => proc'[q] = proc[q]
        /\ proc'[p].of = c /\ proc'[p].at = "live" /\ proc'[p].verdict = "pending"
    BY <1>0 DEF PiTyped, Processes
  <1>3. ClientsInUse'
    BY <1>0, <1>1 DEF PiInv, ClientsInUse, PiTyped, Clients
  <1>4. ProcsOfClients'
    <2>1. \A q \in Procs : proc[q].of # 0 => proc[q].of \in Clients
      BY <1>0, PiAssumption DEF PiTyped, Processes, Clients
    <2>2. \A q \in Procs : proc[q].of = c /\ proc[q].verdict = "pending" => conn[c].closed
      <3> SUFFICES ASSUME NEW q \in Procs, proc[q].of = c, proc[q].verdict = "pending"
                   PROVE  conn[c].closed
        OBVIOUS
      <3>1. q # 0
        BY DEF Procs
      <3> QED
        BY <3>1, <1>0 DEF PiInv, ProcsOfClients
    <2> QED
      BY <1>0, <1>1, <1>2, <2>1, <2>2 DEF PiInv, ProcsOfClients
  <1> QED
    BY <1>1, <1>2, <1>3, <1>4

(* A client puts its server aside, which has ended. *)
LEMMA ServerPutAside ==
    ASSUME PiInv, NEW c \in Clients, conn[c].process # 0, proc[conn[c].process].at # "live",
           conn' = [conn EXCEPT ![c].process = 0],
           UNCHANGED <<client, session, proc>>
    PROVE  /\ conn' \in [Clients -> Conns] /\ proc' \in [Procs -> Processes]
           /\ conn'[c].closed = conn[c].closed /\ conn'[c].binary = conn[c].binary
           /\ conn'[c].process = 0 /\ conn'[c].connecting = 0
           /\ \A d \in Clients : d # c => conn'[d] = conn[d]
           /\ ClientsInUse' /\ ProcsOfClients'
  <1>0. PiTyped /\ 0 \in 0..MaxProcs /\ conn[c].connecting = 0
    BY PiTypes, PiAssumption DEF PiInv, PiTyped, ClientsInUse
  <1>1. /\ conn' \in [Clients -> Conns]
        /\ \A d \in Clients : d # c => conn'[d] = conn[d]
        /\ conn'[c].binary = conn[c].binary /\ conn'[c].session = conn[c].session
        /\ conn'[c].process = 0 /\ conn'[c].connecting = 0 /\ conn'[c].closed = conn[c].closed
    BY <1>0 DEF PiTyped, Conns
  <1>2. ClientsInUse'
    <2>1. client # 0 => client \in Clients
      BY <1>0, PiAssumption DEF PiTyped, Clients
    <2> QED
      BY <1>0, <1>1, <2>1 DEF PiInv, ClientsInUse
  <1>3. ProcsOfClients'
    <2>1. \A q \in Procs : proc[q].of # 0 => proc[q].of \in Clients
      BY <1>0, PiAssumption DEF PiTyped, Processes, Clients
    <2>2. \A q \in Procs : proc'[q] = proc[q]
      OBVIOUS
    <2>3. \A q \in Procs : q # 0
      BY DEF Procs
    <2> QED
      BY <1>0, <1>1, <2>1, <2>2, <2>3 DEF PiInv, ProcsOfClients
  <1> QED
    BY <1>0, <1>1, <1>2, <1>3 DEF PiTyped

(***************************************************************************)
(* Steps of a call.                                                        *)
(***************************************************************************)
LEMMA StartsByDroppingInv ==
    ASSUME PiInv, NEW k \in PiCalls, StartsByDropping(k)
    PROVE  PiInv'
  <1> DEFINE r == [NoPi EXCEPT !.at = "dropping", !.session = session, !.client = client,
                               !.hadPackage = TRUE]
             l == [NoLaunch EXCEPT !.failed = launch.failed]
  <1>1. /\ PiTyped /\ Free(k) /\ SetPi(k, r) /\ binaries.package
        /\ client' = 0 /\ launch' = l /\ Close(client)
        /\ UNCHANGED <<binaries, session, fetching>>
    BY PiTypes DEF PiInv, StartsByDropping
  <1>2. /\ r \in Records /\ r.at = "dropping" /\ r.sent = 0 /\ r.answer = "none"
        /\ l \in Launches /\ ~l.fallback
    BY <1>1, NoThings DEF NoPi, Records, PiSteps, PiTyped, Launches, NoLaunch
  <1> HIDE DEF r, l
  <1>3. /\ pi' \in [PiCalls -> Records] /\ pi'[k] = r
        /\ \A j \in PiCalls : j # k => pi'[j] = pi[j]
    BY <1>1, <1>2, SetPiKeeps
  <1>4. /\ conn' \in [Clients -> Conns] /\ proc' \in [Procs -> Processes]
        /\ \A c \in Clients : conn[c].closed => conn'[c].closed
        /\ ClientsInUse' /\ ProcsOfClients'
    <2>1. session' \in 0..MaxEnds
      BY <1>1 DEF PiTyped
    <2> QED
      BY <1>1, <2>1, ClientClosed
  <1>5. PiTypeOK'
    <2>1. 0 \in 0..MaxClients
      BY PiAssumption
    <2> QED
      BY <1>1, <1>2, <1>3, <1>4, <2>1, PiTypes DEF PiTyped
  <1>6. Stage(pi'[k]) /\ Linked(pi[k])' /\ Fitted(pi[k])'
    BY <1>1, <1>2, <1>3 DEF Stage, Linked, Fitted, OnClient
  <1>7. \A j \in PiCalls : j # k => ~Waits(pi[j])
    BY <1>1 DEF Free, Waits
  <1> QED
    BY <1>1, <1>2, <1>3, <1>4, <1>5, <1>6, <1>7, StepOfOne

(* connect spawns a server, or joins the connect under way. *)
LEMMA JoinConnectInv ==
    ASSUME PiInv, NEW k \in PiCalls, pi[k].at \in {"ensure", "reconnect"},
           conn[pi[k].client].process = 0, JoinConnect(k, pi[k].client),
           UNCHANGED <<binaries, session, launch, fetching, client>>
    PROVE  PiInv'
  <1> DEFINE c == pi[k].client
  <1>0. PiTyped /\ pi[k] \in Records /\ Stage(pi[k]) /\ Linked(pi[k]) /\ Fitted(pi[k])
    BY PiTypes DEF PiInv, PiTyped
  <1>1. c \in Clients /\ conn[c].binary # "none" /\ Waits(pi[k]) /\ conn[c] \in Conns
    BY <1>0, PiAssumption DEF PiTyped, Records, Clients, Stage, Linked, OnClient, Waits
  <1>2. PICK p \in 0..MaxProcs :
            /\ SetPi(k, [pi[k] EXCEPT !.at = "waiting", !.process = p])
            /\ \/ UNCHANGED <<conn, proc>>
               \/ /\ p \in Procs /\ proc[p].at = "unused" /\ conn[c].connecting = 0
                  /\ proc' = [proc EXCEPT ![p] = [of |-> c, at |-> "live", verdict |-> "pending"]]
                  /\ conn' = [conn EXCEPT ![c].connecting = p]
    <2>1. CASE conn[c].connecting # 0
      BY <2>1, <1>1 DEF JoinConnect, Connecting, Conns
    <2>2. CASE conn[c].connecting = 0
      <3>1. \A p \in Procs : p \in 0..MaxProcs
        BY PiAssumption DEF Procs
      <3> QED
        BY <2>2, <3>1 DEF JoinConnect, Connecting
    <2> QED
      BY <2>1, <2>2
  <1> DEFINE r == [pi[k] EXCEPT !.at = "waiting", !.process = p]
  <1>3. /\ r \in Records /\ r.at = "waiting" /\ r.client = c /\ r.sent = pi[k].sent
        /\ r.answer = pi[k].answer /\ r.hadPackage = pi[k].hadPackage
    BY <1>0, <1>2 DEF Records, PiSteps
  <1>4. SetPi(k, r)
    BY <1>2
  <1> HIDE DEF r, c
  <1>5. /\ pi' \in [PiCalls -> Records] /\ pi'[k] = r
        /\ \A j \in PiCalls : j # k => pi'[j] = pi[j]
    BY <1>0, <1>3, <1>4, SetPiKeeps
  <1>6. /\ conn' \in [Clients -> Conns] /\ proc' \in [Procs -> Processes]
        /\ \A d \in Clients : conn'[d].closed = conn[d].closed /\ conn'[d].binary = conn[d].binary
        /\ ClientsInUse' /\ ProcsOfClients'
    <2>1. CASE UNCHANGED <<conn, proc>>
      BY <2>1, <1>0 DEF PiInv, PiTyped, ClientsInUse, ProcsOfClients
    <2>2. CASE ~UNCHANGED <<conn, proc>>
      <3>1. conn[c].process = 0
        BY DEF c
      <3>2. /\ p \in Procs /\ proc[p].at = "unused" /\ conn[c].connecting = 0
            /\ proc' = [proc EXCEPT ![p] = [of |-> c, at |-> "live", verdict |-> "pending"]]
            /\ conn' = [conn EXCEPT ![c].connecting = p]
        BY <1>2, <2>2
      <3>3. /\ conn' \in [Clients -> Conns] /\ proc' \in [Procs -> Processes]
            /\ conn'[c].closed = conn[c].closed /\ conn'[c].binary = conn[c].binary
            /\ \A d \in Clients : d # c => conn'[d] = conn[d]
            /\ ClientsInUse' /\ ProcsOfClients'
        BY <1>1, <3>1, <3>2, ServerSpawned
      <3> QED
        BY <3>3
    <2> QED
      BY <2>1, <2>2
  <1>7. PiTypeOK'
    BY <1>0, <1>5, <1>6, PiTypes DEF PiTyped
  <1>8. Stage(pi'[k]) /\ Linked(pi[k])' /\ Fitted(pi[k])'
    <2>1. pi[k].sent = 0 /\ pi[k].answer = "none" /\ c # 0
      BY <1>0, <1>1, PiAssumption DEF Stage, PiSteps, Waits, Clients
    <2> QED
      BY <1>0, <1>1, <1>3, <1>5, <1>6, <2>1 DEF Stage, Linked, Fitted, OnClient, PiSteps
  <1> QED
    BY <1>0, <1>1, <1>5, <1>6, <1>7, <1>8, StepOfOne

LEMMA ReconnectInv ==
    ASSUME PiInv, NEW k \in PiCalls, Reconnect(k)
    PROVE  PiInv'
  BY JoinConnectInv DEF Reconnect, PiInv, Linked

(* A request is sent to the server the client has. *)
LEMMA SendInv ==
    ASSUME PiInv, NEW k \in PiCalls, pi[k].at \in {"ensure", "waiting"},
           conn[pi[k].client].process # 0, Send(k, conn[pi[k].client].process),
           Quiet
    PROVE  PiInv'
  <1> DEFINE c == pi[k].client
             q == conn[c].process
             r == [pi[k] EXCEPT !.at = "request", !.process = q, !.sent = @ + 1]
  <1>0. PiTyped /\ pi[k] \in Records /\ Stage(pi[k]) /\ Linked(pi[k]) /\ Fitted(pi[k])
    BY PiTypes DEF PiInv, PiTyped
  <1>1. c \in Clients /\ conn[c].binary # "none" /\ Waits(pi[k]) /\ conn[c] \in Conns
    BY <1>0, PiAssumption DEF PiTyped, Records, Clients, Stage, Linked, OnClient, Waits
  <1>2. pi[k].sent = 0 /\ q \in 0..MaxProcs
    BY <1>0, <1>1 DEF Stage, PiSteps, Conns
  <1>3. /\ r \in Records /\ r.at = "request" /\ r.client = c /\ r.sent = 1
        /\ r.process = q
        /\ r.answer = pi[k].answer /\ r.hadPackage = pi[k].hadPackage
    <2> HIDE DEF q
    <2>1. r \in Records
      <3>1. pi[k].sent + 1 \in 0..2 /\ "request" \in PiSteps
        BY <1>2 DEF PiSteps
      <3> QED
        BY <1>0, <1>2, <3>1 DEF Records
    <2>2. r.sent = 1
      BY <1>0, <1>2 DEF Records
    <2> QED
      BY <1>0, <2>1, <2>2 DEF Records
  <1>4. SetPi(k, r)
    BY DEF Send
  <1>5. conn[c].process # 0 /\ q = conn[c].process
    OBVIOUS
  <1> HIDE DEF r, c, q
  <1>6. /\ pi' \in [PiCalls -> Records] /\ pi'[k] = r
        /\ \A j \in PiCalls : j # k => pi'[j] = pi[j]
    BY <1>0, <1>3, <1>4, SetPiKeeps
  <1>7. Stage(pi'[k]) /\ Linked(pi[k])' /\ Fitted(pi[k])'
    <2>1. pi[k].answer = "none" /\ c # 0
      BY <1>1, PiAssumption DEF Waits, Clients
    <2> QED
      BY <1>0, <1>1, <1>3, <1>5, <1>6, <2>1 DEF Stage, Linked, Fitted, OnClient, PiSteps, Quiet
  <1> QED
    BY <1>0, <1>1, <1>6, <1>7, QuietStep

(* A call that waited for a client ends without a request. *)
LEMMA EndsUnsent ==
    ASSUME PiInv, NEW k \in PiCalls, Ends(k, "raw"), pi[k].sent = 0,
           PiTypeOK', ClientsInUse', ProcsOfClients',
           \A c \in Clients : conn[c].closed => conn'[c].closed,
           \/ Waits(pi[k])
           \/ \A c \in Clients : conn[c].binary # "none" => conn'[c] = conn[c],
           binaries.package => binaries'.package,
           launch'.fallback => launch.fallback \/ ~binaries.package
    PROVE  PiInv'
  <1>0. PiTyped /\ Stage(pi[k]) /\ Linked(pi[k]) /\ Fitted(pi[k]) /\ "raw" \in {"ok", "error", "told", "raw"}
    BY PiTypes DEF PiInv
  <1>1. /\ pi'[k].at = "done"
        /\ pi'[k].answer = IF pi[k].answer = "none" THEN "raw" ELSE pi[k].answer
        /\ pi'[k].sent = 0 /\ pi'[k].client = pi[k].client
        /\ pi'[k].hadPackage = pi[k].hadPackage
        /\ \A j \in PiCalls : j # k => pi'[j] = pi[j]
    BY <1>0, EndsKeeps
  <1>2. Stage(pi'[k]) /\ Linked(pi[k])' /\ Fitted(pi[k])' /\ ~Waits(pi'[k])
    BY <1>0, <1>1 DEF Stage, Linked, Fitted, OnClient, PiSteps, Waits
  <1> QED
    BY <1>1, <1>2, StepOfOne

LEMMA EnsureInv ==
    ASSUME PiInv, NEW k \in PiCalls, Ensure(k)
    PROVE  PiInv'
  <1> DEFINE c == pi[k].client
  <1>0. PiTyped /\ pi[k] \in Records /\ Stage(pi[k]) /\ Linked(pi[k]) /\ Fitted(pi[k])
        /\ pi[k].at = "ensure" /\ UNCHANGED <<binaries, session, launch, fetching, client>>
    BY PiTypes DEF PiInv, PiTyped, Ensure
  <1>1. c \in Clients /\ conn[c].binary # "none" /\ Waits(pi[k]) /\ conn[c] \in Conns
        /\ pi[k].sent = 0
    BY <1>0, PiAssumption DEF PiTyped, Records, Clients, Stage, Linked, OnClient, Waits, PiSteps
  <1>2. CASE Ends(k, "raw") /\ UNCHANGED <<conn, proc>>
    <2>1. pi' \in [PiCalls -> Records]
      BY <1>0, <1>2, EndsKeeps
    <2>2. PiTypeOK' /\ ClientsInUse' /\ ProcsOfClients'
      BY <1>0, <1>2, <2>1, PiTypes DEF PiInv, PiTyped, ClientsInUse, ProcsOfClients
    <2> QED
      BY <1>0, <1>1, <1>2, <2>2, EndsUnsent
  <1>3. CASE conn[c].process # 0 /\ Send(k, conn[c].process) /\ UNCHANGED <<conn, proc>>
    BY <1>0, <1>3, SendInv DEF Quiet
  <1>4. CASE conn[c].process = 0 /\ JoinConnect(k, c)
    BY <1>0, <1>4, JoinConnectInv
  <1>5. CASE /\ conn[c].process # 0 /\ proc[conn[c].process].at # "live"
             /\ conn' = [conn EXCEPT ![c].process = 0]
             /\ Await(k, "reconnect") /\ UNCHANGED proc
    <2> DEFINE r == [pi[k] EXCEPT !.at = "reconnect"]
    <2>1. /\ r \in Records /\ r.at = "reconnect" /\ r.client = c /\ r.sent = 0
          /\ r.answer = pi[k].answer /\ r.hadPackage = pi[k].hadPackage
      BY <1>0, <1>1 DEF Records, PiSteps
    <2>2. SetPi(k, r)
      BY <1>5 DEF Await
    <2> HIDE DEF r, c
    <2>3. /\ pi' \in [PiCalls -> Records] /\ pi'[k] = r
          /\ \A j \in PiCalls : j # k => pi'[j] = pi[j]
      BY <1>0, <2>1, <2>2, SetPiKeeps
    <2>4. /\ conn' \in [Clients -> Conns] /\ proc' \in [Procs -> Processes]
          /\ conn'[c].closed = conn[c].closed /\ conn'[c].binary = conn[c].binary
          /\ conn'[c].process = 0 /\ conn'[c].connecting = 0
          /\ \A d \in Clients : d # c => conn'[d] = conn[d]
          /\ ClientsInUse' /\ ProcsOfClients'
      BY <1>0, <1>1, <1>5, ServerPutAside
    <2>5. PiTypeOK'
      BY <1>0, <2>3, <2>4, PiTypes DEF PiTyped
    <2>6. Stage(pi'[k]) /\ Linked(pi[k])' /\ Fitted(pi[k])'
      <3>1. c # 0 /\ pi[k].answer = "none"
        BY <1>1, PiAssumption DEF Clients, Waits
      <3> QED
        BY <1>0, <1>1, <2>1, <2>3, <2>4, <3>1 DEF Stage, Linked, Fitted, OnClient, PiSteps
    <2>7. /\ \A d \in Clients : conn[d].closed => conn'[d].closed
          /\ binaries.package => binaries'.package
          /\ launch'.fallback => launch.fallback \/ ~binaries.package
          /\ \A j \in PiCalls : j # k => pi'[j] = pi[j]
      BY <1>0, <2>3, <2>4
    <2> QED
      BY <1>1, <2>4, <2>5, <2>6, <2>7, StepOfOne
  <1> QED
    BY <1>0, <1>2, <1>3, <1>4, <1>5 DEF Ensure

(* A client that could not connect, or whose request failed, is given up if it was a *)
(* fallback.                                                                        *)
FallbackClosed(c) ==
    /\ client = c /\ client' = 0 /\ launch' = [NoLaunch EXCEPT !.failed = launch.failed]
    /\ Close(c)

LEMMA FallbackClosedKeeps ==
    ASSUME PiInv, NEW c \in Clients, FallbackClosed(c), session' = session
    PROVE  /\ client' \in 0..MaxClients /\ launch' \in Launches /\ ~launch'.fallback
           /\ conn' \in [Clients -> Conns] /\ proc' \in [Procs -> Processes]
           /\ conn'[c].closed
           /\ \A d \in Clients : conn[d].closed => conn'[d].closed
           /\ ClientsInUse' /\ ProcsOfClients'
  <1> DEFINE l == [NoLaunch EXCEPT !.failed = launch.failed]
  <1>0. PiTyped /\ 0 \in 0..MaxClients /\ client = c /\ client' = 0 /\ launch' = l /\ c # 0
        /\ session' \in 0..MaxEnds /\ Close(client)
    BY PiTypes, PiAssumption DEF PiInv, FallbackClosed, PiTyped, Clients
  <1>1. l \in Launches /\ ~l.fallback
    BY <1>0, NoThings DEF PiTyped, Launches, NoLaunch
  <1>2. /\ conn' \in [Clients -> Conns] /\ proc' \in [Procs -> Processes]
        /\ \A d \in Clients : conn[d].closed => conn'[d].closed
        /\ conn'[client].closed
        /\ ClientsInUse' /\ ProcsOfClients'
    BY <1>0, ClientClosed
  <1> QED
    BY <1>0, <1>1, <1>2

LEMMA ConnectedInv ==
    ASSUME PiInv, NEW k \in PiCalls, Connected(k)
    PROVE  PiInv'
  <1> DEFINE c == pi[k].client
  <1>0. PiTyped /\ pi[k] \in Records /\ Stage(pi[k]) /\ Linked(pi[k]) /\ Fitted(pi[k])
        /\ pi[k].at = "waiting" /\ UNCHANGED <<binaries, session, fetching>>
    BY PiTypes DEF PiInv, PiTyped, Connected
  <1>1. c \in Clients /\ Waits(pi[k]) /\ pi[k].sent = 0
    BY <1>0, PiAssumption DEF PiTyped, Records, Clients, Stage, OnClient, Waits, PiSteps
  <1>2. CASE conn[c].process # 0 /\ Send(k, conn[c].process) /\ UNCHANGED <<launch, client, conn, proc>>
    BY <1>0, <1>2, SendInv DEF Quiet
  <1>3. CASE Ends(k, "raw") /\ UNCHANGED <<launch, client, conn, proc>>
    <2>1. pi' \in [PiCalls -> Records]
      BY <1>0, <1>3, EndsKeeps
    <2>2. PiTypeOK' /\ ClientsInUse' /\ ProcsOfClients'
      BY <1>0, <1>3, <2>1, PiTypes DEF PiInv, PiTyped, ClientsInUse, ProcsOfClients
    <2> QED
      BY <1>0, <1>1, <1>3, <2>2, EndsUnsent
  <1>4. CASE Ends(k, "raw") /\ FallbackClosed(c)
    <2>1. pi' \in [PiCalls -> Records]
      BY <1>0, <1>4, EndsKeeps
    <2>2. /\ client' \in 0..MaxClients /\ launch' \in Launches /\ ~launch'.fallback
          /\ conn' \in [Clients -> Conns] /\ proc' \in [Procs -> Processes]
          /\ \A d \in Clients : conn[d].closed => conn'[d].closed
          /\ ClientsInUse' /\ ProcsOfClients'
      BY <1>0, <1>1, <1>4, FallbackClosedKeeps
    <2>3. PiTypeOK'
      BY <1>0, <2>1, <2>2, PiTypes DEF PiTyped
    <2> QED
      BY <1>0, <1>1, <1>4, <2>2, <2>3, EndsUnsent
  <1> QED
    BY <1>2, <1>3, <1>4 DEF Connected, FallbackClosed

LEMMA UnansweredInv ==
    ASSUME PiInv, NEW k \in PiCalls, Unanswered(k)
    PROVE  PiInv'
  <1> DEFINE c == pi[k].client
  <1>0. PiTyped /\ pi[k] \in Records /\ Stage(pi[k]) /\ Linked(pi[k]) /\ Fitted(pi[k])
        /\ pi[k].at = "request" /\ UNCHANGED <<binaries, session, fetching>>
    BY PiTypes DEF PiInv, PiTyped, Unanswered
  <1>1. /\ c \in Clients /\ Waits(pi[k]) /\ pi[k].sent = 1 /\ pi[k].answer = "none"
    BY <1>0, PiAssumption DEF PiTyped, Records, Clients, Stage, OnClient, Waits
  <1>2. PICK late \in BOOLEAN :
           /\ late \/ proc[pi[k].process].at # "live"
           /\ Ends(k, IF Told(c, late) THEN "told" ELSE "raw")
           /\ \/ FallbackClosed(c)
              \/ /\ UNCHANGED <<launch, client>>
                 /\ \/ /\ conn[c].process # 0 /\ proc[conn[c].process].at # "live"
                       /\ conn' = [conn EXCEPT ![c].process = 0] /\ UNCHANGED proc
                    \/ UNCHANGED <<conn, proc>>
    BY DEF Unanswered, FallbackClosed
  <1> DEFINE a == IF Told(c, late) THEN "told" ELSE "raw"
  <1>3. a \in {"ok", "error", "told", "raw"} /\ Ends(k, a) /\ (a = "raw" => conn[c].closed)
    BY <1>0, <1>2 DEF Told, Linked
  <1> HIDE DEF a
  <1>4. /\ pi' \in [PiCalls -> Records]
        /\ pi'[k].at = "done" /\ pi'[k].answer = a
        /\ pi'[k].sent = 1 /\ pi'[k].client = c
        /\ pi'[k].hadPackage = pi[k].hadPackage
        /\ \A j \in PiCalls : j # k => pi'[j] = pi[j]
    BY <1>0, <1>1, <1>3, EndsKeeps
  <1>5. /\ client' \in 0..MaxClients /\ launch' \in Launches
        /\ launch'.fallback => launch.fallback
        /\ conn' \in [Clients -> Conns] /\ proc' \in [Procs -> Processes]
        /\ \A d \in Clients : conn[d].closed => conn'[d].closed
        /\ ClientsInUse' /\ ProcsOfClients'
    <2>1. CASE FallbackClosed(c)
      BY <1>0, <1>1, <2>1, FallbackClosedKeeps
    <2>2. CASE /\ UNCHANGED <<launch, client>>
               /\ conn[c].process # 0 /\ proc[conn[c].process].at # "live"
               /\ conn' = [conn EXCEPT ![c].process = 0] /\ UNCHANGED proc
      <3>1. UNCHANGED <<client, session, proc>>
        BY <1>0, <2>2
      <3>2. /\ conn' \in [Clients -> Conns] /\ proc' \in [Procs -> Processes]
            /\ conn'[c].closed = conn[c].closed
            /\ \A d \in Clients : d # c => conn'[d] = conn[d]
            /\ ClientsInUse' /\ ProcsOfClients'
        BY <1>1, <2>2, <3>1, ServerPutAside
      <3> QED
        BY <1>0, <2>2, <3>2 DEF PiTyped
    <2>3. CASE UNCHANGED <<launch, client>> /\ UNCHANGED <<conn, proc>>
      BY <1>0, <2>3 DEF PiInv, PiTyped, ClientsInUse, ProcsOfClients
    <2> QED
      BY <1>2, <2>1, <2>2, <2>3
  <1>6. PiTypeOK'
    BY <1>0, <1>4, <1>5, PiTypes DEF PiTyped
  <1>7. Stage(pi'[k]) /\ Linked(pi[k])' /\ Fitted(pi[k])' /\ ~Waits(pi'[k])
    <2>1. a \in {"told", "raw"} /\ c # 0
      BY <1>1, PiAssumption DEF a, Clients
    <2> QED
      BY <1>0, <1>1, <1>3, <1>4, <1>5, <2>1 DEF Stage, Linked, Fitted, OnClient, PiSteps, Waits
  <1> QED
    BY <1>0, <1>1, <1>4, <1>5, <1>6, <1>7, StepOfOne

(* getClient goes on with what it found: the client there is, or a new one, or none. *)
LEMMA ObtainInv ==
    ASSUME PiInv, NEW k \in PiCalls, pi[k].at \in {"dropping", "installing"},
           NEW l \in Launches, l.fallback => launch.fallback \/ ~binaries.package,
           Obtain(k, l),
           UNCHANGED <<binaries, session, proc>>, fetching' \in BOOLEAN
    PROVE  PiInv'
  <1>0. PiTyped /\ pi[k] \in Records /\ Stage(pi[k]) /\ Linked(pi[k]) /\ Fitted(pi[k])
        /\ pi[k].sent = 0
    BY PiTypes DEF PiInv, PiTyped, Stage, PiSteps
  <1>1. launch' \in Launches /\ (launch'.fallback => launch.fallback \/ ~binaries.package)
    <2> DEFINE m == [launch EXCEPT !.fallback = l.fallback, !.failed = l.failed]
    <2>1. m \in Launches /\ m.fallback = l.fallback
      BY <1>0 DEF PiTyped, Launches
    <2>2. launch' = m \/ launch' = l
      BY DEF Obtain
    <2> HIDE DEF m
    <2> QED
      BY <2>1, <2>2
  <1>2. CASE Ends(k, "raw") /\ UNCHANGED <<client, conn>>
    <2>1. pi' \in [PiCalls -> Records]
      BY <1>0, <1>2, EndsKeeps
    <2>2. PiTypeOK' /\ ClientsInUse' /\ ProcsOfClients'
      BY <1>0, <1>1, <1>2, <2>1, PiTypes DEF PiInv, PiTyped, ClientsInUse, ProcsOfClients
    <2>3. \A c \in Clients : conn'[c] = conn[c]
      BY <1>2
    <2> QED
      BY <1>0, <1>1, <1>2, <2>2, <2>3, EndsUnsent
  <1>3. CASE ~(Ends(k, "raw") /\ UNCHANGED <<client, conn>>)
    <2>1. PICK c \in Clients :
             /\ \/ client # 0 /\ c = client /\ UNCHANGED <<client, conn>>
                \/ /\ client = 0 /\ conn[c].binary = "none" /\ client' = c /\ l.binary # "none"
                   /\ conn' = [conn EXCEPT ![c].binary = l.binary, ![c].session = pi[k].session]
                   /\ pi[k].session = session
             /\ IF pi[k].answer # "none" THEN Ends(k, "raw")
                ELSE SetPi(k, [pi[k] EXCEPT !.at = "ensure", !.client = c])
      BY <1>3 DEF Obtain, GoOn
    <2>2. /\ client' \in 0..MaxClients /\ conn' \in [Clients -> Conns]
          /\ \A d \in Clients : conn[d].binary # "none" => conn'[d] = conn[d]
          /\ \A d \in Clients : conn[d].closed => conn'[d].closed
          /\ conn'[c].binary # "none"
          /\ ClientsInUse' /\ ProcsOfClients'
      <3>1. CASE client # 0 /\ c = client /\ UNCHANGED <<client, conn>>
        BY <1>0, <3>1 DEF PiInv, PiTyped, ClientsInUse, ProcsOfClients
      <3>2. CASE /\ client = 0 /\ conn[c].binary = "none" /\ client' = c /\ l.binary # "none"
                 /\ conn' = [conn EXCEPT ![c].binary = l.binary, ![c].session = pi[k].session]
                 /\ pi[k].session = session
        <4> DEFINE r == [conn[c] EXCEPT !.binary = l.binary, !.session = session]
        <4>1. conn' = [conn EXCEPT ![c] = r]
          BY <3>2, <1>0 DEF PiTyped, Conns
        <4>2. /\ r \in Conns /\ r.binary = l.binary /\ r.session = session
              /\ r.process = conn[c].process /\ r.connecting = conn[c].connecting
              /\ r.closed = conn[c].closed
          BY ZenonT(60), <1>0 DEF PiTyped, Conns, Launches
        <4> HIDE DEF r
        <4>3. /\ conn' \in [Clients -> Conns] /\ conn'[c] = r
              /\ \A d \in Clients : d # c => conn'[d] = conn[d]
          BY <1>0, <4>1, <4>2 DEF PiTyped
        <4>4. c \in 0..MaxClients /\ c # 0
          BY PiAssumption DEF Clients
        <4>5. ClientsInUse'
          <5>1. client' = c /\ session' = session /\ client = 0
            BY <3>2
          <5>2. \A d \in Clients : d # 0
            BY PiAssumption DEF Clients
          <5> QED
            BY <3>2, <4>2, <4>3, <5>1, <5>2 DEF PiInv, ClientsInUse
        <4>6. ProcsOfClients'
          <5>1. \A q \in Procs : proc[q].of # 0 => proc[q].of \in Clients
            BY <1>0, PiAssumption DEF PiTyped, Processes, Clients
          <5>2. \A q \in Procs : proc'[q] = proc[q]
            OBVIOUS
          <5>3. \A q \in Procs : proc[q].at = "live" => proc[q].of # 0
            BY DEF PiInv, ProcsOfClients
          <5> QED
            BY <3>2, <4>3, <5>1, <5>2, <5>3 DEF PiInv, ProcsOfClients
        <4> QED
          BY <3>2, <4>2, <4>3, <4>4, <4>5, <4>6
      <3> QED
        BY <2>1, <3>1, <3>2
    <2>3. CASE pi[k].answer # "none" /\ Ends(k, "raw")
      <3>1. pi' \in [PiCalls -> Records]
        BY <1>0, <2>3, EndsKeeps
      <3>2. PiTypeOK'
        BY <1>0, <1>1, <2>2, <3>1, PiTypes DEF PiTyped
      <3> QED
        BY <1>0, <1>1, <2>2, <2>3, <3>2, EndsUnsent
    <2>4. CASE pi[k].answer = "none" /\ SetPi(k, [pi[k] EXCEPT !.at = "ensure", !.client = c])
      <3> DEFINE r == [pi[k] EXCEPT !.at = "ensure", !.client = c]
      <3>1. /\ r \in Records /\ r.at = "ensure" /\ r.client = c /\ r.sent = 0 /\ c # 0
            /\ r.answer = "none" /\ r.hadPackage = pi[k].hadPackage
        <4>1. c \in 0..MaxClients /\ c # 0
          BY PiAssumption DEF Clients
        <4> QED
          BY <1>0, <2>4, <4>1 DEF Records, PiSteps
      <3> HIDE DEF r
      <3>2. /\ pi' \in [PiCalls -> Records] /\ pi'[k] = r
            /\ \A j \in PiCalls : j # k => pi'[j] = pi[j]
        BY <1>0, <2>4, <3>1, SetPiKeeps DEF r
      <3>3. PiTypeOK'
        BY <1>0, <1>1, <2>2, <3>2, PiTypes DEF PiTyped
      <3>4. Stage(pi'[k]) /\ Linked(pi[k])' /\ Fitted(pi[k])'
        BY <1>0, <1>1, <2>2, <3>1, <3>2 DEF Stage, Linked, Fitted, OnClient, PiSteps
      <3>5. Waits(pi[k])
        BY <2>4 DEF Waits
      <3> QED
        BY <1>1, <2>2, <3>2, <3>3, <3>4, <3>5, StepOfOne
    <2> QED
      BY <2>1, <2>3, <2>4
  <1> QED
    BY <1>2, <1>3

LEMMA ResolvedFits ==
    ASSUME PiTyped
    PROVE  /\ Resolved(launch.failed) \in Launches
           /\ Resolved(launch.failed).fallback => ~binaries.package
  BY DEF PiTyped, Resolved, Local, Launches, Binaries

LEMMA InstalledInv ==
    ASSUME PiInv, NEW k \in PiCalls, Installed(k)
    PROVE  PiInv'
  <1>1. PiTyped /\ fetching' \in BOOLEAN /\ UNCHANGED <<binaries, session, proc>>
    BY PiTypes DEF PiInv, PiTyped, Installed
  <1> QED
    BY <1>1, ResolvedFits, ObtainInv DEF Installed

LEMMA DroppedInv ==
    ASSUME PiInv, NEW k \in PiCalls, Dropped(k)
    PROVE  PiInv'
  <1>0. PiTyped /\ pi[k] \in Records /\ Stage(pi[k]) /\ Linked(pi[k]) /\ Fitted(pi[k])
        /\ pi[k].at = "dropping" /\ Seek(k) /\ UNCHANGED <<binaries, session, proc>>
    BY PiTypes DEF PiInv, PiTyped, Dropped
  <1>1. pi[k].sent = 0
    BY <1>0 DEF Stage, PiSteps
  <1>2. CASE client # 0
    <2>1. /\ UNCHANGED <<launch, fetching, client, conn>>
          /\ \/ Ends(k, "raw")
             \/ pi[k].answer = "none" /\ SetPi(k, [pi[k] EXCEPT !.at = "ensure", !.client = client])
      BY <1>0, <1>2 DEF Seek
    <2>2. CASE Ends(k, "raw")
      <3>1. pi' \in [PiCalls -> Records]
        BY <1>0, <2>2, EndsKeeps
      <3>2. PiTypeOK' /\ ClientsInUse' /\ ProcsOfClients'
        BY <1>0, <2>1, <3>1, PiTypes DEF PiInv, PiTyped, ClientsInUse, ProcsOfClients
      <3>3. \A c \in Clients : conn'[c] = conn[c]
        BY <2>1
      <3> QED
        BY <1>0, <1>1, <2>1, <2>2, <3>2, <3>3, EndsUnsent
    <2>3. CASE pi[k].answer = "none" /\ SetPi(k, [pi[k] EXCEPT !.at = "ensure", !.client = client])
      <3> DEFINE r == [pi[k] EXCEPT !.at = "ensure", !.client = client]
      <3>1. /\ r \in Records /\ r.at = "ensure" /\ r.client = client /\ r.sent = 0
            /\ r.answer = "none" /\ r.hadPackage = pi[k].hadPackage
        BY <1>0, <1>1, <2>3 DEF Records, PiSteps, PiTyped
      <3> HIDE DEF r
      <3>2. /\ pi' \in [PiCalls -> Records] /\ pi'[k] = r
            /\ \A j \in PiCalls : j # k => pi'[j] = pi[j]
        BY <1>0, <2>3, <3>1, SetPiKeeps DEF r
      <3>3. Stage(pi'[k]) /\ Linked(pi[k])' /\ Fitted(pi[k])'
        BY <1>0, <1>2, <2>1, <3>1, <3>2
           DEF PiInv, ClientsInUse, Stage, Linked, Fitted, OnClient, PiSteps
      <3>4. Waits(pi[k]) /\ Quiet
        BY <1>0, <2>1, <2>3 DEF Waits, Quiet
      <3> QED
        BY <3>2, <3>3, <3>4, QuietStep
    <2> QED
      BY <2>1, <2>2, <2>3
  <1>3. CASE client = 0 /\ fetching' = TRUE /\ Await(k, "installing") /\ UNCHANGED <<launch, client, conn>>
    <2> DEFINE r == [pi[k] EXCEPT !.at = "installing"]
    <2>1. /\ r \in Records /\ r.at = "installing" /\ r.client = pi[k].client /\ r.sent = 0
          /\ r.answer = pi[k].answer /\ r.hadPackage = pi[k].hadPackage
      BY <1>0, <1>1 DEF Records, PiSteps
    <2>2. SetPi(k, r)
      BY <1>3 DEF Await
    <2> HIDE DEF r
    <2>3. /\ pi' \in [PiCalls -> Records] /\ pi'[k] = r
          /\ \A j \in PiCalls : j # k => pi'[j] = pi[j]
      BY <1>0, <2>1, <2>2, SetPiKeeps
    <2>4. PiTypeOK' /\ ClientsInUse' /\ ProcsOfClients'
      BY <1>0, <1>3, <2>3, PiTypes DEF PiInv, PiTyped, ClientsInUse, ProcsOfClients
    <2>5. Stage(pi'[k]) /\ Linked(pi[k])' /\ Fitted(pi[k])'
      BY <1>0, <1>3, <2>1, <2>3 DEF Stage, Linked, Fitted, OnClient, PiSteps
    <2>6. Waits(pi'[k]) => Waits(pi[k])
      BY <1>0, <2>1, <2>3 DEF Waits
    <2>7. \A c \in Clients : conn'[c] = conn[c]
      BY <1>3
    <2> QED
      BY <1>0, <1>3, <2>3, <2>4, <2>5, <2>6, <2>7, StepOfOne
  <1>4. CASE Obtain(k, IF launch.binary # "none" THEN launch ELSE Resolved(launch.failed)) /\ UNCHANGED fetching
    <2> DEFINE l == IF launch.binary # "none" THEN launch ELSE Resolved(launch.failed)
    <2>1. l \in Launches /\ (l.fallback => launch.fallback \/ ~binaries.package) /\ fetching' \in BOOLEAN
      BY <1>0, <1>4, ResolvedFits DEF PiTyped
    <2>2. Obtain(k, l)
      BY <1>4
    <2> HIDE DEF l
    <2> QED
      BY <1>0, <2>1, <2>2, ObtainInv
  <1> QED
    BY <1>0, <1>2, <1>3, <1>4 DEF Seek

(***************************************************************************)
(* Steps of the servers, of the session and of what is installed.          *)
(***************************************************************************)

(* No call changes: each keeps its client, which loses its server only with the session *)
(* or by closing, and gains one only while no call of it is under way.                  *)
LEMMA StepAround ==
    ASSUME PiInv, PiTypeOK', UNCHANGED pi, ClientsInUse', ProcsOfClients',
           \A c \in Clients : /\ conn[c].closed => conn'[c].closed
                             /\ conn'[c].binary = conn[c].binary
                             /\ \/ conn'[c].process = conn[c].process
                                \/ conn'[c].closed /\ conn'[c].process = 0
                                \/ conn[c].process = 0 /\ conn[c].connecting # 0 /\ ~conn[c].closed
                             /\ conn'[c].connecting \in {0, conn[c].connecting},
           binaries.package => binaries'.package,
           launch'.fallback => launch.fallback
    PROVE  PiInv'
  <1>0. PiTyped
    BY PiTypes DEF PiInv
  <1>1. ASSUME NEW j \in PiCalls PROVE Stage(pi[j])' /\ Linked(pi[j])' /\ Fitted(pi[j])'
    <2>1. Stage(pi[j]) /\ Linked(pi[j]) /\ Fitted(pi[j]) /\ pi'[j] = pi[j]
      BY DEF PiInv
    <2>2. pi[j].client # 0 => pi[j].client \in Clients
      BY <1>0, PiAssumption DEF PiTyped, Records, Clients
    <2>3. Stage(pi[j])' /\ Fitted(pi[j])'
      BY <2>1 DEF Stage, Fitted
    <2>4. CASE pi[j].client \in Clients
      <3> DEFINE c == pi[j].client
      <3>1. /\ conn[c].closed => conn'[c].closed
            /\ conn'[c].binary = conn[c].binary
            /\ \/ conn'[c].process = conn[c].process
               \/ conn'[c].closed /\ conn'[c].process = 0
               \/ conn[c].process = 0 /\ conn[c].connecting # 0 /\ ~conn[c].closed
            /\ conn'[c].connecting \in {0, conn[c].connecting}
        BY <2>4
      <3>2. pi'[j].client = c
        BY <2>1
      <3> HIDE DEF c
      <3>3. /\ pi[j].at \in OnClient => conn'[c].binary # "none"
            /\ pi[j].at = "reconnect" => conn'[c].process = 0 /\ conn'[c].connecting = 0
            /\ pi[j].at = "request" =>
                  pi[j].process # 0 /\ (conn'[c].process = pi[j].process \/ conn'[c].closed)
            /\ pi[j].answer = "raw" /\ pi[j].sent = 1 => conn'[c].closed
        BY <2>1, <3>1 DEF Linked, c
      <3> QED
        BY <2>1, <2>3, <3>2, <3>3 DEF Linked
    <2>5. CASE pi[j].client = 0
      BY <2>1, <2>3, <2>5 DEF Stage, Linked, OnClient
    <2> QED
      BY <2>2, <2>3, <2>4, <2>5
  <1>2. OneUnanswered'
    BY DEF PiInv, OneUnanswered, Waits
  <1> QED
    BY <1>1, <1>2 DEF PiInv

LEMMA InstallEndsInv ==
    ASSUME PiInv, InstallEnds
    PROVE  PiInv'
  <1>1. PICK ok \in BOOLEAN : /\ binaries' = [binaries EXCEPT !.package = @ \/ ok]
                              /\ launch' = [launch EXCEPT !.failed = ~ok]
    BY DEF InstallEnds
  <1>0. PiTyped /\ fetching' = FALSE /\ UNCHANGED <<session, client, conn, proc, pi>>
    BY PiTypes DEF PiInv, InstallEnds
  <1>2. /\ binaries' \in Binaries /\ launch' \in Launches
        /\ binaries.package => binaries'.package /\ launch'.fallback = launch.fallback
    BY <1>0, <1>1 DEF PiTyped, Binaries, Launches
  <1>3. launch'.fallback = launch.fallback
    BY <1>0, <1>1 DEF PiTyped, Launches
  <1>4. PiTypeOK' /\ ClientsInUse' /\ ProcsOfClients'
    BY <1>0, <1>2, PiTypes DEF PiInv, PiTyped, ClientsInUse, ProcsOfClients
  <1> QED
    BY <1>0, <1>2, <1>3, <1>4, StepAround

LEMMA PackageAppearsInv ==
    ASSUME PiInv, PackageAppears
    PROVE  PiInv'
  <1>0. PiTyped /\ binaries' = [binaries EXCEPT !.package = TRUE]
        /\ UNCHANGED <<session, launch, fetching, client, conn, proc, pi>>
    BY PiTypes DEF PiInv, PackageAppears
  <1>2. binaries' \in Binaries /\ binaries'.package
    BY <1>0 DEF PiTyped, Binaries
  <1>4. PiTypeOK' /\ ClientsInUse' /\ ProcsOfClients'
    BY <1>0, <1>2, PiTypes DEF PiInv, PiTyped, ClientsInUse, ProcsOfClients
  <1> QED
    BY <1>0, <1>2, <1>4, StepAround

LEMMA SessionOverInv ==
    ASSUME PiInv, SessionOver
    PROVE  PiInv'
  <1>0. PiTyped /\ Close(client) /\ client' = 0 /\ session' \in 0..MaxEnds
        /\ 0 \in 0..MaxClients /\ UNCHANGED <<binaries, launch, fetching, pi>>
    BY PiTypes, PiAssumption DEF PiInv, PiTyped, SessionOver
  <1>1. /\ conn' \in [Clients -> Conns] /\ proc' \in [Procs -> Processes]
        /\ \A c \in Clients : conn[c].closed => conn'[c].closed
        /\ \A c \in Clients : conn'[c].binary = conn[c].binary
        /\ client # 0 => client \in Clients /\ conn'[client].closed
        /\ ClientsInUse' /\ ProcsOfClients'
        /\ \A c \in Clients : c # client => conn'[c] = conn[c]
    BY <1>0, ClientClosed
  <1>2. PiTypeOK'
    BY <1>0, <1>1, PiTypes DEF PiTyped
  <1>3. ASSUME NEW c \in Clients
        PROVE  /\ \/ conn'[c].process = conn[c].process
                  \/ conn'[c].closed /\ conn'[c].process = 0
               /\ conn'[c].connecting \in {0, conn[c].connecting}
    <2>1. CASE c # client
      BY <1>1, <2>1
    <2>2. CASE c = client
      <3>1. client # 0 /\ conn'[c].closed /\ conn'[c].process = 0
        BY <1>1, <2>2, PiAssumption DEF Clients, ClientsInUse
      <3>2. conn'[c].connecting = 0
        BY <1>0, <2>2, <3>1 DEF Close, Reset, PiTyped, Conns
      <3> QED
        BY <3>1, <3>2
    <2> QED
      BY <2>1, <2>2
  <1> QED
    BY <1>0, <1>1, <1>2, <1>3, StepAround

LEMMA ProcessEndsInv ==
    ASSUME PiInv, NEW p \in Procs, ProcessEnds(p)
    PROVE  PiInv'
  <1>0. PiTyped /\ proc[p].at \in {"live", "closing"} /\ proc' = [proc EXCEPT ![p].at = "gone"]
        /\ UNCHANGED <<binaries, session, launch, fetching, client, conn, pi>>
    BY PiTypes DEF PiInv, ProcessEnds
  <1>1. /\ proc' \in [Procs -> Processes]
        /\ proc'[p].of = proc[p].of /\ proc'[p].verdict = proc[p].verdict /\ proc'[p].at = "gone"
        /\ \A q \in Procs : q # p => proc'[q] = proc[q]
    BY <1>0 DEF PiTyped, Processes
  <1>2. PiTypeOK' /\ ClientsInUse'
    BY <1>0, <1>1, PiTypes DEF PiInv, PiTyped, ClientsInUse
  <1>3. ProcsOfClients'
    BY <1>0, <1>1 DEF PiInv, ProcsOfClients
  <1> QED
    BY <1>0, <1>2, <1>3, StepAround

LEMMA ConnectEndsInv ==
    ASSUME PiInv, NEW p \in Procs, ConnectEnds(p)
    PROVE  PiInv'
  <1> DEFINE c == proc[p].of
  <1>0. PiTyped /\ c # 0 /\ proc[p].verdict = "pending"
        /\ UNCHANGED <<binaries, session, launch, fetching, client, pi>>
    BY PiTypes DEF PiInv, ConnectEnds
  <1>1. c \in Clients /\ p \in 0..MaxProcs /\ p # 0 /\ 0 \in 0..MaxProcs
        /\ proc[p] \in Processes /\ conn[c] \in Conns
    BY <1>0, PiAssumption DEF PiTyped, Processes, Clients, Procs
  <1>2. PICK ok \in BOOLEAN :
        /\ ok => proc[p].at = "live" /\ ~conn[c].closed
        /\ proc' = [proc EXCEPT ![p].verdict = IF ok THEN "ok" ELSE "failed",
                                ![p].at = IF ~ok /\ @ = "live" THEN "closing" ELSE @]
        /\ conn' = [conn EXCEPT ![c].process = IF ok THEN p ELSE @,
                                ![c].connecting = IF @ = p THEN 0 ELSE @]
    BY DEF ConnectEnds, MayStay
  <1> DEFINE r == [conn[c] EXCEPT !.process = IF ok THEN p ELSE @,
                                  !.connecting = IF @ = p THEN 0 ELSE @]
             s == [proc[p] EXCEPT !.verdict = IF ok THEN "ok" ELSE "failed",
                                  !.at = IF ~ok /\ @ = "live" THEN "closing" ELSE @]
  <1>3. /\ r \in Conns /\ r.binary = conn[c].binary /\ r.session = conn[c].session
        /\ r.closed = conn[c].closed /\ r.process = IF ok THEN p ELSE conn[c].process
        /\ r.connecting = IF conn[c].connecting = p THEN 0 ELSE conn[c].connecting
    BY <1>1 DEF Conns
  <1>4. /\ s \in Processes /\ s.of = c /\ s.verdict \in {"ok", "failed"}
        /\ s.at = IF ~ok /\ proc[p].at = "live" THEN "closing" ELSE proc[p].at
    BY <1>1 DEF Processes
  <1>5. conn' = [conn EXCEPT ![c] = r]
    BY <1>0, <1>1, <1>2 DEF PiTyped, Conns
  <1>6. proc' = [proc EXCEPT ![p] = s]
    BY <1>0, <1>1, <1>2 DEF PiTyped, Processes
  <1> HIDE DEF c, r, s
  <1>7. /\ conn' \in [Clients -> Conns] /\ conn'[c] = r
        /\ \A d \in Clients : d # c => conn'[d] = conn[d]
        /\ proc' \in [Procs -> Processes] /\ proc'[p] = s
        /\ \A q \in Procs : q # p => proc'[q] = proc[q]
    BY <1>0, <1>1, <1>3, <1>4, <1>5, <1>6 DEF PiTyped
  <1>8. /\ conn[c].connecting = p \/ conn[c].closed
        /\ conn[c].connecting = p => conn[c].process = 0
        /\ proc[p].at # "unused"
    BY <1>0, <1>1 DEF PiInv, ProcsOfClients, ClientsInUse, c
  <1>9. PiTypeOK'
    BY <1>0, <1>7, PiTypes DEF PiTyped
  <1>10. ClientsInUse'
    <2>1. client # 0 => client \in Clients
      BY <1>0, PiAssumption DEF PiTyped, Clients
    <2> QED
      BY <1>0, <1>1, <1>2, <1>3, <1>7, <1>8, <2>1 DEF PiInv, ClientsInUse
  <1>11. ProcsOfClients'
    <2>1. \A q \in Procs : /\ proc[q].of # 0 => proc[q].of \in Clients
                           /\ proc[q].at = "live" => proc[q].of # 0
      BY <1>0, PiAssumption DEF PiInv, ProcsOfClients, PiTyped, Processes, Clients
    <2>2. ASSUME NEW q \in Procs, q # p
          PROVE  /\ proc[q].of # 0 /\ proc[q].verdict = "pending" =>
                        conn'[proc[q].of].connecting = q \/ conn'[proc[q].of].closed
                 /\ proc[q].at = "live" => conn'[proc[q].of].process = q \/ proc[q].verdict = "pending"
                 /\ proc[q].of # 0 => conn'[proc[q].of].binary # "none"
      <3>1. /\ proc[q].of # 0 /\ proc[q].verdict = "pending" =>
                      conn[proc[q].of].connecting = q \/ conn[proc[q].of].closed
            /\ proc[q].at = "live" => conn[proc[q].of].process = q \/ proc[q].verdict = "pending"
            /\ proc[q].of # 0 => conn[proc[q].of].binary # "none"
        BY DEF PiInv, ProcsOfClients
      <3>2. q # 0 /\ q # p
        BY <2>2 DEF Procs
      <3>3. CASE proc[q].of = c
        BY <1>2, <1>3, <1>7, <1>8, <3>1, <3>2, <3>3
      <3>4. CASE proc[q].of # c
        BY <1>7, <2>1, <3>1, <3>4
      <3> QED
        BY <3>3, <3>4
    <2>3. /\ proc'[p].of = c /\ proc'[p].verdict # "pending" /\ proc'[p].at # "unused"
          /\ conn'[c].binary # "none" /\ (proc'[p].at = "live" => conn'[c].process = p)
      <3>1. conn[c].binary # "none"
        BY <1>0, <1>1 DEF PiInv, ProcsOfClients, c
      <3>2. ok => r.process = p
        BY <1>3
      <3>3. s.at = "live" => ok
        BY <1>4
      <3>4. s.at # "unused" /\ s.verdict # "pending"
        BY <1>4, <1>8
      <3> QED
        BY <1>3, <1>4, <1>7, <3>1, <3>2, <3>3, <3>4
    <2>4. c # 0
      BY <1>0
    <2> QED
      BY <1>7, <2>2, <2>3, <2>4 DEF PiInv, ProcsOfClients
  <1>12. ASSUME NEW d \in Clients
         PROVE  /\ conn[d].closed => conn'[d].closed
                /\ conn'[d].binary = conn[d].binary
                /\ \/ conn'[d].process = conn[d].process
                   \/ conn[d].process = 0 /\ conn[d].connecting # 0 /\ ~conn[d].closed
                /\ conn'[d].connecting \in {0, conn[d].connecting}
    BY <1>1, <1>2, <1>3, <1>7, <1>8
  <1> QED
    BY <1>0, <1>9, <1>10, <1>11, <1>12, StepAround

LEMMA PiNextInv ==
    ASSUME PiInv, [PiNext]_piVars
    PROVE  PiInv'
  <1>1. CASE UNCHANGED piVars
    <2>1. PiTypeOK'
      BY <1>1, PiTypes DEF PiInv, piVars, PiTyped
    <2>2. ClientsInUse' /\ ProcsOfClients'
      BY <1>1 DEF PiInv, piVars, ClientsInUse, ProcsOfClients
    <2> QED
      BY <1>1, <2>1, <2>2, StepAround DEF piVars
  <1>2. ASSUME NEW k \in PiCalls, CallStep(k) \/ AbortPi(k)
        PROVE  PiInv'
    BY <1>2, StartsByDroppingInv, StartsPiInv, DroppedInv, InstalledInv, EnsureInv, ReconnectInv,
       ConnectedInv, AnsweredInv, UnansweredInv, AbortPiInv
       DEF CallStep
  <1>3. ASSUME NEW p \in Procs, ConnectEnds(p) \/ ProcessEnds(p)
        PROVE  PiInv'
    BY <1>3, ConnectEndsInv, ProcessEndsInv
  <1>4. CASE InstallEnds \/ SessionOver \/ PackageAppears
    BY <1>4, InstallEndsInv, SessionOverInv, PackageAppearsInv
  <1> QED
    BY <1>1, <1>2, <1>3, <1>4 DEF PiNext

(* In every behaviour of the Pi extension a call says whether its request may have been *)
(* done, a fallback is left once the package's binary is there, and no server is         *)
(* forgotten.                                                                            *)
THEOREM CallsStayTold == PiSpec => [](CallsAreTold /\ NoServerIsForgotten)
  <1>1. PiSpec => []PiInv
    BY PiInitInv, PiNextInv, PTL DEF PiSpec
  <1> QED
    BY <1>1, PiInvMeans, PTL

(***************************************************************************)
(* SessionEnvironment, for processes of a nested session that are below    *)
(* those of the desktop that hosts it.                                     *)
(*                                                                         *)
(* That the host's WAYLAND_DISPLAY was not grafted so far is not enough,   *)
(* since the type or the display of the nested session may still be found  *)
(* after it.  Once the server has the host's display there is nothing of   *)
(* the nested session left to find (NoneLeft), because a call reads the    *)
(* processes from the nearest upwards and so comes to every variable of    *)
(* the nested session before it comes to the host's (NestedFirst).         *)
(***************************************************************************)
Identity == {"type", "display"}

\* Where the host's WAYLAND_DISPLAY was taken, nothing of the nested session comes later.
NoneLeft(processes) ==
    env["wayland"] = "wayland" =>
        \A k \in Identity : env[k] = Absent =>
            \A i \in DOMAIN processes : processes[i][k] # "x11"

\* Before a call comes to the host's WAYLAND_DISPLAY it comes to the nested session's variables.
NestedFirst ==
    \A j \in DOMAIN sources : sources[j]["wayland"] = "wayland" =>
        \A k \in Identity, i \in DOMAIN ancestry : ancestry[i][k] = "x11" =>
            env[k] # Absent \/ \E m \in DOMAIN sources : sources[m][k] = "x11"

EnvInv ==
    /\ EnvTypeOK /\ manager \in {Unset, Host} /\ NeverGrafted
    /\ HostAbove(ancestry) /\ HostAbove(sources)
    /\ NoneLeft(ancestry) /\ NoneLeft(sources) /\ NestedFirst
    /\ ~hydrating => sources = <<>>

LEMMA FilledIs ==
    ASSUME NEW e \in Environment, NEW source \in Environment
    PROVE  /\ Filled(e, source) \in Environment
           /\ \A k \in Keys : e[k] # Absent => Filled(e, source)[k] = e[k]
           /\ \A k \in Keys \ {"wayland"} :
                e[k] = Absent => Filled(e, source)[k] = source[k]
           /\ e["wayland"] = Absent => Filled(e, source)["wayland"] =
                IF NativeX11(e) THEN Absent ELSE source["wayland"]
BY DEF Filled, Environment, Keys

LEMMA NestedFilled ==
    ASSUME NEW e \in Environment, NEW source \in Environment,
           e["type"] = "x11" /\ e["display"] = "x11" => e["wayland"] # "wayland",
           e["wayland"] = "wayland" =>
               \A k \in Identity : e[k] = Absent => source[k] # "x11",
           source["wayland"] = "wayland" => source["type"] # "x11" /\ source["display"] # "x11"
    PROVE  LET f == Filled(e, source) IN
           f["type"] = "x11" /\ f["display"] = "x11" => f["wayland"] # "wayland"
<1> DEFINE f == Filled(e, source)
<1> SUFFICES ASSUME f["type"] = "x11", f["display"] = "x11", f["wayland"] = "wayland" PROVE FALSE
  OBVIOUS
<1>1. /\ e["type"] # "x11" => e["type"] = Absent /\ source["type"] = "x11"
      /\ e["display"] # "x11" => e["display"] = Absent /\ source["display"] = "x11"
      /\ e["wayland"] # "wayland" =>
            e["wayland"] = Absent /\ source["wayland"] = "wayland" /\ ~NativeX11(e)
  BY FilledIs, EnvironmentAssumption DEF Keys, Desktops
<1>2. CASE e["wayland"] = "wayland" BY <1>1, <1>2 DEF Identity
<1>3. CASE e["wayland"] # "wayland" BY <1>1, <1>3, EnvironmentAssumption DEF NativeX11, Desktops
<1> QED BY <1>2, <1>3

LEMMA HostAboveTail ==
    ASSUME NEW s \in Seq(Environment), s # <<>>, HostAbove(s)
    PROVE  Tail(s) \in Seq(Environment) /\ HostAbove(Tail(s))
<1>1. /\ Tail(s) \in Seq(Environment) /\ Len(s) \in Nat /\ Len(Tail(s)) = Len(s) - 1
      /\ \A i \in 1..Len(Tail(s)) : Tail(s)[i] = s[i + 1]
  OBVIOUS
<1>2. \A i, j \in 1..Len(s) : (i <= j /\ s[i]["wayland"] = "wayland")
        => s[j]["type"] # "x11" /\ s[j]["display"] # "x11"
  BY DEF HostAbove
<1>3. \A i, j \in 1..Len(Tail(s)) :
        i <= j => i + 1 \in 1..Len(s) /\ j + 1 \in 1..Len(s) /\ i + 1 <= j + 1
  BY <1>1
<1> QED BY <1>1, <1>2, <1>3 DEF HostAbove

LEMMA EnvInitInv == EnvInit => EnvInv
<1> SUFFICES ASSUME EnvInit PROVE EnvInv OBVIOUS
<1>1. Unset \in Environment /\ Host \in Environment
  BY DEF Unset, Host, Environment, Desktops
<1>2. ancestry \in Seq(Environment) /\ HostAbove(ancestry)
  BY EnvironmentAssumption DEF EnvInit
<1>3. EnvTypeOK
  <2>1. /\ env \in Environment /\ manager \in Environment /\ hydrated = {}
        /\ answers \in BOOLEAN /\ runtime \in BOOLEAN /\ hydrating \in BOOLEAN
    BY <1>1 DEF EnvInit
  <2>2. /\ sources \in Seq(Environment)
        /\ hydrations \in 0..MaxHydrations /\ imports \in 0..MaxImports
    BY EnvironmentAssumption DEF EnvInit
  <2> QED BY <1>2, <2>1, <2>2 DEF EnvTypeOK
<1>4. env["wayland"] = Absent /\ Absent # "wayland"
  BY EnvironmentAssumption DEF EnvInit, Unset, Keys, Desktops
<1>5. sources = <<>> BY DEF EnvInit
<1> QED
  BY <1>2, <1>3, <1>4, <1>5 DEF EnvInit, EnvInv, NeverGrafted, HostAbove, NoneLeft, NestedFirst

LEMMA BeginHydrationKeeps == ASSUME EnvInv, BeginHydration PROVE EnvInv'
<1> USE DEF EnvInv
<1>1. CASE UNCHANGED <<hydrating, sources>>
  BY <1>1, EnvironmentAssumption
     DEF BeginHydration, EnvTypeOK, aroundVars, NeverGrafted, HostAbove, NoneLeft, NestedFirst
<1>2. ASSUME hydrating' = TRUE, NEW n \in 0..Len(ancestry), sources' = SubSeq(ancestry, 1, n)
      PROVE  EnvInv'
  <2>1. /\ UNCHANGED <<env, hydrated, ancestry, manager, answers, runtime, imports>>
        /\ hydrations < MaxHydrations /\ hydrations' = hydrations + 1
    BY DEF BeginHydration, aroundVars
  <2>2. /\ ancestry \in Seq(Environment) /\ Len(ancestry) \in Nat
        /\ sources' \in Seq(Environment) /\ DOMAIN sources' = 1..n /\ n \in Nat
        /\ DOMAIN ancestry = 1..Len(ancestry)
        /\ \A i \in 1..n : sources'[i] = ancestry[i] /\ i \in 1..Len(ancestry)
    BY <1>2 DEF EnvTypeOK
  <2>3. EnvTypeOK' BY <1>2, <2>1, <2>2, EnvironmentAssumption DEF EnvTypeOK
  <2>4. HostAbove(ancestry)' /\ NoneLeft(ancestry)' /\ NeverGrafted'
    BY <2>1 DEF HostAbove, NoneLeft, NeverGrafted
  <2>5. HostAbove(sources)' BY <2>2 DEF HostAbove
  <2>6. NoneLeft(sources)' BY <2>1, <2>2 DEF NoneLeft
  <2>7. NestedFirst'
    <3> SUFFICES ASSUME NEW j \in 1..n, ancestry[j]["wayland"] = "wayland",
                        NEW k \in Identity, NEW i \in 1..Len(ancestry), ancestry[i][k] = "x11"
                 PROVE  \E m \in DOMAIN sources' : sources'[m][k] = "x11"
      BY <2>1, <2>2 DEF NestedFirst
    <3>1. ~(j <= i) BY <2>2 DEF HostAbove, Identity
    <3>2. i \in 1..n BY <2>2, <3>1
    <3> QED BY <2>2, <3>2
  <2> QED BY <1>2, <2>1, <2>3, <2>4, <2>5, <2>6, <2>7
<1> QED BY <1>1, <1>2 DEF BeginHydration

LEMMA FillFromProcessKeeps == ASSUME EnvInv, FillFromProcess PROVE EnvInv'
<1> USE DEF EnvInv
<1>1. PICK e : e = Head(sources) OBVIOUS
<1>2. /\ UNCHANGED <<hydrated, hydrating, hydrations, ancestry, manager, answers, runtime, imports>>
      /\ env' = Filled(env, e) /\ sources' = Tail(sources) /\ sources # <<>> /\ hydrating
  BY <1>1 DEF FillFromProcess, aroundVars
<1>3. /\ sources \in Seq(Environment) /\ env \in Environment /\ DOMAIN sources = 1..Len(sources)
      /\ Len(sources) \in Nat /\ 1 \in 1..Len(sources) /\ e = sources[1] /\ e \in Environment
      /\ DOMAIN sources' = 1..(Len(sources) - 1)
      /\ \A i \in 1..(Len(sources) - 1) :
            sources'[i] = sources[i + 1] /\ i + 1 \in 1..Len(sources) /\ 1 <= i + 1
  BY <1>1, <1>2 DEF EnvTypeOK
<1>4. /\ env' \in Environment
      /\ \A k \in Identity : env'[k] = Absent => env[k] = Absent /\ e[k] = Absent
      /\ env'["wayland"] = "wayland" => env["wayland"] = "wayland" \/ e["wayland"] = "wayland"
  BY <1>2, <1>3, FilledIs, EnvironmentAssumption DEF Identity, Keys, Desktops
<1>5. EnvTypeOK' /\ HostAbove(sources)' /\ HostAbove(ancestry)'
  <2>1. Tail(sources) \in Seq(Environment) /\ HostAbove(Tail(sources))
    BY <1>2, <1>3, HostAboveTail
  <2> QED BY <1>2, <1>4, <2>1 DEF EnvTypeOK, HostAbove
<1>6. NeverGrafted'
  <2>1. /\ env["type"] = "x11" /\ env["display"] = "x11" => env["wayland"] # "wayland"
        /\ env["wayland"] = "wayland" => \A k \in Identity : env[k] = Absent => e[k] # "x11"
        /\ e["wayland"] = "wayland" => e["type"] # "x11" /\ e["display"] # "x11"
    BY <1>3 DEF NeverGrafted, NoneLeft, HostAbove
  <2> QED BY <1>2, <1>3, <2>1, NestedFilled DEF NeverGrafted
<1>7. ASSUME env'["wayland"] = "wayland", NEW k \in Identity, env'[k] = Absent
      PROVE  /\ \A i \in DOMAIN ancestry : ancestry[i][k] # "x11"
             /\ \A i \in DOMAIN sources : sources[i][k] # "x11"
  <2>1. env[k] = Absent BY <1>4, <1>7
  <2>2. CASE env["wayland"] = "wayland" BY <2>1, <2>2 DEF NoneLeft
  <2>3. CASE e["wayland"] = "wayland"
    <3>1. \A i \in DOMAIN sources : sources[i][k] # "x11"
      BY <1>3, <2>3 DEF HostAbove, Identity
    <3> QED BY <1>3, <2>1, <2>3, <3>1 DEF NestedFirst
  <2> QED BY <1>4, <1>7, <2>2, <2>3
<1>8. NoneLeft(ancestry)' BY <1>2, <1>7 DEF NoneLeft
<1>9. NoneLeft(sources)'
  <2> SUFFICES ASSUME env'["wayland"] = "wayland", NEW k \in Identity, env'[k] = Absent,
                      NEW i \in DOMAIN sources'
               PROVE  sources'[i][k] # "x11"
    BY DEF NoneLeft
  <2>1. sources'[i] = sources[i + 1] /\ i + 1 \in DOMAIN sources BY <1>3
  <2> QED BY <1>7, <2>1
<1>10. NestedFirst'
  <2> SUFFICES ASSUME NEW j \in DOMAIN sources', sources'[j]["wayland"] = "wayland",
                      NEW k \in Identity, NEW i \in DOMAIN ancestry, ancestry[i][k] = "x11"
               PROVE  env'[k] # Absent \/ \E m \in DOMAIN sources' : sources'[m][k] = "x11"
    BY <1>2 DEF NestedFirst
  <2>1. j + 1 \in DOMAIN sources /\ sources[j + 1]["wayland"] = "wayland" BY <1>3
  <2>2. CASE env[k] # Absent BY <1>4, <2>2
  <2>3. ASSUME NEW m \in DOMAIN sources, sources[m][k] = "x11"
        PROVE  env'[k] # Absent \/ \E l \in DOMAIN sources' : sources'[l][k] = "x11"
    <3>1. CASE m = 1 BY <1>3, <1>4, <2>3, <3>1, EnvironmentAssumption DEF Desktops
    <3>2. CASE m # 1
      <4>1. m - 1 \in DOMAIN sources' /\ (m - 1) + 1 = m BY <1>3, <3>2
      <4> QED BY <1>3, <2>3, <4>1
    <3> QED BY <3>1, <3>2
  <2> QED BY <2>1, <2>2, <2>3 DEF NestedFirst
<1> QED BY <1>2, <1>5, <1>6, <1>8, <1>9, <1>10

LEMMA FillFromManagerKeeps == ASSUME EnvInv, FillFromManager PROVE EnvInv'
<1> USE DEF EnvInv
<1>1. /\ UNCHANGED <<sources, hydrations, ancestry, manager, answers, runtime, imports>>
      /\ env' = FromRuntime(FromManager(env)) /\ sources = <<>> /\ ~hydrating'
      /\ hydrating' \in BOOLEAN
      /\ hydrated' = IF answers /\ Complete(env') THEN {env'} ELSE hydrated
  BY DEF FillFromManager, aroundVars
<1>2. PICK f : f = FromManager(env) OBVIOUS
<1>3. env \in Environment /\ manager \in Environment BY DEF EnvTypeOK
<1>4. f \in Environment BY <1>2, <1>3, FilledIs DEF FromManager
<1>5. env' \in Environment /\ \A k \in Keys \ {"bus"} : env'[k] = f[k]
  BY <1>1, <1>2, <1>4 DEF FromRuntime, Environment, Keys, Desktops
<1>6. EnvTypeOK' BY <1>1, <1>5 DEF EnvTypeOK
<1>7. /\ manager["type"] # "x11" /\ manager["display"] # "x11"
      /\ manager["wayland"] = "wayland" => manager = Host
  BY EnvironmentAssumption DEF Unset, Host, Keys, Desktops
<1>8. f["type"] = "x11" /\ f["display"] = "x11" => f["wayland"] # "wayland"
  <2>1. CASE answers
    <3>1. /\ env["type"] = "x11" /\ env["display"] = "x11" => env["wayland"] # "wayland"
          /\ env["wayland"] = "wayland" =>
                \A k \in Identity : env[k] = Absent => manager[k] # "x11"
      BY <1>7 DEF NeverGrafted, Identity
    <3> QED BY <1>2, <1>3, <1>7, <2>1, <3>1, NestedFilled DEF FromManager
  <2>2. CASE ~answers BY <1>2, <2>2 DEF FromManager, NeverGrafted
  <2> QED BY <2>1, <2>2
<1>9. NeverGrafted' BY <1>5, <1>8 DEF NeverGrafted, Keys
<1>10. f["wayland"] = "wayland" =>
         \/ env["wayland"] = "wayland"
         \/ \A k \in Identity : f[k] # Absent
  <2>1. CASE answers
    <3>1. f["wayland"] = "wayland" /\ env["wayland"] # "wayland" => manager = Host
      BY <1>2, <1>3, <1>7, <2>1, FilledIs, EnvironmentAssumption DEF FromManager, Keys, Desktops
    <3>2. manager = Host => \A k \in Identity : f[k] # Absent
      BY <1>2, <1>3, <2>1, FilledIs, EnvironmentAssumption
         DEF FromManager, Host, Keys, Desktops, Identity
    <3> QED BY <3>1, <3>2
  <2>2. CASE ~answers BY <1>2, <2>2 DEF FromManager
  <2> QED BY <2>1, <2>2
<1>11. \A k \in Identity : f[k] = Absent => env[k] = Absent
  BY <1>2, <1>3, FilledIs DEF FromManager, Identity, Keys
<1>12. NoneLeft(ancestry)'
  BY <1>1, <1>5, <1>10, <1>11 DEF NoneLeft, Identity, Keys
<1>13. HostAbove(ancestry)' /\ HostAbove(sources)' /\ NoneLeft(sources)' /\ NestedFirst'
  BY <1>1 DEF HostAbove, NoneLeft, NestedFirst
<1> QED BY <1>1, <1>6, <1>9, <1>12, <1>13

LEMMA ManagerLearnsKeeps == ASSUME EnvInv, ManagerLearns PROVE EnvInv'
<1> USE DEF EnvInv
<1>1. UNCHANGED <<env, hydrated, hydrating, sources, ancestry, hydrations>> BY DEF ManagerLearns
<1>2. Host \in Environment BY DEF Host, Environment, Desktops
<1>3. EnvTypeOK'
  <2>1. manager' \in Environment BY <1>2 DEF ManagerLearns, EnvTypeOK
  <2>2. answers' \in BOOLEAN /\ runtime' \in BOOLEAN
    BY Zenon DEF ManagerLearns, EnvTypeOK
  <2>3. imports' \in 0..MaxImports BY EnvironmentAssumption DEF ManagerLearns, EnvTypeOK
  <2> QED BY <1>1, <2>1, <2>2, <2>3 DEF EnvTypeOK
<1>4. manager' \in {Unset, Host} BY DEF ManagerLearns
<1> QED BY <1>1, <1>3, <1>4 DEF NeverGrafted, HostAbove, NoneLeft, NestedFirst

LEMMA AncestorEndsKeeps == ASSUME EnvInv, AncestorEnds PROVE EnvInv'
<1> USE DEF EnvInv
<1>1. /\ UNCHANGED <<env, hydrated, hydrating, sources, manager, answers, runtime, hydrations>>
      /\ ancestry # <<>> /\ ancestry' = Tail(ancestry)
      /\ imports < MaxImports /\ imports' = imports + 1
  BY DEF AncestorEnds
<1>2. ancestry \in Seq(Environment) BY DEF EnvTypeOK
<1>3. ancestry' \in Seq(Environment) /\ HostAbove(ancestry')
  BY <1>1, <1>2, HostAboveTail
<1>4. \A i \in DOMAIN ancestry' : i + 1 \in DOMAIN ancestry /\ ancestry'[i] = ancestry[i + 1]
  BY <1>1, <1>2
<1>5. EnvTypeOK' BY <1>1, <1>3, EnvironmentAssumption DEF EnvTypeOK
<1>6. NoneLeft(ancestry)' BY <1>1, <1>4 DEF NoneLeft
<1>7. NestedFirst' BY <1>1, <1>4 DEF NestedFirst
<1>8. NeverGrafted' /\ HostAbove(sources)' /\ NoneLeft(sources)'
  BY <1>1 DEF NeverGrafted, HostAbove, NoneLeft
<1> QED BY <1>1, <1>3, <1>5, <1>6, <1>7, <1>8

LEMMA EnvStep == EnvInv /\ [EnvNext]_envVars => EnvInv'
<1> SUFFICES ASSUME EnvInv, [EnvNext]_envVars PROVE EnvInv' OBVIOUS
<1>1. CASE UNCHANGED envVars
  BY <1>1 DEF envVars, aroundVars, EnvInv, EnvTypeOK, NeverGrafted, HostAbove, NoneLeft, NestedFirst
<1> QED
  BY <1>1, BeginHydrationKeeps, FillFromProcessKeeps, FillFromManagerKeeps, ManagerLearnsKeeps,
     AncestorEndsKeeps DEF EnvNext

\* NeverGrafted: whatever the processes above the server and the user manager know, and
\* whenever they come to know it, a server of a nested X11 session never takes the
\* WAYLAND_DISPLAY of the desktop that hosts it.
THEOREM NothingGrafted == EnvSpec => []NeverGrafted
<1>1. EnvInv => NeverGrafted BY DEF EnvInv
<1> QED BY <1>1, EnvInitInv, EnvStep, PTL DEF EnvSpec

(***************************************************************************)
(* DoctorReport, for every machine.                                        *)
(*                                                                         *)
(* Both lists are built by pushing what is there in a fixed order.  What   *)
(* is pushed gets a rank, and each push keeps the list Sorted by it, so    *)
(* that the whole list is known, its order and all it holds, and can be    *)
(* compared with what the calls try.                                       *)
(***************************************************************************)
\* A list of the elements of W whose rank is below n, in the order of their ranks.
Sorted(s, S, r, W, n) ==
    /\ s \in Seq(S)
    /\ \A i \in 1..Len(s) : s[i] \in W /\ r[s[i]] < n
    /\ \A b \in W : r[b] < n => \E i \in 1..Len(s) : s[i] = b
    /\ \A i, j \in 1..Len(s) : i < j => r[s[i]] < r[s[j]]

\* What is pushed is the element of W with rank n, if there is one.
Pushes(x, S, r, W, n) ==
    \/ \E b \in S : x = <<b>> /\ b \in W /\ r[b] = n /\ \A c \in S : r[c] = n => c = b
    \/ x = <<>> /\ \A c \in W : r[c] # n

LEMMA Unpushed ==
    ASSUME NEW S, NEW r \in [S -> Nat], NEW W \in SUBSET S, \A b \in S : r[b] >= 1
    PROVE  Sorted(<<>>, S, r, W, 1)
<1>1. <<>> \in Seq(S) /\ Len(<<>>) = 0 OBVIOUS
<1>2. \A b \in W : r[b] \in Nat /\ r[b] >= 1 OBVIOUS
<1> QED BY <1>1, <1>2 DEF Sorted

LEMMA Pushed ==
    ASSUME NEW S, NEW r \in [S -> Nat], NEW W \in SUBSET S, NEW n \in Nat,
           NEW s, Sorted(s, S, r, W, n), NEW x, Pushes(x, S, r, W, n)
    PROVE  Sorted(s \o x, S, r, W, n + 1)
<1>0. s \in Seq(S) /\ Len(s) \in Nat BY DEF Sorted
<1>1. CASE x = <<>> /\ \A c \in W : r[c] # n
  <2>1. s \o x = s BY <1>0, <1>1
  <2>2. \A c \in W : r[c] \in Nat /\ (r[c] < n + 1 => r[c] < n) BY <1>1
  <2>3. \A i \in 1..Len(s) : s[i] \in S /\ (r[s[i]] < n => r[s[i]] < n + 1) BY <1>0
  <2> QED BY <2>1, <2>2, <2>3 DEF Sorted
<1>2. ASSUME NEW b \in S, x = <<b>>, b \in W, r[b] = n, \A c \in S : r[c] = n => c = b
      PROVE  Sorted(s \o x, S, r, W, n + 1)
  <2>1. PICK t : t = s \o <<b>> OBVIOUS
  <2>2. /\ t \in Seq(S) /\ Len(t) = Len(s) + 1
        /\ \A i \in 1..Len(s) : t[i] = s[i]
        /\ t[Len(s) + 1] = b
    BY <1>0, <2>1
  <2>3. \A i \in 1..Len(t) : i \in 1..Len(s) \/ i = Len(s) + 1 BY <1>0, <2>2
  <2>4. \A i \in 1..Len(s) : s[i] \in W /\ s[i] \in S /\ r[s[i]] < n BY <1>0 DEF Sorted
  <2>5. \A i \in 1..Len(t) : t[i] \in W /\ r[t[i]] < n + 1
    BY <1>2, <2>2, <2>3, <2>4
  <2>6. \A c \in W : r[c] < n + 1 => \E i \in 1..Len(t) : t[i] = c
    <3> SUFFICES ASSUME NEW c \in W, r[c] < n + 1 PROVE \E i \in 1..Len(t) : t[i] = c OBVIOUS
    <3>1. CASE r[c] < n
      <4>1. PICK i \in 1..Len(s) : s[i] = c BY <3>1 DEF Sorted
      <4> QED BY <1>0, <2>2, <4>1
    <3>2. CASE ~(r[c] < n)
      <4>1. c \in S /\ r[c] \in Nat OBVIOUS
      <4>2. c = b BY <1>2, <3>2, <4>1
      <4> QED BY <1>0, <2>2, <4>2
    <3> QED BY <3>1, <3>2
  <2>7. \A i, j \in 1..Len(t) : i < j => r[t[i]] < r[t[j]]
    <3> SUFFICES ASSUME NEW i \in 1..Len(t), NEW j \in 1..Len(t), i < j
                 PROVE  r[t[i]] < r[t[j]]
      OBVIOUS
    <3>1. i \in 1..Len(s) BY <1>0, <2>2
    <3>2. CASE j \in 1..Len(s) BY <2>2, <3>1, <3>2 DEF Sorted
    <3>3. CASE j = Len(s) + 1 BY <1>2, <2>2, <2>4, <3>1, <3>3
    <3> QED BY <2>3, <3>2, <3>3
  <2> QED BY <1>2, <2>1, <2>2, <2>5, <2>6, <2>7 DEF Sorted
<1> QED BY <1>1, <1>2 DEF Pushes

(* The window list. *)

Early(m) == "gnome_introspect" \in m.windows /\ "x11" \in m.windows /\ m.exact

WindowRank(m) == [b \in Backends |->
    IF b = "gnome_shell_extension" THEN 1
    ELSE IF b = "x11" THEN IF Early(m) THEN 2 ELSE 11
    ELSE IF b = "gnome_introspect" THEN 3
    ELSE IF b = "cosmic" THEN 4
    ELSE IF b = "kwin" THEN 5
    ELSE IF b = "hyprland" THEN 6
    ELSE IF b = "niri" THEN 7
    ELSE IF b = "i3" THEN 8
    ELSE IF b = "labwc" THEN 9 ELSE 10]

LEMMA BackendsAre ==
    /\ DOMAIN Windowing = 1..10
    /\ Windowing[1] = "gnome_shell_extension" /\ Windowing[2] = "gnome_introspect"
    /\ Windowing[3] = "cosmic" /\ Windowing[4] = "kwin" /\ Windowing[5] = "hyprland"
    /\ Windowing[6] = "niri" /\ Windowing[7] = "i3" /\ Windowing[8] = "labwc"
    /\ Windowing[9] = "wlr" /\ Windowing[10] = "x11"
    /\ Backends = {"gnome_shell_extension", "gnome_introspect", "cosmic", "kwin", "hyprland",
                   "niri", "i3", "labwc", "wlr", "x11"}
<1>1. /\ DOMAIN Windowing = 1..10
      /\ Windowing[1] = "gnome_shell_extension" /\ Windowing[2] = "gnome_introspect"
      /\ Windowing[3] = "cosmic" /\ Windowing[4] = "kwin" /\ Windowing[5] = "hyprland"
      /\ Windowing[6] = "niri" /\ Windowing[7] = "i3" /\ Windowing[8] = "labwc"
      /\ Windowing[9] = "wlr" /\ Windowing[10] = "x11"
  BY DEF Windowing
<1>2. \A i \in 1..10 : \/ i = 1 \/ i = 2 \/ i = 3 \/ i = 4 \/ i = 5
                       \/ i = 6 \/ i = 7 \/ i = 8 \/ i = 9 \/ i = 10
  OBVIOUS
<1>3. Backends = {Windowing[i] : i \in 1..10} BY <1>1 DEF Backends
<1>4. Backends = {Windowing[1], Windowing[2], Windowing[3], Windowing[4], Windowing[5],
                  Windowing[6], Windowing[7], Windowing[8], Windowing[9], Windowing[10]}
  BY <1>2, <1>3
<1> QED BY <1>1, <1>4

LEMMA Ranked ==
    ASSUME NEW m
    PROVE  /\ WindowRank(m) \in [Backends -> Nat]
           /\ \A b \in Backends : WindowRank(m)[b] >= 1 /\ WindowRank(m)[b] < 12
           /\ WindowRank(m)["gnome_shell_extension"] = 1 /\ WindowRank(m)["gnome_introspect"] = 3
           /\ WindowRank(m)["cosmic"] = 4 /\ WindowRank(m)["kwin"] = 5
           /\ WindowRank(m)["hyprland"] = 6 /\ WindowRank(m)["niri"] = 7
           /\ WindowRank(m)["i3"] = 8 /\ WindowRank(m)["labwc"] = 9 /\ WindowRank(m)["wlr"] = 10
           /\ WindowRank(m)["x11"] = IF Early(m) THEN 2 ELSE 11
BY BackendsAre DEF WindowRank

\* A backend pushed at its own rank.
LEMMA PushesOne ==
    ASSUME NEW S, NEW r \in [S -> Nat], NEW W \in SUBSET S, NEW n \in Nat,
           NEW b \in S, r[b] = n, \A c \in S : r[c] = n => c = b
    PROVE  Pushes(If(b \in W, <<b>>), S, r, W, n)
BY DEF Pushes, If

LEMMA WindowsSorted ==
    ASSUME NEW m \in Machine
    PROVE  Sorted(WindowBackends(m), Backends, WindowRank(m), m.windows, 12)
<1> DEFINE S == Backends
           r == WindowRank(m)
           W == m.windows
           l(b) == If(b \in W, <<b>>)
<1>0. W \in SUBSET S /\ r \in [S -> Nat] /\ \A b \in S : r[b] >= 1 BY Ranked DEF Machine
<1>1. /\ \A c \in S : r[c] = 1 => c = "gnome_shell_extension"
      /\ \A c \in S : r[c] = 2 => c = "x11" /\ Early(m)
      /\ \A c \in S : r[c] = 3 => c = "gnome_introspect"
      /\ \A c \in S : r[c] = 4 => c = "cosmic"
      /\ \A c \in S : r[c] = 5 => c = "kwin"
      /\ \A c \in S : r[c] = 6 => c = "hyprland"
      /\ \A c \in S : r[c] = 7 => c = "niri"
      /\ \A c \in S : r[c] = 8 => c = "i3"
      /\ \A c \in S : r[c] = 9 => c = "labwc"
      /\ \A c \in S : r[c] = 10 => c = "wlr"
      /\ \A c \in S : r[c] = 11 => c = "x11" /\ ~Early(m)
  BY Ranked, BackendsAre
<1>2. PICK e : e = If(Early(m), <<"x11">>) OBVIOUS
<1>3. PICK z : z = If("x11" \in W /\ ~Early(m), <<"x11">>) OBVIOUS
<1>4. Pushes(e, S, r, W, 2)
  <2>1. CASE Early(m)
    <3>1. "x11" \in W /\ "x11" \in S /\ r["x11"] = 2 /\ e = <<"x11">>
      BY <1>2, <2>1, Ranked, BackendsAre DEF If, Early
    <3> QED BY <1>1, <3>1 DEF Pushes
  <2>2. CASE ~Early(m)
    <3>1. e = <<>> BY <1>2, <2>2 DEF If
    <3>2. \A c \in W : r[c] # 2 BY <1>0, <1>1, <2>2
    <3> QED BY <3>1, <3>2 DEF Pushes
  <2> QED BY <2>1, <2>2
<1>5. Pushes(z, S, r, W, 11)
  <2>1. CASE "x11" \in W /\ ~Early(m)
    <3>1. "x11" \in W /\ "x11" \in S /\ r["x11"] = 11 /\ z = <<"x11">>
      BY <1>3, <2>1, Ranked, BackendsAre DEF If
    <3> QED BY <1>1, <3>1 DEF Pushes
  <2>2. CASE ~("x11" \in W /\ ~Early(m))
    <3>1. z = <<>> BY <1>3, <2>2 DEF If
    <3>2. \A c \in W : r[c] # 11 BY <1>0, <1>1, <2>2
    <3> QED BY <3>1, <3>2 DEF Pushes
  <2> QED BY <2>1, <2>2
<1>6. PICK y1 : y1 = l("gnome_shell_extension") OBVIOUS
<1>7. Pushes(y1, S, r, W, 1) BY <1>0, <1>1, <1>6, Ranked, BackendsAre, PushesOne
<1>8. PICK y3 : y3 = l("gnome_introspect") OBVIOUS
<1>9. Pushes(y3, S, r, W, 3) BY <1>0, <1>1, <1>8, Ranked, BackendsAre, PushesOne
<1>10. PICK y4 : y4 = l("cosmic") OBVIOUS
<1>11. Pushes(y4, S, r, W, 4) BY <1>0, <1>1, <1>10, Ranked, BackendsAre, PushesOne
<1>12. PICK y5 : y5 = l("kwin") OBVIOUS
<1>13. Pushes(y5, S, r, W, 5) BY <1>0, <1>1, <1>12, Ranked, BackendsAre, PushesOne
<1>14. PICK y6 : y6 = l("hyprland") OBVIOUS
<1>15. Pushes(y6, S, r, W, 6) BY <1>0, <1>1, <1>14, Ranked, BackendsAre, PushesOne
<1>16. PICK y7 : y7 = l("niri") OBVIOUS
<1>17. Pushes(y7, S, r, W, 7) BY <1>0, <1>1, <1>16, Ranked, BackendsAre, PushesOne
<1>18. PICK y8 : y8 = l("i3") OBVIOUS
<1>19. Pushes(y8, S, r, W, 8) BY <1>0, <1>1, <1>18, Ranked, BackendsAre, PushesOne
<1>20. PICK y9 : y9 = l("labwc") OBVIOUS
<1>21. Pushes(y9, S, r, W, 9) BY <1>0, <1>1, <1>20, Ranked, BackendsAre, PushesOne
<1>22. PICK y10 : y10 = l("wlr") OBVIOUS
<1>23. Pushes(y10, S, r, W, 10) BY <1>0, <1>1, <1>22, Ranked, BackendsAre, PushesOne
<1> HIDE DEF S, r, W, l
<1>24. PICK w0 : w0 = <<>> OBVIOUS
<1>25. Sorted(w0, S, r, W, 1) BY <1>0, <1>24, Unpushed
<1>26. PICK w1 : w1 = w0 \o y1 OBVIOUS
<1>27. Sorted(w1, S, r, W, 1 + 1) BY <1>0, <1>7, <1>25, <1>26, Pushed
<1>28. PICK w2 : w2 = w1 \o e OBVIOUS
<1>29. Sorted(w2, S, r, W, 2 + 1) BY <1>0, <1>4, <1>27, <1>28, Pushed
<1>30. PICK w3 : w3 = w2 \o y3 OBVIOUS
<1>31. Sorted(w3, S, r, W, 3 + 1) BY <1>0, <1>9, <1>29, <1>30, Pushed
<1>32. PICK w4 : w4 = w3 \o y4 OBVIOUS
<1>33. Sorted(w4, S, r, W, 4 + 1) BY <1>0, <1>11, <1>31, <1>32, Pushed
<1>34. PICK w5 : w5 = w4 \o y5 OBVIOUS
<1>35. Sorted(w5, S, r, W, 5 + 1) BY <1>0, <1>13, <1>33, <1>34, Pushed
<1>36. PICK w6 : w6 = w5 \o y6 OBVIOUS
<1>37. Sorted(w6, S, r, W, 6 + 1) BY <1>0, <1>15, <1>35, <1>36, Pushed
<1>38. PICK w7 : w7 = w6 \o y7 OBVIOUS
<1>39. Sorted(w7, S, r, W, 7 + 1) BY <1>0, <1>17, <1>37, <1>38, Pushed
<1>40. PICK w8 : w8 = w7 \o y8 OBVIOUS
<1>41. Sorted(w8, S, r, W, 8 + 1) BY <1>0, <1>19, <1>39, <1>40, Pushed
<1>42. PICK w9 : w9 = w8 \o y9 OBVIOUS
<1>43. Sorted(w9, S, r, W, 9 + 1) BY <1>0, <1>21, <1>41, <1>42, Pushed
<1>44. PICK w10 : w10 = w9 \o y10 OBVIOUS
<1>45. Sorted(w10, S, r, W, 10 + 1) BY <1>0, <1>23, <1>43, <1>44, Pushed
<1>46. PICK w11 : w11 = w10 \o z OBVIOUS
<1>47. Sorted(w11, S, r, W, 11 + 1) BY <1>0, <1>5, <1>45, <1>46, Pushed
<1>48. <<>> \o y1 = y1
  <2>1. <<>> \in Seq(S) /\ <<"gnome_shell_extension">> \in Seq(S) BY BackendsAre DEF S
  <2> QED BY <1>6, <2>1 DEF l, If
<1>49. WindowBackends(m) = l("gnome_shell_extension") \o e \o l("gnome_introspect") \o l("cosmic")
           \o l("kwin") \o l("hyprland") \o l("niri") \o l("i3") \o l("labwc") \o l("wlr") \o z
  BY <1>2, <1>3, Zenon DEF WindowBackends, Early, l, W
<1>50. w11 = WindowBackends(m)
  <2>1. WindowBackends(m) = y1 \o e \o y3 \o y4 \o y5 \o y6 \o y7 \o y8 \o y9 \o y10 \o z
    BY <1>49, <1>6, <1>8, <1>10, <1>12, <1>14, <1>16, <1>18, <1>20, <1>22, Zenon
  <2> QED BY <1>24, <1>26, <1>28, <1>30, <1>32, <1>34, <1>36, <1>38, <1>40, <1>42, <1>44, <1>46,
             <1>48, <2>1
<1>51. 11 + 1 = 12 OBVIOUS
<1> QED BY <1>47, <1>50, <1>51 DEF S, r, W

\* first_answer takes the usable backend of the least index, but for GNOME's Introspect.
LEMMA LeastLists ==
    ASSUME NEW m, NEW i \in 1..10, Windowing[i] \in m.windows,
           \A j \in 1..10 : Windowing[j] \in m.windows => i <= j
    PROVE  ListedBy(m) = IF Windowing[i] = "gnome_introspect" /\ m.exact /\ "x11" \in m.windows
                         THEN "x11" ELSE Windowing[i]
<1> DEFINE usable(k) == Windowing[k] \in m.windows
           least(k) == usable(k) /\ \A j \in DOMAIN Windowing : usable(j) => k <= j
<1>1. least(i) /\ i \in DOMAIN Windowing BY BackendsAre
<1>2. \A k \in DOMAIN Windowing : least(k) => k = i BY <1>1, BackendsAre
<1>3. (CHOOSE k \in DOMAIN Windowing : least(k)) = i BY <1>1, <1>2, BackendsAre
<1>4. ListedBy(m) = LET first == Windowing[CHOOSE k \in DOMAIN Windowing : least(k)] IN
                    IF first = "gnome_introspect" /\ m.exact /\ "x11" \in m.windows THEN "x11" ELSE first
  BY Zenon DEF ListedBy
<1> QED BY <1>3, <1>4

LEMMA LeftOf ==
    ASSUME NEW m \in Machine, NEW left, NEW n, n = [m EXCEPT !.windows = left]
    PROVE  n.windows = left /\ n.exact = m.exact /\ m.exact \in BOOLEAN
BY DEF Machine

LEMMA WindowsListed == ASSUME NEW m \in Machine PROVE WindowsInOrder(m)
<1> DEFINE l == WindowBackends(m)
           r == WindowRank(m)
<1>1. Sorted(l, Backends, r, m.windows, 12) /\ m.windows \subseteq Backends
  BY WindowsSorted DEF Machine
<1> SUFFICES ASSUME NEW i \in DOMAIN l
             PROVE  ListedBy([m EXCEPT !.windows = {l[k] : k \in i..Len(l)}]) = l[i]
  BY DEF WindowsInOrder
<1>2. l \in Seq(Backends) /\ Len(l) \in Nat /\ i \in 1..Len(l) BY <1>1 DEF Sorted
<1>3. PICK b : b = l[i] OBVIOUS
<1>4. PICK left : left = {l[k] : k \in i..Len(l)} OBVIOUS
<1>5. PICK n : n = [m EXCEPT !.windows = left] OBVIOUS
<1>6. n.windows = left /\ n.exact = m.exact /\ m.exact \in BOOLEAN BY <1>5, LeftOf
\* The backends left are those of at least its rank.
<1>7. b \in left /\ b \in Backends /\ b \in m.windows BY <1>1, <1>2, <1>3, <1>4 DEF Sorted
<1>8. \A c \in left : c \in m.windows /\ r[b] <= r[c]
  <2> SUFFICES ASSUME NEW k \in i..Len(l) PROVE l[k] \in m.windows /\ r[b] <= r[l[k]] BY <1>4
  <2>1. k \in 1..Len(l) BY <1>2
  <2>2. r[l[k]] \in Nat /\ r[b] \in Nat BY <1>2, <1>7, <2>1, Ranked
  <2>3. CASE k = i BY <1>1, <1>3, <2>1, <2>2, <2>3 DEF Sorted
  <2>4. CASE k # i
    <3>1. i < k BY <1>2, <2>1, <2>4
    <3> QED BY <1>1, <1>2, <1>3, <2>1, <2>2, <3>1 DEF Sorted
  <2> QED BY <2>3, <2>4
<1>9. \A c \in m.windows : r[b] <= r[c] => c \in left
  <2> SUFFICES ASSUME NEW c \in m.windows, r[b] <= r[c] PROVE c \in left OBVIOUS
  <2>1. r[c] < 12 /\ r[c] \in Nat /\ r[b] \in Nat BY <1>1, <1>7, Ranked
  <2>2. PICK k \in 1..Len(l) : l[k] = c BY <1>1, <2>1 DEF Sorted
  <2>3. ~(k < i) BY <1>1, <1>2, <1>3, <2>1, <2>2 DEF Sorted
  <2> QED BY <1>2, <1>4, <2>2, <2>3
<1> HIDE DEF l, r
<1>10. /\ r["gnome_shell_extension"] = 1 /\ r["gnome_introspect"] = 3
       /\ r["cosmic"] = 4 /\ r["kwin"] = 5 /\ r["hyprland"] = 6 /\ r["niri"] = 7
       /\ r["i3"] = 8 /\ r["labwc"] = 9 /\ r["wlr"] = 10
       /\ r["x11"] = IF Early(m) THEN 2 ELSE 11
  BY Ranked DEF r
<1>11. \A j \in 1..10 : j < 10 => r[Windowing[j]] = IF j = 1 THEN 1 ELSE j + 1
  <2>1. \A j \in 1..10 : j < 10 => \/ j = 1 \/ j = 2 \/ j = 3 \/ j = 4 \/ j = 5
                                   \/ j = 6 \/ j = 7 \/ j = 8 \/ j = 9
    OBVIOUS
  <2> QED BY <1>10, <2>1, BackendsAre
<1>12. CASE b = "x11" /\ Early(m)
  <2>1. Windowing[2] \in left BY <1>9, <1>10, <1>12, BackendsAre DEF Early
  <2>2. Windowing[1] \notin left BY <1>8, <1>10, <1>12, BackendsAre
  <2>3. \A j \in 1..10 : Windowing[j] \in left => 2 <= j BY <2>2
  <2>4. /\ Windowing[2] = "gnome_introspect" /\ n.exact /\ "x11" \in n.windows
        /\ Windowing[2] \in n.windows /\ \A j \in 1..10 : Windowing[j] \in n.windows => 2 <= j
    BY <1>6, <1>7, <1>12, <2>1, <2>3, BackendsAre DEF Early
  <2>5. ListedBy(n) = "x11" BY <2>4, LeastLists
  <2> QED BY <1>3, <1>4, <1>5, <1>12, <2>5
<1>13. CASE b = "x11" /\ ~Early(m)
  <2>1. \A j \in 1..10 : Windowing[j] \in left => 10 <= j BY <1>8, <1>10, <1>11, <1>13
  <2>2. ListedBy(n) = Windowing[10] BY <1>6, <1>7, <1>13, <2>1, LeastLists, BackendsAre
  <2> QED BY <1>3, <1>4, <1>5, <1>13, <2>2, BackendsAre
<1>14. CASE b # "x11"
  <2>1. PICK i0 \in 1..10 : Windowing[i0] = b BY <1>7, BackendsAre DEF Backends
  <2>2. i0 < 10 BY <1>14, <2>1, BackendsAre
  <2>3. \A j \in 1..10 : Windowing[j] \in left => i0 <= j
    <3> SUFFICES ASSUME NEW j \in 1..10, Windowing[j] \in left PROVE i0 <= j OBVIOUS
    <3>1. CASE j < 10 BY <1>8, <1>11, <2>1, <2>2, <3>1
    <3>2. CASE j = 10 BY <2>2, <3>2
    <3> QED BY <3>1, <3>2
  <2>4. ~(b = "gnome_introspect" /\ m.exact /\ "x11" \in left)
    BY <1>7, <1>8, <1>10 DEF Early
  <2>5. ListedBy(n) = b BY <1>6, <1>7, <2>1, <2>3, <2>4, LeastLists
  <2> QED BY <1>3, <1>4, <1>5, <2>5
<1> QED BY <1>12, <1>13, <1>14

(* The input list. *)

\* What decides where the portal stands.
Portal(m) == Wayland(m) /\ (PointerPortal(m) \/ KeyboardPortal(m))
Forced(m) ==
    Wayland(m) /\ PointerPortal(m) /\ KeyboardPortal(m) /\ m.points = "portal" /\ m.keys = "portal"
PortalFirst(m) ==
    Forced(m) \/ (CosmicPlatform(m) /\ Wayland(m) /\ PointerPortal(m) /\ m.points # "ydotool")

Inputs == {"pixelflux", "abs_pointer", "xdotool", "wtype", "portal", "ydotool"}
Listed(m) == {b \in Inputs :
    \/ b = "pixelflux" /\ m.pixelflux
    \/ b = "abs_pointer" /\ m.uinput /\ Wayland(m) /\ ~CosmicPlatform(m)
    \/ b = "xdotool" /\ AdvertiseXdotool(m)
    \/ b = "wtype" /\ TakesWtype(m) /\ ~AdvertiseXdotool(m) /\ m.keys # "portal"
    \/ b = "portal" /\ Portal(m)
    \/ b = "ydotool" /\ m.ydotool}
InputRank(m) == [b \in Inputs |->
    IF b = "pixelflux" THEN 1 ELSE IF b = "abs_pointer" THEN 2 ELSE IF b = "xdotool" THEN 3
    ELSE IF b = "wtype" THEN 4 ELSE IF b = "portal" THEN IF PortalFirst(m) THEN 5 ELSE 7 ELSE 6]

LEMMA InputsRanked ==
    ASSUME NEW m
    PROVE  /\ InputRank(m) \in [Inputs -> Nat] /\ Listed(m) \in SUBSET Inputs
           /\ \A b \in Inputs : InputRank(m)[b] >= 1 /\ InputRank(m)[b] < 8
           /\ InputRank(m)["pixelflux"] = 1 /\ InputRank(m)["abs_pointer"] = 2
           /\ InputRank(m)["xdotool"] = 3 /\ InputRank(m)["wtype"] = 4
           /\ InputRank(m)["ydotool"] = 6
           /\ InputRank(m)["portal"] = IF PortalFirst(m) THEN 5 ELSE 7
BY DEF InputRank, Inputs, Listed

LEMMA InputsSorted ==
    ASSUME NEW m
    PROVE  Sorted(InputBackends(m), Inputs, InputRank(m), Listed(m), 8)
<1> DEFINE S == Inputs
           r == InputRank(m)
           W == Listed(m)
<1>0. W \in SUBSET S /\ r \in [S -> Nat] /\ \A b \in S : r[b] >= 1 BY InputsRanked
<1>1. /\ \A c \in S : r[c] = 1 => c = "pixelflux"
      /\ \A c \in S : r[c] = 2 => c = "abs_pointer"
      /\ \A c \in S : r[c] = 3 => c = "xdotool"
      /\ \A c \in S : r[c] = 4 => c = "wtype"
      /\ \A c \in S : r[c] = 5 => c = "portal" /\ PortalFirst(m)
      /\ \A c \in S : r[c] = 6 => c = "ydotool"
      /\ \A c \in S : r[c] = 7 => c = "portal" /\ ~PortalFirst(m)
  BY InputsRanked DEF Inputs
<1>2. PICK x1 : x1 = If(m.pixelflux, <<"pixelflux">>) OBVIOUS
<1>3. PICK x2 : x2 = If(m.uinput /\ Wayland(m) /\ ~CosmicPlatform(m), <<"abs_pointer">>) OBVIOUS
<1>4. PICK x3 : x3 = If(AdvertiseXdotool(m), <<"xdotool">>) OBVIOUS
<1>5. PICK x4 : x4 = If(TakesWtype(m) /\ ~AdvertiseXdotool(m) /\ m.keys # "portal", <<"wtype">>) OBVIOUS
<1>6. PICK x5 : x5 = If(Portal(m) /\ PortalFirst(m), <<"portal">>) OBVIOUS
<1>7. PICK x6 : x6 = If(m.ydotool, <<"ydotool">>) OBVIOUS
<1>8. PICK x7 : x7 = If(Portal(m) /\ ~PortalFirst(m), <<"portal">>) OBVIOUS
<1>11. Pushes(x1, S, r, W, 1) BY <1>0, <1>1, <1>2, InputsRanked DEF Pushes, If, Listed, Inputs
<1>12. Pushes(x2, S, r, W, 2) BY <1>0, <1>1, <1>3, InputsRanked DEF Pushes, If, Listed, Inputs
<1>13. Pushes(x3, S, r, W, 3) BY <1>0, <1>1, <1>4, InputsRanked DEF Pushes, If, Listed, Inputs
<1>14. Pushes(x4, S, r, W, 4) BY <1>0, <1>1, <1>5, InputsRanked DEF Pushes, If, Listed, Inputs
<1>15. Pushes(x5, S, r, W, 5) BY <1>0, <1>1, <1>6, InputsRanked DEF Pushes, If, Listed, Inputs
<1>16. Pushes(x6, S, r, W, 6) BY <1>0, <1>1, <1>7, InputsRanked DEF Pushes, If, Listed, Inputs
<1>17. Pushes(x7, S, r, W, 7) BY <1>0, <1>1, <1>8, InputsRanked DEF Pushes, If, Listed, Inputs
<1>18. <<>> \o x1 = x1
  <2>1. <<>> \in Seq(S) /\ <<"pixelflux">> \in Seq(S) BY DEF Inputs
  <2> QED BY <1>2, <2>1 DEF If
<1>19. InputBackends(m) = x1 \o x2 \o x3 \o x4 \o x5 \o x6 \o x7
  BY <1>2, <1>3, <1>4, <1>5, <1>6, <1>7, <1>8 DEF InputBackends, Portal, PortalFirst, Forced
<1> HIDE DEF S, r, W
<1>20. PICK w0 : w0 = <<>> OBVIOUS
<1>21. Sorted(w0, S, r, W, 1) BY <1>0, <1>20, Unpushed
<1>22. PICK w1 : w1 = w0 \o x1 OBVIOUS
<1>23. Sorted(w1, S, r, W, 1 + 1) BY <1>0, <1>11, <1>21, <1>22, Pushed
<1>24. PICK w2 : w2 = w1 \o x2 OBVIOUS
<1>25. Sorted(w2, S, r, W, 2 + 1) BY <1>0, <1>12, <1>23, <1>24, Pushed
<1>26. PICK w3 : w3 = w2 \o x3 OBVIOUS
<1>27. Sorted(w3, S, r, W, 3 + 1) BY <1>0, <1>13, <1>25, <1>26, Pushed
<1>28. PICK w4 : w4 = w3 \o x4 OBVIOUS
<1>29. Sorted(w4, S, r, W, 4 + 1) BY <1>0, <1>14, <1>27, <1>28, Pushed
<1>30. PICK w5 : w5 = w4 \o x5 OBVIOUS
<1>31. Sorted(w5, S, r, W, 5 + 1) BY <1>0, <1>15, <1>29, <1>30, Pushed
<1>32. PICK w6 : w6 = w5 \o x6 OBVIOUS
<1>33. Sorted(w6, S, r, W, 6 + 1) BY <1>0, <1>16, <1>31, <1>32, Pushed
<1>34. PICK w7 : w7 = w6 \o x7 OBVIOUS
<1>35. Sorted(w7, S, r, W, 7 + 1) BY <1>0, <1>17, <1>33, <1>34, Pushed
<1>36. w7 = InputBackends(m) /\ 7 + 1 = 8
  BY <1>18, <1>19, <1>20, <1>22, <1>24, <1>26, <1>28, <1>30, <1>32, <1>34
<1> QED BY <1>35, <1>36 DEF S, r, W

\* What the list holds, and what comes first.
LEMMA InputsListed ==
    ASSUME NEW m
    PROVE  /\ \A b \in Listed(m) : \E i \in DOMAIN InputBackends(m) : InputBackends(m)[i] = b
           /\ \A a, b \in Inputs : InputRank(m)[a] < InputRank(m)[b] => Before(a, b, InputBackends(m))
           /\ Found(InputBackends(m)) =>
                /\ InputBackends(m)[1] \in Listed(m)
                /\ \A b \in Listed(m) : InputRank(m)[InputBackends(m)[1]] <= InputRank(m)[b]
<1> DEFINE l == InputBackends(m)
           r == InputRank(m)
           W == Listed(m)
<1>1. Sorted(l, Inputs, r, W, 8) BY InputsSorted
<1>2. r \in [Inputs -> Nat] /\ W \subseteq Inputs /\ \A b \in Inputs : r[b] < 8 BY InputsRanked
<1> HIDE DEF l, r, W
<1>3. l \in Seq(Inputs) /\ DOMAIN l = 1..Len(l) /\ Len(l) \in Nat BY <1>1 DEF Sorted
<1>4. \A b \in W : \E i \in DOMAIN l : l[i] = b BY <1>1, <1>2, <1>3 DEF Sorted
<1>5. ASSUME NEW a \in Inputs, NEW b \in Inputs, r[a] < r[b] PROVE Before(a, b, l)
  <2> SUFFICES ASSUME NEW i \in 1..Len(l), NEW j \in 1..Len(l), l[i] = a, l[j] = b PROVE i < j
    BY <1>3 DEF Before
  <2>1. r[a] \in Nat /\ r[b] \in Nat BY <1>2
  <2>2. ~(j < i) BY <1>1, <1>5, <2>1 DEF Sorted
  <2>3. i # j BY <1>5, <2>1
  <2> QED BY <2>2, <2>3
<1>6. ASSUME Found(l) PROVE l[1] \in W /\ \A b \in W : r[l[1]] <= r[b]
  <2>1. 1 \in 1..Len(l) BY <1>3, <1>6 DEF Found
  <2>2. l[1] \in W BY <1>1, <2>1 DEF Sorted
  <2>3. ASSUME NEW b \in W PROVE r[l[1]] <= r[b]
    <3>1. PICK i \in 1..Len(l) : l[i] = b BY <1>3, <1>4
    <3>2. r[l[1]] \in Nat /\ r[b] \in Nat BY <1>2, <2>2
    <3>3. CASE i = 1 BY <3>1, <3>2, <3>3
    <3>4. CASE i # 1
      <4>1. 1 < i BY <3>4
      <4> QED BY <1>1, <2>1, <3>1, <3>2, <4>1 DEF Sorted
    <3> QED BY <3>3, <3>4
  <2> QED BY <2>2, <2>3
<1> QED BY <1>4, <1>5, <1>6 DEF l, r, W

InputBackendsFirst(m) ==
    IF m.pixelflux THEN "pixelflux"
    ELSE IF m.uinput /\ Wayland(m) /\ ~CosmicPlatform(m) THEN "abs_pointer"
    ELSE IF AdvertiseXdotool(m) THEN "xdotool"
    ELSE IF TakesWtype(m) /\ m.keys # "portal" THEN "wtype"
    ELSE IF Portal(m) /\ PortalFirst(m) THEN "portal"
    ELSE IF m.ydotool THEN "ydotool"
    ELSE IF Portal(m) THEN "portal" ELSE "nothing"

LEMMA InputsFirst ==
    ASSUME NEW m
    PROVE  Found(InputBackends(m)) => /\ InputBackends(m)[1] = InputBackendsFirst(m)
                                      /\ InputBackendsFirst(m) # "nothing"
<1> SUFFICES ASSUME Found(InputBackends(m))
             PROVE  /\ InputBackends(m)[1] = InputBackendsFirst(m)
                    /\ InputBackendsFirst(m) # "nothing"
  OBVIOUS
<1>1. PICK a : a = InputBackends(m)[1] OBVIOUS
<1>2. a \in Listed(m) /\ \A b \in Listed(m) : InputRank(m)[a] <= InputRank(m)[b]
  BY <1>1, InputsListed
<1>3. a = InputBackendsFirst(m) /\ InputBackendsFirst(m) # "nothing"
  BY <1>2, InputsRanked DEF InputBackendsFirst, Listed, Inputs
<1> QED BY <1>1, <1>3

\* A keyboard route that works is in the list.
LEMMA RoutesListed == ASSUME NEW m \in Machine PROVE RoutesAreListed(m)
<1> SUFFICES ASSUME NEW b \in KeyboardRoutes(m), Works(m, b) PROVE b \in Listed(m)
  BY InputsListed DEF RoutesAreListed
<1>1. CASE m.pixelflux BY <1>1 DEF KeyboardRoutes, Listed, Inputs
<1>2. CASE ~m.pixelflux
  <2>1. b = ChordBy(m) \/ b \in TextBy(m) BY <1>2 DEF KeyboardRoutes
  <2>2. b \in {"portal", "wtype", "xdotool", "ydotool"} BY <2>1 DEF ChordBy, TextBy
  <2>3. CASE b = "ydotool" BY <2>3 DEF Works, Listed, Inputs
  <2>4. CASE b = "xdotool"
    <3>1. XdotoolKeyboard(m) BY <2>1, <2>4 DEF ChordBy, TextBy
    <3> QED BY <2>4, <3>1 DEF XdotoolKeyboard, AdvertiseXdotool, Listed, Inputs
  <2>5. CASE b = "portal"
    <3>1. Wayland(m) BY <2>1, <2>5 DEF ChordBy, TextBy
    <3>2. KeyboardPortal(m) BY <2>5 DEF Works
    <3> QED BY <2>5, <3>1, <3>2 DEF Portal, Listed, Inputs
  <2>6. CASE b = "wtype"
    <3>1. TakesWtype(m) /\ m.keys # "portal" /\ ~XdotoolKeyboard(m)
      BY <2>1, <2>6 DEF ChordBy, TextBy
    <3>2. ~AdvertiseXdotool(m) BY <3>1 DEF XdotoolKeyboard, AdvertiseXdotool
    <3> QED BY <2>6, <3>1, <3>2 DEF Listed, Inputs
  <2> QED BY <2>2, <2>3, <2>4, <2>5, <2>6
<1> QED BY <1>1, <1>2

LEMMA FallbacksListed == ASSUME NEW m PROVE FallbacksInOrder(m)
<1>1. /\ InputRank(m)["abs_pointer"] < InputRank(m)["portal"]
      /\ InputRank(m)["xdotool"] < InputRank(m)["ydotool"]
      /\ InputRank(m)["wtype"] < InputRank(m)["ydotool"]
  BY InputsRanked
<1>2. {"abs_pointer", "portal", "xdotool", "ydotool", "wtype"} \subseteq Inputs BY DEF Inputs
<1> QED BY <1>1, <1>2, InputsListed DEF FallbacksInOrder

LEMMA WhatWorks ==
    ASSUME NEW m
    PROVE  /\ m.wtype <=> Works(m, "wtype")
           /\ m.xdotool /\ m.display <=> Works(m, "xdotool")
           /\ KeyboardPortal(m) <=> Works(m, "portal")
           /\ m.ydotool <=> Works(m, "ydotool")
           /\ m.pixelflux <=> Works(m, "pixelflux")
BY DEF Works

\* Where a keyboard call has a route that works input can be sent, and the other way round
\* unless an override names a route that does not.
LEMMA InputSaid == ASSUME NEW m \in Machine PROVE InputAsSaid(m)
<1> DEFINE some == \E b \in KeyboardRoutes(m) : Works(m, b)
<1>1. some => CanSendInput(m)
  <2> SUFFICES ASSUME NEW b \in KeyboardRoutes(m), Works(m, b) PROVE CanSendInput(m) OBVIOUS
  <2>1. CASE m.pixelflux BY <2>1 DEF CanSendInput
  <2>2. CASE ~m.pixelflux
    <3>1. b = ChordBy(m) \/ b \in TextBy(m) BY <2>2 DEF KeyboardRoutes
    <3>2. b \in {"portal", "wtype", "xdotool", "ydotool"} BY <3>1 DEF ChordBy, TextBy
    <3>3. CASE b = "ydotool" BY <3>3, WhatWorks DEF CanSendInput
    <3>4. CASE b = "xdotool"
      <4>1. XdotoolKeyboard(m) BY <3>1, <3>4 DEF ChordBy, TextBy
      <4> QED BY <4>1 DEF XdotoolKeyboard, AdvertiseXdotool, CanSendInput
    <3>5. CASE b = "portal"
      <4>1. Wayland(m) BY <3>1, <3>5 DEF ChordBy, TextBy
      <4> QED BY <3>5, <4>1, WhatWorks DEF CanSendInput
    <3>6. CASE b = "wtype"
      <4>1. TakesWtype(m) BY <3>1, <3>6 DEF ChordBy, TextBy
      <4> QED BY <4>1 DEF CanSendInput
    <3> QED BY <3>2, <3>3, <3>4, <3>5, <3>6
  <2> QED BY <2>1, <2>2
<1>2. ASSUME CanSendInput(m), m.keys # "none" => Works(m, m.keys) PROVE some
  <2>1. CASE m.pixelflux BY <2>1, WhatWorks DEF KeyboardRoutes
  <2> SUFFICES ASSUME ~m.pixelflux PROVE \E b \in {ChordBy(m)} \cup TextBy(m) : Works(m, b)
    BY <2>1 DEF KeyboardRoutes
  <2>2. CASE m.keys = "ydotool"
    <3>1. ChordBy(m) = "ydotool" BY <2>2 DEF ChordBy, XdotoolKeyboard
    <3> QED BY <1>2, <2>2, <3>1
  <2>3. CASE m.keys # "ydotool" /\ XdotoolKeyboard(m)
    <3>1. ChordBy(m) = "xdotool" BY <2>3 DEF ChordBy
    <3> QED BY <2>3, <3>1, WhatWorks DEF XdotoolKeyboard
  <2>4. CASE m.keys # "ydotool" /\ ~XdotoolKeyboard(m) /\ ~Wayland(m)
    <3>1. m.ydotool
      BY <1>2, <2>4 DEF CanSendInput, AdvertiseXdotool, XdotoolKeyboard, TakesWtype
    <3>2. ChordBy(m) = "ydotool" BY <2>4 DEF ChordBy
    <3> QED BY <3>1, <3>2, WhatWorks
  <2>5. CASE m.keys # "ydotool" /\ ~XdotoolKeyboard(m) /\ Wayland(m) /\ m.keys = "portal"
    <3>1. ChordBy(m) = "portal" BY <2>5 DEF ChordBy
    <3> QED BY <1>2, <2>5, <3>1
  <2>6. CASE /\ m.keys # "ydotool" /\ ~XdotoolKeyboard(m) /\ Wayland(m) /\ m.keys # "portal"
             /\ TakesWtype(m)
    <3>1. "wtype" \in TextBy(m) BY <2>6 DEF TextBy, TakesWtype
    <3> QED BY <2>6, <3>1, WhatWorks DEF TakesWtype
  <2>7. CASE /\ m.keys # "ydotool" /\ ~XdotoolKeyboard(m) /\ Wayland(m) /\ m.keys # "portal"
             /\ ~TakesWtype(m)
    <3>1. "portal" \in TextBy(m) BY <2>7 DEF TextBy
    <3>2. m.ydotool => ChordBy(m) = "ydotool" BY <2>7 DEF ChordBy
    <3>3. KeyboardPortal(m) \/ m.ydotool
      BY <1>2, <2>7 DEF CanSendInput, AdvertiseXdotool, XdotoolKeyboard
    <3> QED BY <3>1, <3>2, <3>3, WhatWorks
  <2> QED BY <2>2, <2>3, <2>4, <2>5, <2>6, <2>7
<1> QED BY <1>1, <1>2 DEF InputAsSaid

\* Without an override, what is preferred is what some input call tries first.
LEMMA InputsTried == ASSUME NEW m \in Machine PROVE PreferredIsTried(m)
<1> SUFFICES ASSUME m.keys = "none", m.points = "none", ~UntypedCosmic(m), Found(InputBackends(m))
             PROVE  InputBackends(m)[1] \in FirstTried(m)
  BY DEF PreferredIsTried
<1>1. InputBackends(m)[1] = InputBackendsFirst(m) /\ InputBackendsFirst(m) # "nothing"
  BY InputsFirst
<1>2. m.session \in {"wayland", "untyped", "x11", "mixed"} BY DEF Machine
<1>3. /\ Wayland(m) => m.session # "x11"
      /\ CosmicPlatform(m) <=> Wayland(m) /\ m.desktop = "cosmic"
  BY <1>2 DEF Wayland, CosmicPlatform, UntypedCosmic
<1>4. FirstTried(m) = IF m.pixelflux THEN {"pixelflux"} ELSE {PointBy(m), ChordBy(m)} \cup TextBy(m)
  BY DEF FirstTried, KeyboardRoutes
<1>5. CASE m.pixelflux BY <1>1, <1>4, <1>5 DEF InputBackendsFirst
<1>6. CASE ~m.pixelflux /\ m.uinput /\ Wayland(m) /\ ~CosmicPlatform(m)
  BY <1>1, <1>3, <1>4, <1>6 DEF InputBackendsFirst, PointBy, UsesUinput, X11Pointer
<1>7. CASE ~m.pixelflux /\ ~(m.uinput /\ Wayland(m) /\ ~CosmicPlatform(m)) /\ AdvertiseXdotool(m)
  BY <1>1, <1>4, <1>7 DEF InputBackendsFirst, ChordBy, AdvertiseXdotool, XdotoolKeyboard
<1>8. CASE /\ ~m.pixelflux /\ ~(m.uinput /\ Wayland(m) /\ ~CosmicPlatform(m))
           /\ ~AdvertiseXdotool(m) /\ TakesWtype(m)
  BY <1>1, <1>4, <1>8 DEF InputBackendsFirst, TextBy, TakesWtype, AdvertiseXdotool, XdotoolKeyboard
<1>9. CASE /\ ~m.pixelflux /\ ~(m.uinput /\ Wayland(m) /\ ~CosmicPlatform(m))
           /\ ~AdvertiseXdotool(m) /\ ~TakesWtype(m)
  <2>1. ~XdotoolKeyboard(m) BY <1>9 DEF XdotoolKeyboard, AdvertiseXdotool
  <2>2. InputBackends(m)[1] = IF Portal(m) /\ PortalFirst(m) THEN "portal"
                              ELSE IF m.ydotool THEN "ydotool" ELSE "portal"
    BY <1>1, <1>9 DEF InputBackendsFirst
  <2>3. PortalFirst(m) => CosmicPlatform(m) BY DEF PortalFirst, Forced
  <2>4. CASE Portal(m) /\ PortalFirst(m)
    <3>1. PointBy(m) = "portal" BY <1>3, <2>3, <2>4 DEF PointBy, UsesUinput, X11Pointer
    <3> QED BY <1>4, <1>9, <2>2, <2>4, <3>1
  <2>5. CASE ~(Portal(m) /\ PortalFirst(m)) /\ m.ydotool
    <3>1. ChordBy(m) = "ydotool" BY <2>1, <2>5 DEF ChordBy
    <3> QED BY <1>4, <1>9, <2>2, <2>5, <3>1
  <2>6. CASE ~(Portal(m) /\ PortalFirst(m)) /\ ~m.ydotool
    <3>1. Portal(m) BY <1>1, <1>9, <2>6 DEF InputBackendsFirst
    <3>2. "portal" \in TextBy(m) BY <1>9, <2>1, <3>1 DEF TextBy, Portal
    <3> QED BY <1>4, <1>9, <2>2, <2>6, <3>2
  <2> QED BY <2>4, <2>5, <2>6
<1> QED BY <1>5, <1>6, <1>7, <1>8, <1>9

LEMMA Advertised ==
    ASSUME NEW m \in Machine
    PROVE  /\ WindowsInOrder(m) /\ RoutesAreListed(m) /\ FallbacksInOrder(m)
           /\ InputAsSaid(m) /\ PreferredIsTried(m)
BY WindowsListed, RoutesListed, FallbacksListed, InputSaid, InputsTried

Reported(m) ==
    [at |-> "reported",
     status |-> IF Found(ScreenshotBackends(m)) THEN "unverified" ELSE "unavailable",
     blockers |-> Blockers(m), next |-> NextStep(m),
     warnings |-> IF Found(ScreenshotBackends(m)) THEN {"unverified"} ELSE {}]

DoctorInv ==
    /\ machine \in Machines /\ ReportIsRight
    /\ doctor = [at |-> "none"] \/ doctor = Reported(machine) \/ doctor.at = "recorded"

Able(m) == m.tree /\ CanFocus(m) /\ CanSendInput(m)

LEMMA NothingBlocks ==
    ASSUME NEW m \in Machine
    PROVE  /\ Blockers(m) = {} <=> Able(m) /\ Found(ScreenshotBackends(m))
           /\ Blockers(m) \ {"no_screenshot"} = {} <=> Able(m)
<1>1. CanFocus(m) => m.windows # {} BY DEF CanFocus
<1> QED BY <1>1 DEF Blockers, Able

LEMMA NextStepIs ==
    ASSUME NEW m \in Machine
    PROVE  /\ ~Able(m) => NextStep(m) \in {"accessibility", "windows", "focus", "input"}
           /\ Able(m) => NextStep(m) =
                IF Found(ScreenshotBackends(m)) THEN "verify" ELSE "screenshot"
<1>1. CanFocus(m) => m.windows # {} BY DEF CanFocus
<1>2. CASE ~m.tree BY <1>2 DEF NextStep, Able
<1>3. CASE m.tree /\ m.windows = {} BY <1>1, <1>3 DEF NextStep, Able
<1>4. CASE m.tree /\ m.windows # {} /\ ~CanFocus(m) BY <1>4 DEF NextStep, Able
<1>5. CASE m.tree /\ CanFocus(m) /\ ~CanSendInput(m) BY <1>1, <1>5 DEF NextStep, Able
<1>6. CASE m.tree /\ CanFocus(m) /\ CanSendInput(m) BY <1>1, <1>6 DEF NextStep, Able
<1> QED BY <1>1, <1>2, <1>3, <1>4, <1>5, <1>6

LEMMA ReportedAgrees ==
    ASSUME NEW m \in Machine, NEW d, d = Reported(m)
    PROVE  /\ (d.blockers = {}) <=> (d.next \in {"verify", "ready"})
           /\ d.next # "ready"
           /\ d.status = "unverified" <=> d.warnings # {}
<1>1. /\ d.blockers = Blockers(m) /\ d.next = NextStep(m)
      /\ d.status = IF Found(ScreenshotBackends(m)) THEN "unverified" ELSE "unavailable"
      /\ d.warnings = IF Found(ScreenshotBackends(m)) THEN {"unverified"} ELSE {}
  BY DEF Reported
<1>2. (d.blockers = {}) <=> (d.next \in {"verify", "ready"})
  BY <1>1, NothingBlocks, NextStepIs
<1>3. d.next # "ready" BY <1>1, NextStepIs
<1>4. d.status = "unverified" <=> d.warnings # {} BY <1>1
<1> QED BY <1>2, <1>3, <1>4

LEMMA RecordedAgrees ==
    ASSUME NEW captured \in BOOLEAN, machine \in Machine, doctor = Reported(machine),
           Record(captured)
    PROVE  ReadinessAgrees' /\ doctor'.at = "recorded" /\ machine' = machine
<1>1. /\ doctor'.at = "recorded" /\ machine' = machine
      /\ doctor'.status = IF captured THEN "verified" ELSE "failed"
      /\ doctor'.warnings = {}
      /\ doctor'.blockers = (Blockers(machine) \ {"no_screenshot"})
                                \cup (IF captured THEN {} ELSE {"failed"})
      /\ doctor'.next = IF Able(machine) THEN IF captured THEN "ready" ELSE "inspect_failure"
                        ELSE NextStep(machine)
  BY DEF Record, Reported, Able
<1>2. CASE captured
  <2>1. (doctor'.blockers = {}) <=> (doctor'.next \in {"verify", "ready"})
    BY <1>1, <1>2, NothingBlocks, NextStepIs
  <2>2. doctor'.status = "verified" BY <1>1, <1>2
  <2> QED BY <1>1, <2>1, <2>2 DEF ReadinessAgrees
<1>3. CASE ~captured
  <2>1. doctor'.blockers # {} BY <1>1, <1>3
  <2>2. doctor'.next \notin {"verify", "ready"} BY <1>1, <1>3, NextStepIs
  <2>3. doctor'.status = "failed" BY <1>1, <1>3
  <2> QED BY <1>1, <2>1, <2>2, <2>3 DEF ReadinessAgrees
<1> QED BY <1>1, <1>2, <1>3

LEMMA DoctorStep == DoctorInv /\ [DoctorNext]_doctorVars => DoctorInv'
<1> SUFFICES ASSUME DoctorInv, [DoctorNext]_doctorVars PROVE DoctorInv' OBVIOUS
<1>1. machine \in Machine BY MachineAssumption DEF DoctorInv
<1>2. AdvertisedIsUsed'
  <2>1. machine' = machine BY DEF DoctorNext, Diagnose, Record, doctorVars
  <2> QED BY <1>1, <2>1, Advertised DEF AdvertisedIsUsed
<1>3. CASE Diagnose
  <2>1. doctor' = Reported(machine) /\ machine' = machine BY <1>3 DEF Diagnose, Reported
  <2>2. ReadinessAgrees' BY <1>1, <2>1, ReportedAgrees DEF ReadinessAgrees
  <2>3. Reported(machine)' = Reported(machine) BY <2>1
  <2> QED BY <1>2, <2>1, <2>2, <2>3 DEF DoctorInv, ReportIsRight
<1>4. ASSUME NEW captured \in BOOLEAN, Record(captured) PROVE DoctorInv'
  <2>1. doctor = Reported(machine) BY <1>4 DEF Record, DoctorInv
  <2>2. ReadinessAgrees' /\ doctor'.at = "recorded" /\ machine' = machine
    BY <1>1, <1>4, <2>1, RecordedAgrees
  <2> QED BY <1>2, <2>2 DEF DoctorInv, ReportIsRight
<1>5. CASE UNCHANGED doctorVars
  <2>1. machine' = machine /\ doctor' = doctor BY <1>5 DEF doctorVars
  <2>2. ReadinessAgrees' BY <2>1 DEF DoctorInv, ReportIsRight, ReadinessAgrees
  <2>3. Reported(machine)' = Reported(machine) BY <2>1
  <2> QED BY <1>2, <2>1, <2>2, <2>3 DEF DoctorInv, ReportIsRight
<1> QED BY <1>3, <1>4, <1>5 DEF DoctorNext

\* ReportIsRight, for every machine and override: windows are listed by the backends of the
\* report in its order; a keyboard route that works is listed, before what its call falls
\* back to; input is said to be possible where some keyboard call has a route that works and,
\* but for an override that names one that does not, nowhere else; without an override the
\* backend that is preferred is the one some input call tries first; and the blockers, the
\* next step and the state of the screenshot agree before and after a capture.
THEOREM ReportStaysRight == DoctorSpec => []ReportIsRight
<1>1. DoctorInit => DoctorInv
  <2> SUFFICES ASSUME DoctorInit PROVE DoctorInv OBVIOUS
  <2>1. doctor.at = "none" BY DEF DoctorInit
  <2> QED BY <2>1 DEF DoctorInit, DoctorInv, ReportIsRight, AdvertisedIsUsed, ReadinessAgrees
<1>2. DoctorInv => ReportIsRight BY DEF DoctorInv
<1> QED BY <1>1, <1>2, DoctorStep, PTL DEF DoctorSpec
=============================================================================
