---------------------------- MODULE TextInput_proof ----------------------------
(***************************************************************************)
(* Text on its way to an application, by libei and by the clipboard.       *)
(*                                                                         *)
(* EisInput.  For any events, devices and number of changes its answers    *)
(* are true, and it implements EventChannel.                               *)
(*                                                                         *)
(* The refinement needs to know where an event is.  One event is awaited   *)
(* (OneAwaited); what has been emitted is past the queue (Emitted); what   *)
(* is queued or in the hand has been asked for (Asked); and the result in  *)
(* the hand is a true one (ResultTrue).                                    *)
(***************************************************************************)
EXTENDS EisInput, KdeClipboard, TLAPS

OneAwaited == \A e, f \in Awaited : e = f

Emitted ==
    \A e \in emitted :
        /\ pc[e] \in {"queued", "ok", "unknown"}
        /\ pc[e] = "queued" => hand = e
        /\ queue # <<e>>

Asked ==
    /\ \A e \in Events : queue = <<e>> => pc[e] \in {"queued", "unknown"} /\ hand # e
    /\ hand # None => pc[hand] \in {"queued", "unknown"}

ResultTrue ==
    hand # None =>
        /\ result = "ok" => hand \in emitted
        /\ result \in {"none", "refused"} => hand \notin emitted

IInv == TypeOK /\ OneAwaited /\ Emitted /\ Asked /\ ResultTrue /\ AnswersAreTrue

Facts == OneAwaited /\ Emitted /\ Asked /\ ResultTrue /\ AnswersAreTrue

(* A connection that is being set up satisfies the invariant. *)
LEMMA InitIInv == Init => IInv
  <1> SUFFICES ASSUME Init PROVE IInv
    OBVIOUS
  <1>1. TypeOK
    BY EisAssumption DEF Init, TypeOK, Waiting, Outcomes, Messages
  <1>2. Facts
    BY EisAssumption DEF Init, Facts, OneAwaited, Awaited, Waiting, Emitted, Asked, ResultTrue,
       AnswersAreTrue
  <1> QED
    BY <1>1, <1>2 DEF IInv, Facts

(* A device event leaves sets of devices. *)
LEMMA ViewTyped ==
    ASSUME TypeOK, NEW m \in Messages, View(m)
    PROVE  devices' \subseteq Devices /\ active' \subseteq devices'
  <1>1. m.device \in Devices /\ m.kind \in Kinds
    BY DEF Messages
  <1> QED
    BY <1>1 DEF View, TypeOK, Kinds

(* Every step keeps the types. *)
LEMMA TypeStep ==
    ASSUME IInv, [Next]_vars
    PROVE  TypeOK'
  <1> USE DEF IInv, vars, clientVars, viewVars, workVars, compositorVars
  <1>1. CASE UNCHANGED vars
    BY <1>1 DEF TypeOK
  <1>2. CASE Connected \/ LoseClient
    BY <1>2 DEF Connected, LoseClient, TypeOK
  <1>3. ASSUME NEW e \in Events, Send(e) \/ Enqueue(e) \/ GiveUp(e)
        PROVE  TypeOK'
    BY <1>3 DEF Send, Enqueue, GiveUp, TypeOK, Waiting, Outcomes
  <1>4. CASE Announce \/ StartupFails \/ Hangup
    BY <1>4 DEF Announce, StartupFails, Hangup, End, DeviceReady, TypeOK
  <1>5. CASE HandleEvent
    <2>1. inbox \in Seq(Messages) /\ inbox # <<>>
      BY <1>5 DEF HandleEvent, TypeOK
    <2>2. Head(inbox) \in Messages /\ inbox' \in Seq(Messages)
      BY <1>5, <2>1 DEF HandleEvent
    <2>3. devices' \subseteq Devices /\ active' \subseteq devices'
      BY <1>5, <2>2, ViewTyped DEF HandleEvent
    <2> QED
      BY <1>5, <2>2, <2>3 DEF HandleEvent, End, TypeOK
  <1>6. CASE Receive
    <2>1. PICK e \in Events : queue = <<e>>
      BY <1>6 DEF Receive, TypeOK
    <2>2. hand' \in {e, None}
      BY <1>6, <2>1 DEF Receive
    <2> QED
      BY <1>6, <2>2 DEF Receive, TypeOK
  <1>7. CASE EmitNothing
    BY <1>7, EisAssumption DEF EmitNothing, TypeOK, Outcomes
  <1>8. CASE Answer
    BY <1>8 DEF Answer, End, TypeOK, Outcomes, Waiting
  <1>9. ASSUME NEW d \in Devices, EmitOn(d)
        PROVE  TypeOK'
    BY <1>9 DEF EmitOn, FlushFailed, TypeOK, Outcomes
  <1>10. ASSUME NEW d \in Devices,
                Offer(d) \/ Resume(d) \/ Pause(d) \/ Remove(d) \/ Disconnect(d)
         PROVE  TypeOK'
    <2>1. PICK k \in Kinds : Tell(k, d)
      BY <1>10 DEF Offer, Resume, Pause, Remove, Disconnect, Kinds
    <2>2. [kind |-> k, device |-> d] \in Messages
      BY DEF Messages
    <2>3. inbox' \in Seq(Messages) /\ changes' \in 0..MaxChanges
      BY <2>1, <2>2, EisAssumption DEF Tell, TypeOK
    <2>4. resumed' \subseteq offered' /\ offered' \subseteq Devices
      BY <1>10 DEF Offer, Resume, Pause, Remove, Disconnect, TypeOK
    <2> QED
      BY <2>1, <2>3, <2>4 DEF Tell, TypeOK
  <1> QED
    BY <1>1, <1>2, <1>3, <1>4, <1>5, <1>6, <1>7, <1>8, <1>9, <1>10 DEF Next, WorkerStep

(* Every step keeps the rest of the invariant. *)
LEMMA FactsStep ==
    ASSUME IInv, [Next]_vars
    PROVE  Facts'
  <1> USE EisAssumption DEF IInv, TypeOK, vars, clientVars, viewVars, workVars, compositorVars,
          Facts, OneAwaited, Awaited, Waiting, Outcomes, Emitted, Asked, ResultTrue, AnswersAreTrue
  <1>1. CASE UNCHANGED vars
    BY <1>1
  <1>2. CASE Connected \/ LoseClient
    BY <1>2 DEF Connected, LoseClient
  <1>3. ASSUME NEW e \in Events, Send(e)
        PROVE  Facts'
    BY <1>3 DEF Send
  <1>4. ASSUME NEW e \in Events, Enqueue(e)
        PROVE  Facts'
    BY <1>4 DEF Enqueue
  <1>5. ASSUME NEW e \in Events, GiveUp(e)
        PROVE  Facts'
    BY <1>5 DEF GiveUp
  <1>6. CASE Announce \/ StartupFails \/ Hangup
    BY <1>6 DEF Announce, StartupFails, Hangup, End
  <1>7. CASE HandleEvent
    BY <1>7 DEF HandleEvent, End
  <1>8. CASE Receive
    <2>1. PICK e \in Events : queue = <<e>>
      BY <1>8 DEF Receive
    <2>2. hand' = (IF pc[e] = "queued" THEN e ELSE None) /\ queue' = <<>>
      BY <1>8, <2>1 DEF Receive
    <2> QED
      BY <1>8, <2>1, <2>2 DEF Receive
  <1>9. CASE EmitNothing
    BY <1>9 DEF EmitNothing
  <1>10. CASE Answer
    BY <1>10 DEF Answer, End
  <1>11. ASSUME NEW d \in Devices, EmitOn(d)
         PROVE  Facts'
    BY <1>11 DEF EmitOn, FlushFailed
  <1>12. ASSUME NEW d \in Devices,
                Offer(d) \/ Resume(d) \/ Pause(d) \/ Remove(d) \/ Disconnect(d)
         PROVE  Facts'
    BY <1>12 DEF Offer, Resume, Pause, Remove, Disconnect, Tell
  <1> QED
    BY <1>1, <1>2, <1>3, <1>4, <1>5, <1>6, <1>7, <1>8, <1>9, <1>10, <1>11, <1>12
       DEF Next, WorkerStep

(* The invariant holds in every state. *)
THEOREM Invariance == Spec => []IInv
  <1>1. IInv /\ [Next]_vars => IInv'
    BY TypeStep, FactsStep DEF IInv, Facts
  <1> QED
    BY <1>1, InitIInv, PTL DEF Spec

(* The variables of the connection keep their types. *)
THEOREM TypeCorrect == Spec => []TypeOK
  BY Invariance, PTL DEF IInv

(* What a send is told is true, however the thread, the compositor and the time limits race. *)
THEOREM AnswersTrue == Spec => []AnswersAreTrue
  BY Invariance, PTL DEF IInv

(***************************************************************************)
(* A device the worker holds for resumed and the compositor has paused is  *)
(* one it will hear of: the pause is in the inbox, after every message     *)
(* that says the device was resumed.                                       *)
(***************************************************************************)
Stops(m, d) == m.kind = "disconnected" \/ (m.kind \in {"paused", "removed"} /\ m.device = d)

Resumes(m, d) == m.kind = "resumed" /\ m.device = d

StopFollows(d, i) == \E j \in 1..Len(inbox) : i < j /\ Stops(inbox[j], d)

Informed ==
    worker # "ended" =>
        \A d \in Devices \ resumed :
            /\ d \in active => StopFollows(d, 0)
            /\ \A i \in 1..Len(inbox) : Resumes(inbox[i], d) => StopFollows(d, i)

(* What the compositor tells is appended; a stop in the inbox stays where it is. *)
LEMMA ToldInformed ==
    ASSUME TypeOK, Informed, NEW k \in Kinds, NEW d \in Devices, Tell(k, d),
           \A e \in resumed \ resumed' : Stops([kind |-> k, device |-> d], e),
           k = "resumed" => d \in resumed'
    PROVE  Informed'
  <1> DEFINE m == [kind |-> k, device |-> d]
  <1> DEFINE n == Len(inbox) + 1
  <1>1. /\ inbox' = Append(inbox, m) /\ worker' = worker /\ active' = active /\ worker # "ended"
        /\ inbox \in Seq(Messages) /\ m \in Messages
    BY DEF Tell, TypeOK, Messages, vars, viewVars
  <1>2. Len(inbox') = n /\ inbox'[n] = m /\ \A i \in 1..Len(inbox) : inbox'[i] = inbox[i]
    BY <1>1
  <1>3. Len(inbox) \in Nat
    BY <1>1
  <1> SUFFICES ASSUME NEW e \in Devices, e \notin resumed'
               PROVE  /\ e \in active' => StopFollows(e, 0)'
                      /\ \A i \in 1..Len(inbox') : Resumes(inbox'[i], e) => StopFollows(e, i)'
    BY DEF Informed
  <1>4. CASE e \in resumed
    <2>1. Stops(m, e) /\ ~Resumes(m, e)
      BY <1>4 DEF Stops, Resumes
    <2>2. \A i \in 0..Len(inbox) : StopFollows(e, i)'
      BY <1>2, <1>3, <2>1 DEF StopFollows
    <2> QED
      BY <1>2, <1>3, <2>1, <2>2
  <1>5. CASE e \notin resumed
    <2>1. \A i \in Nat : StopFollows(e, i) => StopFollows(e, i)'
      BY <1>2, <1>3 DEF StopFollows
    <2>2. ~Resumes(m, e)
      BY DEF Resumes
    <2>3. e \in active => StopFollows(e, 0)
      BY <1>1, <1>5 DEF Informed
    <2>4. \A i \in 1..Len(inbox) : Resumes(inbox[i], e) => StopFollows(e, i)
      BY <1>1, <1>5 DEF Informed
    <2>5. \A i \in 1..Len(inbox') : i = n \/ i \in 1..Len(inbox)
      BY <1>2, <1>3
    <2> QED
      BY <1>1, <1>2, <1>3, <2>1, <2>2, <2>3, <2>4, <2>5
  <1> QED
    BY <1>4, <1>5

(* What the worker reads is the oldest message. *)
LEMMA ReadInformed ==
    ASSUME TypeOK, Informed, HandleEvent
    PROVE  Informed'
  <1> DEFINE m == Head(inbox)
  <1>1. /\ inbox \in Seq(Messages) /\ inbox # <<>> /\ inbox' = Tail(inbox) /\ View(m)
        /\ resumed' = resumed /\ worker # "ended" /\ active \subseteq Devices
    BY DEF HandleEvent, TypeOK
  <1>2. Len(inbox) \in Nat \ {0} /\ Len(inbox') = Len(inbox) - 1 /\ m = inbox[1]
    BY <1>1
  <1>3. \A i \in 1..Len(inbox') : inbox'[i] = inbox[i + 1]
    BY <1>1, <1>2
  <1> SUFFICES ASSUME worker' # "ended", NEW e \in Devices, e \notin resumed
               PROVE  /\ e \in active' => StopFollows(e, 0)'
                      /\ \A i \in 1..Len(inbox') : Resumes(inbox'[i], e) => StopFollows(e, i)'
    BY <1>1 DEF Informed
  <1>4. m.kind # "disconnected"
    BY DEF HandleEvent, End
  <1>5. /\ e \in active => StopFollows(e, 0)
        /\ \A i \in 1..Len(inbox) : Resumes(inbox[i], e) => StopFollows(e, i)
    BY <1>1 DEF Informed
  <1>6. \A i \in 1..Len(inbox) : StopFollows(e, i) => StopFollows(e, i - 1)'
    <2> SUFFICES ASSUME NEW i \in 1..Len(inbox), StopFollows(e, i)
                 PROVE  StopFollows(e, i - 1)'
      OBVIOUS
    <2>1. PICK j \in 1..Len(inbox) : i < j /\ Stops(inbox[j], e)
      BY DEF StopFollows
    <2>2. j - 1 \in 1..Len(inbox') /\ i - 1 < j - 1 /\ inbox'[j - 1] = inbox[j]
      BY <1>2, <1>3, <2>1
    <2> QED
      BY <2>1, <2>2 DEF StopFollows
  <1>7. \A i \in 1..Len(inbox') : Resumes(inbox'[i], e) => StopFollows(e, i)'
    <2> SUFFICES ASSUME NEW i \in 1..Len(inbox'), Resumes(inbox'[i], e)
                 PROVE  StopFollows(e, i)'
      OBVIOUS
    <2>1. i + 1 \in 1..Len(inbox) /\ (i + 1) - 1 = i
      BY <1>2
    <2>2. StopFollows(e, i + 1)
      BY <1>3, <1>5, <2>1
    <2> QED
      BY <1>6, <2>1, <2>2
  <1>8. ASSUME e \in active'
        PROVE  StopFollows(e, 0)'
    <2>1. 1 \in 1..Len(inbox) /\ 1 - 1 = 0
      BY <1>2
    <2>2. CASE Resumes(m, e)
      <3>1. StopFollows(e, 1)
        BY <1>2, <1>5, <2>1, <2>2
      <3> QED
        BY <1>6, <2>1, <3>1
    <2>3. CASE ~Resumes(m, e)
      <3>1. e \in active /\ ~Stops(m, e)
        BY <1>1, <1>4, <1>8, <2>3 DEF View, Resumes, Stops
      <3>2. PICK j \in 1..Len(inbox) : 0 < j /\ Stops(inbox[j], e)
        BY <1>5, <3>1 DEF StopFollows
      <3>3. j # 1
        BY <1>2, <3>1, <3>2
      <3>4. StopFollows(e, 1)
        BY <1>2, <3>2, <3>3 DEF StopFollows
      <3> QED
        BY <1>6, <2>1, <3>4
    <2> QED
      BY <2>2, <2>3
  <1> QED
    BY <1>7, <1>8

(* Every step leaves the worker one that will hear. *)
LEMMA InformedStep ==
    ASSUME TypeOK, Informed, [Next]_vars
    PROVE  Informed'
  <1> USE DEF vars, clientVars, viewVars, workVars, compositorVars
  <1>1. ASSUME UNCHANGED <<inbox, active, resumed>>, worker # "ended" \/ worker' = "ended"
        PROVE  Informed'
    BY <1>1 DEF Informed, StopFollows
  <1>2. CASE UNCHANGED vars \/ Connected \/ LoseClient
    BY <1>1, <1>2 DEF Connected, LoseClient
  <1>3. ASSUME NEW e \in Events, Send(e) \/ Enqueue(e) \/ GiveUp(e)
        PROVE  Informed'
    BY <1>1, <1>3 DEF Send, Enqueue, GiveUp
  <1>4. CASE Announce \/ StartupFails \/ Hangup \/ Receive \/ EmitNothing \/ Answer
    BY <1>1, <1>4 DEF Announce, StartupFails, Hangup, Receive, EmitNothing, Answer, End
  <1>5. ASSUME NEW d \in Devices, EmitOn(d)
        PROVE  Informed'
    BY <1>1, <1>5 DEF EmitOn
  <1>6. CASE HandleEvent
    BY <1>6, ReadInformed
  <1>7. ASSUME NEW d \in Devices, Offer(d) \/ Resume(d)
        PROVE  Informed'
    <2>1. PICK k \in {"added", "resumed"} : Tell(k, d) /\ (k = "resumed" => d \in resumed')
      BY <1>7 DEF Offer, Resume
    <2>2. resumed \ resumed' = {} /\ k \in Kinds
      BY <1>7, <2>1 DEF Offer, Resume, Kinds
    <2> QED
      BY <2>1, <2>2, ToldInformed
  <1>8. ASSUME NEW d \in Devices, Pause(d) \/ Remove(d) \/ Disconnect(d)
        PROVE  Informed'
    <2>1. PICK k \in {"paused", "removed", "disconnected"} :
            Tell(k, d) /\ (k = "disconnected" \/ resumed' = resumed \ {d})
      BY <1>8 DEF Pause, Remove, Disconnect
    <2>2. \A e \in resumed \ resumed' : Stops([kind |-> k, device |-> d], e)
      BY <2>1 DEF Stops
    <2>3. k \in Kinds /\ k # "resumed"
      BY <2>1 DEF Kinds
    <2> QED
      BY <2>1, <2>2, <2>3, ToldInformed
  <1> QED
    BY <1>2, <1>3, <1>4, <1>5, <1>6, <1>7, <1>8 DEF Next, WorkerStep

(* An event that goes out on an active device while the inbox is empty takes effect. *)
LEMMA EffectStep ==
    ASSUME TypeOK, Informed, [Next]_vars, inbox = <<>>
    PROVE  emitted' \ emitted \subseteq delivered'
  <1> USE DEF vars, clientVars, viewVars, workVars, compositorVars
  <1>1. ASSUME NEW d \in Devices, EmitOn(d)
        PROVE  emitted' \ emitted \subseteq delivered'
    <2>1. worker # "ended" /\ d \in active
      BY <1>1 DEF EmitOn, TypeOK
    <2>2. ~StopFollows(d, 0)
      BY DEF StopFollows
    <2>3. d \in resumed
      BY <2>1, <2>2 DEF Informed
    <2> QED
      BY <1>1, <2>3 DEF EmitOn
  <1>2. CASE \A d \in Devices : ~EmitOn(d)
    <2>1. emitted' = emitted
      BY <1>2 DEF Next, WorkerStep, Connected, LoseClient, Announce, StartupFails, HandleEvent,
         Receive, Hangup, EmitNothing, Answer, Send, Enqueue, GiveUp, Offer, Resume, Pause, Remove,
         Disconnect, Tell
    <2> QED
      BY <2>1
  <1> QED
    BY <1>1, <1>2

(* With no device event unread an emitted event takes effect. *)
THEOREM EmittedInEffect == Spec => EmittedTakesEffect
  <1>1. Init => Informed
    BY DEF Init, Informed
  <1>2. TypeOK /\ Informed /\ [Next]_vars => Informed'
    BY InformedStep
  <1>3. TypeOK /\ Informed /\ [Next]_vars =>
          [inbox = <<>> => emitted' \ emitted \subseteq delivered']_vars
    BY EffectStep
  <1> QED
    BY <1>1, <1>2, <1>3, TypeCorrect, PTL DEF Spec, EmittedTakesEffect

ChannelVars == <<AskedFor, hand, emitted, Told>>

(* The event asked for is the awaited one. *)
LEMMA AskedForIs ==
    ASSUME OneAwaited
    PROVE  /\ \A e \in Events : pc[e] \in Waiting => AskedFor = e
           /\ (\A e \in Events : pc[e] \notin Waiting) => AskedFor = None
  BY DEF OneAwaited, Awaited, AskedFor

(* A step that changes no send, no request in hand and nothing emitted is not seen. *)
LEMMA Unseen ==
    ASSUME UNCHANGED <<pc, hand, emitted>>
    PROVE  UNCHANGED ChannelVars
  BY DEF ChannelVars, AskedFor, Told, Awaited

(* Each step of the connection is a step of the channel, or is not seen by it. *)
LEMMA StepRefines ==
    ASSUME IInv, IInv', [Next]_vars
    PROVE  Channel!Next \/ UNCHANGED ChannelVars
  <1> USE DEF IInv, TypeOK, vars, clientVars, viewVars, workVars, compositorVars
  <1> DEFINE waits(e) == pc[e] \in Waiting
  <1>0. /\ \A e \in Events : waits(e) => AskedFor = e
        /\ (\A e \in Events : ~waits(e)) => AskedFor = None
        /\ \A e \in Events : waits(e)' => AskedFor' = e
        /\ (\A e \in Events : ~waits(e)') => AskedFor' = None
    <2>1. (\A e \in Events : waits(e) => AskedFor = e)
          /\ ((\A e \in Events : ~waits(e)) => AskedFor = None)
      BY AskedForIs
    <2>2. (\A e \in Events : waits(e)' => AskedFor' = e)
          /\ ((\A e \in Events : ~waits(e)') => AskedFor' = None)
      BY DEF OneAwaited, Awaited, AskedFor
    <2> QED
      BY <2>1, <2>2
  <1>1. CASE UNCHANGED vars \/ Connected \/ LoseClient \/ Announce \/ StartupFails \/ HandleEvent
             \/ Hangup \/ EmitNothing
    BY <1>1, Unseen DEF Connected, LoseClient, Announce, StartupFails, HandleEvent, Hangup, EmitNothing
  <1>2. ASSUME NEW d \in Devices,
               Offer(d) \/ Resume(d) \/ Pause(d) \/ Remove(d) \/ Disconnect(d)
        PROVE  UNCHANGED ChannelVars
    BY <1>2, Unseen DEF Offer, Resume, Pause, Remove, Disconnect, Tell
  <1>3. ASSUME NEW e \in Events, Send(e)
        PROVE  Channel!Ask(e)
    <2>1. AskedFor = None /\ AskedFor' = e
      BY <1>0, <1>3 DEF Send, Awaited, Waiting
    <2>2. Told[e] = "none" /\ Told' = Told
      BY <1>3 DEF Send, Told, Outcomes
    <2> QED
      BY <1>3, <2>1, <2>2 DEF Send, Channel!Ask
  <1>4. ASSUME NEW e \in Events, Enqueue(e)
        PROVE  UNCHANGED ChannelVars
    <2>1. AskedFor = e /\ AskedFor' = e
      BY <1>0, <1>4 DEF Enqueue, Waiting
    <2>2. Told' = Told
      BY <1>4 DEF Enqueue, Told, Outcomes
    <2> QED
      BY <1>4, <2>1, <2>2 DEF Enqueue, ChannelVars
  <1>5. ASSUME NEW e \in Events, GiveUp(e)
        PROVE  Channel!Answer("unknown")
    <2>1. AskedFor = e
      BY <1>0, <1>5 DEF GiveUp
    <2>2. AskedFor' = None
      <3>1. \A f \in Events : f # e => pc[f] \notin Waiting
        BY <1>5 DEF GiveUp, OneAwaited, Awaited
      <3> QED
        BY <1>0, <1>5, <3>1 DEF GiveUp, Waiting
    <2>3. Told' = [Told EXCEPT ![e] = "unknown"]
      BY <1>5 DEF GiveUp, Told, Outcomes
    <2> QED
      BY <1>5, <2>1, <2>2, <2>3, EisAssumption DEF GiveUp, Channel!Answer
  <1>6. CASE Receive
    <2>1. PICK e \in Events : queue = <<e>>
      BY <1>6 DEF Receive
    <2>2. hand = None /\ hand' = (IF pc[e] = "queued" THEN e ELSE None)
      BY <1>6, <2>1 DEF Receive
    <2>3. Told' = Told /\ AskedFor' = AskedFor /\ emitted' = emitted
      BY <1>6 DEF Receive, Told, AskedFor, Awaited
    <2>4. CASE pc[e] = "queued"
      <3>1. AskedFor = e /\ e # None /\ e \notin emitted
        BY <1>0, <2>1, <2>4, EisAssumption DEF Waiting, Emitted
      <3> QED
        BY <2>2, <2>3, <2>4, <3>1 DEF Channel!Take, Channel!Next
    <2>5. CASE pc[e] # "queued"
      BY <2>2, <2>3, <2>5 DEF ChannelVars
    <2> QED
      BY <2>4, <2>5
  <1>7. ASSUME NEW d \in Devices, EmitOn(d)
        PROVE  Channel!Emit \/ UNCHANGED ChannelVars
    <2>1. Told' = Told /\ AskedFor' = AskedFor /\ hand' = hand
      BY <1>7 DEF EmitOn, Told, AskedFor, Awaited
    <2>2. hand # None /\ hand \notin emitted /\ emitted' \in {emitted, emitted \cup {hand}}
      BY <1>7 DEF EmitOn, ResultTrue
    <2> QED
      BY <2>1, <2>2 DEF Channel!Emit, ChannelVars
  <1>8. CASE Answer
    <2>1. hand \in Events /\ hand # None /\ result \in Outcomes /\ hand' = None
      BY <1>8 DEF Answer
    <2>2. CASE pc[hand] = "queued"
      <3>1. AskedFor = hand
        BY <1>0, <2>1, <2>2 DEF Waiting
      <3>2. AskedFor' = None
        <4>1. \A f \in Events : f # hand => pc[f] \notin Waiting
          BY <2>1, <2>2 DEF OneAwaited, Awaited, Waiting
        <4>2. pc' = [pc EXCEPT ![hand] = result]
          BY <1>8, <2>2 DEF Answer
        <4>3. \A f \in Events : ~waits(f)'
          BY <2>1, <4>1, <4>2 DEF Waiting, Outcomes
        <4> QED
          BY <1>0, <4>3
      <3>3. Told' = [Told EXCEPT ![hand] = result]
        BY <1>8, <2>1, <2>2 DEF Answer, Told, Outcomes
      <3>4. /\ result = "ok" => hand \in emitted
            /\ result = "refused" => hand \notin emitted
        BY <2>1 DEF ResultTrue
      <3>5. emitted' = emitted
        BY <1>8 DEF Answer
      <3>6. Channel!Answer(result)
        BY <2>1, <3>1, <3>2, <3>3, <3>4, <3>5 DEF Channel!Answer
      <3> QED
        BY <2>1, <3>6 DEF Channel!Next, Channel!Answers, Outcomes
    <2>3. CASE pc[hand] # "queued"
      <3>1. pc' = pc
        BY <1>8, <2>1, <2>3 DEF Answer
      <3>2. Told' = Told /\ emitted' = emitted
        BY <1>8, <3>1 DEF Answer, Told
      <3>3. AskedFor' = AskedFor
        BY <3>1 DEF AskedFor, Awaited
      <3> QED
        BY <2>1, <3>2, <3>3 DEF Channel!Drop, Channel!Next
    <2> QED
      BY <2>2, <2>3
  <1> QED
    BY <1>1, <1>2, <1>3, <1>4, <1>5, <1>6, <1>7, <1>8
       DEF Next, WorkerStep, Channel!Next, Channel!Answers

(* The queue, the time limits and the thread together are a channel that takes only
   what somebody waits for. *)
THEOREM ChannelImplemented == Spec => ImplementsEventChannel
  <1>1. Init => Channel!Init
    BY EisAssumption DEF Init, Channel!Init, AskedFor, Told, Awaited, Waiting, Outcomes
  <1>2. IInv /\ IInv' /\ [Next]_vars => [Channel!Next]_ChannelVars
    BY StepRefines
  <1> QED
    BY <1>1, <1>2, Invariance, PTL DEF Spec, ImplementsEventChannel, Channel!Spec, ChannelVars

-----------------------------------------------------------------------------
(***************************************************************************)
(* KdeClipboard.  Klipper takes its messages in order, so once the read of *)
(* a paste is answered nothing an earlier call left on its way can come    *)
(* any more (Queued); while no other paste runs and the user copies        *)
(* nothing, the text that was set is what the application reads (Shown).   *)
(***************************************************************************)

Stages == Calling \cup {"idle", "read", "ambiguous", "set", "settling", "typing", "done"}

ClipTyped ==
    /\ stage \in [Pastes -> Stages]
    /\ sent \in [Pastes -> Nat]
    /\ klipper \in Seq(KlipperCalls)
    /\ pasting \in [Pastes -> BOOLEAN]
    /\ pasted \in [Pastes -> Contents \cup {NoText}]
    /\ previous \in [Pastes -> Contents] /\ clipboard \in Contents
    /\ disturbed \in BOOLEAN /\ copied \in 0..MaxCopies

SentOnce ==
    \A p \in Pastes :
        sent[p] <= IF stage[p] \in {"settling", "restoring", "done"} THEN 1 ELSE 0

Message(p, s) == [by |-> p, step |-> s]

Queued(p) ==
    /\ stage[p] = "idle" => \A i \in 1..Len(klipper) : klipper[i].by # p
    /\ stage[p] = "reading" =>
         /\ klipper # <<>> /\ klipper[Len(klipper)] = Message(p, "reading")
         /\ \A i \in 1..Len(klipper) - 1 : klipper[i].by # p
    /\ stage[p] = "setting" => klipper = <<Message(p, "setting")>>
    /\ stage[p] \in {"read", "set", "settling"} => klipper = <<>>

Shown(p) ==
    /\ stage[p] \in {"set", "settling"} => clipboard = p
    /\ pasting[p] => stage[p] = "settling"
    /\ pasted[p] \in {NoText, p}

Alone ==
    /\ \A p, q \in Pastes : ~PasteOver(p) /\ ~PasteOver(q) => p = q
    /\ \A p \in Pastes : Queued(p) /\ Shown(p)

ClipInv == ClipTyped /\ SentOnce /\ (~disturbed => Alone)

LEMMA ClipInitInv == ClipInit => ClipInv
  <1> SUFFICES ASSUME ClipInit PROVE ClipInv
    OBVIOUS
  <1>1. ClipTyped
    <2>1. 0 \in 0..MaxCopies /\ 0 \in Contents
      BY ClipboardAssumption DEF Contents
    <2>2. klipper \in Seq(KlipperCalls)
      BY DEF ClipInit
    <2>3. /\ stage \in [Pastes -> Stages] /\ previous \in [Pastes -> Contents]
          /\ pasted \in [Pastes -> Contents \cup {NoText}]
      BY <2>1 DEF ClipInit, Stages
    <2> QED
      BY <2>1, <2>2, <2>3 DEF ClipInit, ClipTyped
  <1>2. SentOnce /\ Alone
    BY DEF ClipInit, SentOnce, Alone, Queued, Shown, PasteOver
  <1> QED
    BY <1>1, <1>2 DEF ClipInv

(* Messages before the last stay ahead of a new one, and what is left of the queue was *)
(* there before.                                                                       *)
LEMMA QueueGrows ==
    ASSUME ClipTyped, NEW m \in KlipperCalls
    PROVE  /\ Append(klipper, m) \in Seq(KlipperCalls)
           /\ Len(Append(klipper, m)) = Len(klipper) + 1 /\ Len(klipper) \in Nat
           /\ Append(klipper, m)[Len(klipper) + 1] = m
           /\ \A i \in 1..Len(klipper) : Append(klipper, m)[i] = klipper[i]
  BY DEF ClipTyped

LEMMA QueueShrinks ==
    ASSUME ClipTyped, klipper # <<>>
    PROVE  /\ Tail(klipper) \in Seq(KlipperCalls) /\ Head(klipper) \in KlipperCalls
           /\ Len(klipper) \in Nat \ {0} /\ Len(Tail(klipper)) = Len(klipper) - 1
           /\ Head(klipper) = klipper[1]
           /\ \A i \in 1..Len(klipper) - 1 : Tail(klipper)[i] = klipper[i + 1]
           /\ Len(klipper) = 1 => Tail(klipper) = <<>>
  <1>1. klipper \in Seq(KlipperCalls)
    BY DEF ClipTyped
  <1>2. /\ Tail(klipper) \in Seq(KlipperCalls) /\ Head(klipper) \in KlipperCalls
        /\ Len(klipper) \in Nat \ {0} /\ Len(Tail(klipper)) = Len(klipper) - 1
        /\ Head(klipper) = klipper[1]
        /\ \A i \in 1..Len(klipper) - 1 : Tail(klipper)[i] = klipper[i + 1]
    BY <1>1
  <1>3. ASSUME Len(klipper) = 1 PROVE Tail(klipper) = <<>>
    <2> DEFINE rest == Tail(klipper)
    <2>1. rest \in Seq(KlipperCalls) /\ Len(rest) = 0
      BY <1>2, <1>3
    <2> HIDE DEF rest
    <2>2. rest = <<>>
      BY <2>1
    <2> QED
      BY <2>2 DEF rest
  <1> QED
    BY <1>2, <1>3

(* What becomes of a message of p. *)
LEMMA Answered ==
    ASSUME NEW p, NEW s, Head(klipper).by = p, Head(klipper).step = s
    PROVE  /\ KlipperServes =>
                /\ stage' = [stage EXCEPT ![p] = IF stage[p] = s THEN OnAnswer(s) ELSE stage[p]]
                /\ clipboard' = IF s = "reading" THEN clipboard
                                ELSE IF s = "setting" THEN p ELSE previous[p]
           /\ KlipperRefuses =>
                /\ IF stage[p] = s THEN stage' = [stage EXCEPT ![p] = OnFailure(s)]
                   ELSE stage' = stage
                /\ clipboard' = clipboard
  BY DEF KlipperServes, KlipperRefuses, Value, Enter, desktopVars

(* A step of one paste that leaves the queue and the clipboard, or that disturbs. *)
LEMMA Proceeds ==
    ASSUME ClipInv, NEW p \in Pastes, NEW s \in Stages \ {"idle", "reading", "setting"},
           Enter(p, s), klipper' = klipper, clipboard' = clipboard, pasted' = pasted,
           ~PasteOver(p), disturbed' = disturbed,
           s \in {"read", "set", "settling"} => klipper = <<>>,
           s \in {"set", "settling"} /\ ~disturbed => clipboard = p,
           \A q \in Pastes : q # p => pasting'[q] = pasting[q],
           ~disturbed /\ pasting'[p] => s = "settling"
    PROVE  ~disturbed' => Alone'
  <1> SUFFICES ASSUME ~disturbed PROVE Alone'
    OBVIOUS
  <1>1. Alone /\ \A q \in Pastes : stage'[q] = IF q = p THEN s ELSE stage[q]
    BY DEF ClipInv, Enter, ClipTyped
  <1>2. \A q, r \in Pastes : ~PasteOver(q)' /\ ~PasteOver(r)' => q = r
    BY <1>1 DEF Alone, PasteOver
  <1>3. \A q \in Pastes : Queued(q)'
    BY <1>1 DEF Alone, Queued
  <1>4. \A q \in Pastes : Shown(q)'
    BY <1>1 DEF Alone, Shown
  <1> QED
    BY <1>2, <1>3, <1>4 DEF Alone

LEMMA ClipTypeStep ==
    ASSUME ClipTyped, ClipNext
    PROVE  ClipTyped'
  <1>0. /\ Calling \subseteq Stages /\ 0..MaxCopies \subseteq Contents
        /\ Pastes \subseteq Contents
        /\ \A p \in Pastes, s \in Calling : Message(p, s) \in KlipperCalls
    BY DEF Stages, Contents, KlipperCalls, Message
  <1>1. ASSUME NEW p \in Pastes, NEW s \in Stages, Enter(p, s)
        PROVE  stage' \in [Pastes -> Stages]
    BY <1>1 DEF Enter, ClipTyped
  <1>2. ASSUME NEW p \in Pastes, NEW s \in Calling, AskKlipper(p, s)
        PROVE  stage' \in [Pastes -> Stages] /\ klipper' \in Seq(KlipperCalls)
    <2>1. Message(p, s) \in KlipperCalls /\ klipper' = Append(klipper, Message(p, s))
      BY <1>0, <1>2 DEF AskKlipper, Message
    <2> QED
      BY <1>0, <1>1, <1>2, <2>1, QueueGrows DEF AskKlipper
  <1>3. \A s \in Calling : OnFailure(s) \in Stages /\ OnAnswer(s) \in Stages
    BY DEF OnFailure, OnAnswer, Stages, Calling
  <1>4. CASE \E p \in Pastes : BeginPaste(p)
    <2>1. PICK p \in Pastes : BeginPaste(p)
      BY <1>4
    <2>2. stage' \in [Pastes -> Stages] /\ klipper' \in Seq(KlipperCalls)
      BY <1>2, <2>1 DEF BeginPaste, Calling
    <2>3. disturbed' \in BOOLEAN
      BY <2>1 DEF BeginPaste, ClipTyped
    <2> QED
      BY <2>1, <2>2, <2>3 DEF BeginPaste, ClipTyped, pasteVars, desktopVars
  <1>5. CASE \E p \in Pastes : CallTimesOut(p)
    <2>1. PICK p \in Pastes : CallTimesOut(p)
      BY <1>5
    <2>2. stage' \in [Pastes -> Stages]
      BY <1>1, <1>3, <2>1 DEF CallTimesOut
    <2> QED
      BY <2>1, <2>2 DEF CallTimesOut, ClipTyped, desktopVars
  <1>6. CASE \E p \in Pastes : SetText(p) \/ Undo(p)
    <2>1. PICK p \in Pastes : SetText(p) \/ Undo(p)
      BY <1>6
    <2>2. stage' \in [Pastes -> Stages] /\ klipper' \in Seq(KlipperCalls)
      BY <1>2, <2>1 DEF SetText, Undo, Calling
    <2> QED
      BY <2>1, <2>2 DEF SetText, Undo, ClipTyped, pasteVars, desktopVars
  <1>7. CASE \E p \in Pastes : Chord(p)
    <2>1. PICK p \in Pastes : Chord(p)
      BY <1>7
    <2>2. PICK landed \in BOOLEAN :
            /\ Enter(p, "settling")
            /\ pasting' = [pasting EXCEPT ![p] = landed]
            /\ sent' = [sent EXCEPT ![p] = IF landed THEN @ + 1 ELSE @]
      BY <2>1 DEF Chord, AfterChord
    <2>3. stage' \in [Pastes -> Stages]
      BY <1>1, <2>2 DEF Stages
    <2>4. pasting' \in [Pastes -> BOOLEAN] /\ sent' \in [Pastes -> Nat]
      BY <2>2 DEF ClipTyped
    <2> QED
      BY <2>1, <2>3, <2>4 DEF Chord, ClipTyped
  <1>8. CASE \E p \in Pastes : Restore(p)
    <2>1. PICK p \in Pastes : Restore(p)
      BY <1>8
    <2>2. stage' \in [Pastes -> Stages] /\ klipper' \in Seq(KlipperCalls)
      BY <1>2, <2>1 DEF Restore, Calling
    <2>3. disturbed' \in BOOLEAN
      <3>1. disturbed \in BOOLEAN /\ pasting[p] \in BOOLEAN
        BY DEF ClipTyped
      <3> QED
        BY <2>1, <3>1 DEF Restore
    <2> QED
      BY <2>1, <2>2, <2>3 DEF Restore, ClipTyped, pasteVars, desktopVars
  <1>9. CASE \E p \in Pastes : TypeInstead(p)
    <2>1. PICK p \in Pastes : TypeInstead(p)
      BY <1>9
    <2>2. stage' \in [Pastes -> Stages]
      BY <1>1, <2>1 DEF TypeInstead, Stages
    <2>3. sent' \in [Pastes -> Nat]
      <3>1. sent' = sent \/ sent' = [sent EXCEPT ![p] = @ + 1]
        BY <2>1 DEF TypeInstead
      <3> QED
        BY <3>1 DEF ClipTyped
    <2> QED
      BY <2>1, <2>2, <2>3 DEF TypeInstead, ClipTyped, desktopVars
  <1>10. CASE \E p \in Pastes : ApplicationReads(p)
    BY <1>10 DEF ApplicationReads, ClipTyped, pasteVars
  <1>11. CASE \E p \in Pastes : ServerExits(ServerOf[p])
    <2>1. PICK s : ServerExits(s)
      BY <1>11
    <2>2. stage' \in [Pastes -> Stages]
      BY <2>1 DEF ServerExits, ClipTyped, Stages
    <2> QED
      BY <2>1, <2>2 DEF ServerExits, ClipTyped, pasteVars, desktopVars
  <1>12. CASE KlipperServes
    <2> DEFINE m == Head(klipper)
    <2>1. /\ klipper # <<>> /\ klipper' = Tail(klipper) /\ m \in KlipperCalls
          /\ klipper' \in Seq(KlipperCalls)
      BY <1>12, QueueShrinks DEF KlipperServes
    <2>2. m.by \in Pastes /\ m.step \in Calling
      BY <2>1 DEF KlipperCalls
    <2>3. /\ stage' = [stage EXCEPT ![m.by] = IF stage[m.by] = m.step THEN OnAnswer(m.step) ELSE @]
          /\ previous' = [previous EXCEPT ![m.by] =
                IF stage[m.by] = m.step /\ m.step = "reading" THEN clipboard ELSE @]
          /\ clipboard' \in {clipboard, m.by, previous[m.by]}
      BY <1>12 DEF KlipperServes, Value
    <2> HIDE DEF m
    <2>4. stage' \in [Pastes -> Stages] /\ previous' \in [Pastes -> Contents]
      BY <1>3, <2>2, <2>3 DEF ClipTyped
    <2>5. clipboard' \in Contents
      BY <1>0, <2>2, <2>3 DEF ClipTyped
    <2> QED
      BY <1>12, <2>1, <2>4, <2>5 DEF KlipperServes, ClipTyped
  <1>13. CASE KlipperRefuses
    <2>1. /\ klipper # <<>> /\ klipper' = Tail(klipper) /\ Head(klipper) \in KlipperCalls
          /\ klipper' \in Seq(KlipperCalls)
      BY <1>13, QueueShrinks DEF KlipperRefuses
    <2>2. stage' \in [Pastes -> Stages]
      BY <1>1, <1>3, <1>13, <2>1 DEF KlipperRefuses, KlipperCalls, ClipTyped
    <2> QED
      BY <1>13, <2>1, <2>2 DEF KlipperRefuses, ClipTyped, desktopVars
  <1>14. CASE UserCopies
    <2>1. copied' \in 0..MaxCopies /\ clipboard' \in Contents
      BY <1>14, ClipboardAssumption DEF UserCopies, ClipTyped, Contents
    <2>2. disturbed' \in BOOLEAN
      BY <1>14 DEF UserCopies, ClipTyped
    <2> QED
      BY <1>14, <2>1, <2>2 DEF UserCopies, ClipTyped, pasteVars
  <1> QED
    BY <1>4, <1>5, <1>6, <1>7, <1>8, <1>9, <1>10, <1>11, <1>12, <1>13, <1>14
    DEF ClipNext, PasteStep

LEMMA SentStep ==
    ASSUME ClipTyped, SentOnce, ClipNext
    PROVE  SentOnce'
  <1> DEFINE Many(s) == IF s \in {"settling", "restoring", "done"} THEN 1 ELSE 0
  <1>1. ASSUME sent' = sent, \A p \in Pastes : Many(stage[p]) <= Many(stage'[p])
        PROVE  SentOnce'
    BY <1>1 DEF SentOnce, ClipTyped
  <1>2. CASE \E p \in Pastes : BeginPaste(p) \/ CallTimesOut(p) \/ SetText(p) \/ Undo(p) \/ Restore(p)
    <2>1. \A p \in Pastes : Many(stage[p]) <= Many(stage'[p])
      BY <1>2 DEF BeginPaste, CallTimesOut, SetText, Undo, Restore, AskKlipper, Enter, ClipTyped,
                  OnFailure, Calling
    <2>2. sent' = sent
      BY <1>2 DEF BeginPaste, CallTimesOut, SetText, Undo, Restore, pasteVars
    <2> QED
      BY <1>1, <2>1, <2>2
  <1>3. CASE \E p \in Pastes : Chord(p) \/ TypeInstead(p)
    <2>1. PICK p \in Pastes : Chord(p) \/ TypeInstead(p)
      BY <1>3
    <2>2. /\ stage[p] \in {"set", "typing"}
          /\ \E s \in {"settling", "done"} : stage' = [stage EXCEPT ![p] = s]
          /\ sent' = sent \/ sent' = [sent EXCEPT ![p] = @ + 1]
      BY <2>1 DEF Chord, TypeInstead, AfterChord, Enter, ClipTyped
    <2>3. sent[p] = 0 /\ sent' \in [Pastes -> Nat] /\ sent'[p] <= 1
      BY <2>2 DEF SentOnce, ClipTyped
    <2>4. /\ stage'[p] \in {"settling", "done"}
          /\ \A q \in Pastes \ {p} : stage'[q] = stage[q] /\ sent'[q] = sent[q]
      BY <2>2 DEF ClipTyped
    <2> QED
      BY <2>3, <2>4 DEF SentOnce
  <1>4. CASE \E p \in Pastes : ApplicationReads(p) \/ ServerExits(ServerOf[p])
    <2>1. \A p \in Pastes : stage'[p] \in {stage[p], "done"}
      BY <1>4 DEF ApplicationReads, ServerExits, ClipTyped
    <2>2. sent' = sent
      BY <1>4 DEF ApplicationReads, ServerExits, pasteVars
    <2> QED
      BY <1>1, <2>1, <2>2
  <1>5. CASE KlipperServes \/ KlipperRefuses
    <2>1. klipper # <<>> /\ Head(klipper) \in KlipperCalls /\ sent' = sent
      BY <1>5, QueueShrinks DEF KlipperServes, KlipperRefuses
    <2>2. PICK q \in Pastes, s \in Calling : Head(klipper) = [by |-> q, step |-> s]
      BY <2>1 DEF KlipperCalls
    <2>3. Head(klipper).by = q /\ Head(klipper).step = s
      BY <2>2
    <2>4. /\ \A p \in Pastes \ {q} : stage'[p] = stage[p]
          /\ IF stage[q] = s THEN stage'[q] \in {OnAnswer(s), OnFailure(s)}
             ELSE stage'[q] = stage[q]
      <3>1. CASE KlipperServes
        <4>1. stage' = [stage EXCEPT ![q] = IF stage[q] = s THEN OnAnswer(s) ELSE stage[q]]
          BY <2>3, <3>1, Answered
        <4>2. /\ \A p \in Pastes \ {q} : stage'[p] = stage[p]
              /\ stage'[q] = IF stage[q] = s THEN OnAnswer(s) ELSE stage[q]
          BY <4>1 DEF ClipTyped
        <4> QED
          BY <4>2
      <3>2. CASE KlipperRefuses
        <4>1. IF stage[q] = s THEN stage' = [stage EXCEPT ![q] = OnFailure(s)] ELSE stage' = stage
          BY <2>3, <3>2, Answered
        <4>2. /\ \A p \in Pastes \ {q} : stage'[p] = stage[p]
              /\ stage'[q] = IF stage[q] = s THEN OnFailure(s) ELSE stage[q]
          BY <4>1 DEF ClipTyped
        <4> QED
          BY <4>2
      <3> QED
        BY <1>5, <3>1, <3>2
    <2>5. Many(s) <= Many(OnAnswer(s)) /\ Many(s) <= Many(OnFailure(s))
      BY DEF OnAnswer, OnFailure, Calling
    <2> QED
      BY <1>1, <2>1, <2>4, <2>5
  <1>6. CASE UserCopies
    BY <1>1, <1>6 DEF UserCopies, pasteVars
  <1> QED
    BY <1>2, <1>3, <1>4, <1>5, <1>6 DEF ClipNext, PasteStep

(* A call to Klipper: what is on its way before it belongs to other pastes, or there is *)
(* nothing.                                                                             *)
LEMMA Asks ==
    ASSUME ClipInv, NEW p \in Pastes, NEW s \in Calling, AskKlipper(p, s), Alone,
           \/ s = "reading" /\ stage[p] = "idle" /\ \A q \in Pastes : PasteOver(q)
           \/ s = "setting" /\ stage[p] = "read"
           \/ s \in {"undoing", "restoring"} /\ ~PasteOver(p) /\ ~pasting[p],
           UNCHANGED desktopVars
    PROVE  Alone'
  <1>1. /\ \A q \in Pastes : stage'[q] = IF q = p THEN s ELSE stage[q]
        /\ klipper' = Append(klipper, Message(p, s)) /\ Message(p, s) \in KlipperCalls
        /\ UNCHANGED <<clipboard, pasting, pasted>>
        /\ s \in {"reading", "setting", "undoing", "restoring"}
    BY DEF ClipInv, AskKlipper, Enter, ClipTyped, Message, KlipperCalls, desktopVars, Calling
  <1>2. ASSUME NEW q \in Pastes, q # p PROVE PasteOver(q) /\ PasteOver(q)'
    BY <1>1, <1>2 DEF Alone, PasteOver
  <1>3. \A q, r \in Pastes : ~PasteOver(q)' /\ ~PasteOver(r)' => q = r
    BY <1>2
  <1>4. /\ Len(klipper) \in Nat /\ Len(klipper') = Len(klipper) + 1 /\ klipper' \in Seq(KlipperCalls)
        /\ klipper'[Len(klipper) + 1] = Message(p, s)
        /\ \A i \in 1..Len(klipper) : klipper'[i] = klipper[i]
    BY <1>1, QueueGrows DEF ClipInv
  <1>5. ASSUME NEW q \in Pastes, q # p PROVE Queued(q)'
    <2>1. Queued(q) /\ (stage'[q] = "idle" \/ stage'[q] = "done") /\ stage'[q] = stage[q]
      BY <1>1, <1>2, <1>5 DEF Alone, PasteOver
    <2>2. \A i \in 1..Len(klipper') : i \in 1..Len(klipper) \/ i = Len(klipper) + 1
      BY <1>4
    <2>3. Message(p, s).by # q
      BY <1>5 DEF Message
    <2> QED
      BY <1>4, <2>1, <2>2, <2>3 DEF Queued
  <1>6. Queued(p)'
    <2>1. CASE s = "reading"
      <3>1. \A i \in 1..Len(klipper) : klipper[i].by # p
        BY <2>1 DEF Alone, Queued
      <3> QED
        BY <1>1, <1>4, <2>1, <3>1 DEF Queued
    <2>2. CASE s = "setting"
      <3>1. klipper = <<>>
        BY <2>2 DEF Alone, Queued
      <3> QED
        BY <1>1, <2>2, <3>1 DEF Queued
    <2>3. CASE s \in {"undoing", "restoring"}
      BY <1>1, <2>3 DEF Queued
    <2> QED
      BY <1>1, <2>1, <2>2, <2>3
  <1>7. \A q \in Pastes : Shown(q)'
    <2>1. \A q \in Pastes : Shown(q) /\ (pasting[q] => stage[q] = "settling")
      BY DEF Alone, Shown
    <2>2. ~pasting[p]
      BY <2>1 DEF PasteOver
    <2> QED
      BY <1>1, <2>1, <2>2 DEF Shown
  <1> QED
    BY <1>3, <1>5, <1>6, <1>7 DEF Alone

(* Klipper takes a message: the answer that is awaited is for the last one. *)
LEMMA Takes ==
    ASSUME ClipInv, Alone, KlipperServes \/ KlipperRefuses
    PROVE  Alone'
  <1>1. /\ ClipTyped /\ klipper # <<>> /\ klipper' = Tail(klipper)
        /\ UNCHANGED <<pasting, pasted>>
    BY DEF ClipInv, KlipperServes, KlipperRefuses, desktopVars
  <1>2. /\ klipper' \in Seq(KlipperCalls) /\ Head(klipper) \in KlipperCalls
        /\ Len(klipper) \in Nat \ {0} /\ Len(klipper') = Len(klipper) - 1
        /\ Head(klipper) = klipper[1]
        /\ \A i \in 1..Len(klipper) - 1 : klipper'[i] = klipper[i + 1]
        /\ Len(klipper) = 1 => klipper' = <<>>
    BY <1>1, QueueShrinks
  <1>3. PICK p \in Pastes, s \in Calling : Head(klipper) = Message(p, s)
    BY <1>2 DEF KlipperCalls, Message
  <1>4. /\ Message(p, s).by = p /\ Message(p, s).step = s
        /\ \A q, t : Message(q, t) = Message(p, s) => q = p /\ t = s
    BY DEF Message
  <1>5. /\ \A q \in Pastes \ {p} : stage'[q] = stage[q]
        /\ IF stage[p] = s
           THEN stage'[p] \in {OnAnswer(s), OnFailure(s)}
           ELSE stage'[p] = stage[p]
        /\ stage'[p] = "set" /\ stage[p] = s => clipboard' = p
    <2>1. CASE KlipperServes
      <3>1. /\ stage' = [stage EXCEPT ![p] = IF stage[p] = s THEN OnAnswer(s) ELSE stage[p]]
            /\ clipboard' = IF s = "reading" THEN clipboard
                            ELSE IF s = "setting" THEN p ELSE previous[p]
        BY <1>3, <1>4, <2>1, Answered
      <3>2. /\ \A q \in Pastes \ {p} : stage'[q] = stage[q]
            /\ stage'[p] = IF stage[p] = s THEN OnAnswer(s) ELSE stage[p]
        BY <1>1, <3>1 DEF ClipTyped
      <3>3. OnAnswer(s) = "set" => s = "setting"
        BY DEF OnAnswer, Calling
      <3> QED
        BY <3>1, <3>2, <3>3
    <2>2. CASE KlipperRefuses
      <3>1. /\ IF stage[p] = s THEN stage' = [stage EXCEPT ![p] = OnFailure(s)]
               ELSE stage' = stage
            /\ clipboard' = clipboard
        BY <1>3, <1>4, <2>2, Answered
      <3>2. /\ \A q \in Pastes \ {p} : stage'[q] = stage[q]
            /\ stage'[p] = IF stage[p] = s THEN OnFailure(s) ELSE stage[p]
        BY <1>1, <3>1 DEF ClipTyped
      <3>3. OnFailure(s) # "set"
        BY DEF OnFailure, Calling
      <3> QED
        BY <3>1, <3>2, <3>3
    <2> QED
      BY <2>1, <2>2
  <1>6. s \in {"reading", "setting", "undoing", "restoring"}
    BY DEF Calling
  <1>7. \A q \in Pastes : Queued(q) /\ Shown(q)
    BY DEF Alone
  <1>8. CASE stage[p] = s
    <2>1. ASSUME NEW q \in Pastes, q # p PROVE PasteOver(q) /\ PasteOver(q)'
      BY <1>5, <1>6, <1>8, <2>1 DEF Alone, PasteOver
    <2>2. stage'[p] \notin {"idle", "reading", "setting"}
      BY <1>5, <1>6, <1>8 DEF OnAnswer, OnFailure
    <2>3. s = "reading" \/ s = "setting" => klipper' = <<>>
      BY <1>2, <1>3, <1>4, <1>7, <1>8 DEF Queued
    <2>4. s \in {"undoing", "restoring"} => stage'[p] = "done"
      BY <1>5, <1>8 DEF OnAnswer, OnFailure
    <2>5. Queued(p)'
      BY <1>6, <2>2, <2>3, <2>4 DEF Queued
    <2>6. ASSUME NEW q \in Pastes, q # p PROVE Queued(q)'
      BY <1>2, <1>5, <1>7, <2>1, <2>6 DEF Queued, PasteOver
    <2>7. ASSUME NEW q \in Pastes, q # p PROVE Shown(q)'
      BY <1>1, <1>5, <1>7, <2>1, <2>7 DEF Shown, PasteOver
    <2>8. Shown(p)'
      <3>1. ~pasting[p] /\ pasted[p] \in {NoText, p}
        BY <1>6, <1>7, <1>8 DEF Shown
      <3>2. stage'[p] # "settling"
        BY <1>5, <1>6, <1>8 DEF OnAnswer, OnFailure
      <3> QED
        BY <1>1, <1>5, <1>8, <3>1, <3>2 DEF Shown
    <2>9. \A q, r \in Pastes : ~PasteOver(q)' /\ ~PasteOver(r)' => q = r
      BY <2>1
    <2> QED
      BY <2>5, <2>6, <2>7, <2>8, <2>9 DEF Alone
  <1>9. CASE stage[p] # s
    <2>1. \A q \in Pastes : stage'[q] = stage[q]
      BY <1>5, <1>9
    <2>2. ASSUME NEW q \in Pastes PROVE Queued(q)' /\ stage[q] \notin {"read", "setting", "set", "settling"}
      <3>1. stage[q] \notin {"read", "set", "settling"}
        BY <1>1, <1>7 DEF Queued
      <3>2. stage[q] # "setting"
        BY <1>2, <1>3, <1>4, <1>7, <1>9 DEF Queued
      <3>3. CASE stage[q] = "reading"
        <4>1. Len(klipper) > 1
          BY <1>2, <1>3, <1>4, <1>7, <1>9, <3>3 DEF Queued
        <4>2. klipper'[Len(klipper')] = Message(q, "reading") /\ klipper' # <<>>
          BY <1>2, <1>7, <3>3, <4>1 DEF Queued
        <4>3. \A i \in 1..Len(klipper') - 1 : klipper'[i].by # q
          BY <1>2, <1>7, <3>3, <4>1 DEF Queued
        <4> QED
          BY <2>1, <3>3, <4>2, <4>3 DEF Queued
      <3>4. CASE stage[q] = "idle"
        BY <1>2, <1>7, <2>1, <3>4 DEF Queued
      <3> QED
        BY <2>1, <3>1, <3>2, <3>3, <3>4 DEF Queued
    <2>3. \A q \in Pastes : Shown(q)'
      BY <1>1, <1>7, <2>1, <2>2 DEF Shown
    <2> QED
      BY <2>1, <2>2, <2>3 DEF Alone, PasteOver
  <1> QED
    BY <1>8, <1>9

LEMMA AloneStep ==
    ASSUME ClipInv, ClipNext, ~disturbed'
    PROVE  Alone'
  <1>1. /\ ClipTyped /\ SentOnce /\ ClipTyped'
        /\ stage \in [Pastes -> Stages]
    BY ClipTypeStep DEF ClipInv, ClipTyped
  <1>2. ~disturbed
    <2>1. disturbed => disturbed'
      BY DEF ClipNext, PasteStep, BeginPaste, CallTimesOut, SetText, Undo, Chord, Restore, TypeInstead,
             ApplicationReads, ServerExits, KlipperServes, KlipperRefuses, UserCopies
    <2> QED
      BY <2>1
  <1>3. Alone /\ \A q \in Pastes : Queued(q) /\ Shown(q)
    BY <1>2 DEF ClipInv, Alone
  <1>4. CASE \E p \in Pastes : BeginPaste(p)
    <2>1. PICK p \in Pastes : BeginPaste(p)
      BY <1>4
    <2>2. \A q \in Pastes : PasteOver(q)
      BY <2>1 DEF BeginPaste
    <2> QED
      BY <1>3, <2>1, <2>2, Asks DEF BeginPaste, Calling
  <1>5. CASE \E p \in Pastes : CallTimesOut(p)
    <2>1. PICK p \in Pastes : CallTimesOut(p)
      BY <1>5
    <2> DEFINE s == OnFailure(stage[p])
    <2>2. /\ s \in {"typing", "ambiguous", "done"} /\ stage[p] \in Calling
          /\ Enter(p, s) /\ klipper' = klipper /\ clipboard' = clipboard /\ pasted' = pasted
          /\ pasting' = pasting /\ disturbed' = disturbed
      BY <2>1 DEF CallTimesOut, OnFailure, desktopVars
    <2> HIDE DEF s
    <2>3. ~PasteOver(p) /\ ~pasting[p]
      BY <1>3, <2>2 DEF PasteOver, Shown, Calling
    <2> QED
      BY <2>2, <2>3, Proceeds DEF Stages
  <1>6. CASE \E p \in Pastes : SetText(p) \/ Undo(p) \/ Restore(p)
    <2>1. PICK p \in Pastes : SetText(p) \/ Undo(p) \/ Restore(p)
      BY <1>6
    <2>2. ~PasteOver(p) /\ (stage[p] # "settling" => ~pasting[p])
      BY <1>3, <2>1 DEF SetText, Undo, Restore, PasteOver, Shown
    <2>3. CASE SetText(p)
      BY <1>3, <2>3, Asks DEF SetText, Calling
    <2>4. CASE Undo(p)
      BY <1>3, <2>2, <2>4, Asks DEF Undo, Calling
    <2>5. CASE Restore(p)
      BY <1>3, <2>2, <2>5, Asks DEF Restore, Calling
    <2> QED
      BY <2>1, <2>3, <2>4, <2>5
  <1>7. CASE \E p \in Pastes : Chord(p)
    <2>1. PICK p \in Pastes : Chord(p)
      BY <1>7
    <2>2. /\ stage[p] = "set" /\ Enter(p, "settling") /\ klipper' = klipper
          /\ clipboard' = clipboard /\ pasted' = pasted /\ disturbed' = disturbed
          /\ \E landed \in BOOLEAN : pasting' = [pasting EXCEPT ![p] = landed]
      BY <2>1 DEF Chord, AfterChord
    <2>3. \A q \in Pastes : q # p => pasting'[q] = pasting[q]
      BY <2>2, <1>1 DEF ClipTyped
    <2>4. klipper = <<>> /\ clipboard = p /\ ~PasteOver(p)
      BY <1>3, <2>2 DEF Queued, Shown, PasteOver
    <2> QED
      BY <2>2, <2>3, <2>4, Proceeds DEF Stages
  <1>8. CASE \E p \in Pastes : TypeInstead(p)
    <2>1. PICK p \in Pastes : TypeInstead(p)
      BY <1>8
    <2>2. /\ stage[p] = "typing" /\ Enter(p, "done") /\ klipper' = klipper
          /\ clipboard' = clipboard /\ pasted' = pasted /\ pasting' = pasting
          /\ disturbed' = disturbed
      BY <2>1 DEF TypeInstead, desktopVars
    <2>3. ~PasteOver(p) /\ ~pasting[p]
      BY <1>3, <2>2 DEF PasteOver, Shown
    <2> QED
      BY <2>2, <2>3, Proceeds DEF Stages
  <1>9. CASE \E p \in Pastes : ApplicationReads(p)
    <2>1. PICK p \in Pastes : ApplicationReads(p)
      BY <1>9
    <2>2. /\ pasting[p] /\ stage' = stage /\ klipper' = klipper /\ clipboard' = clipboard
          /\ pasting' = [pasting EXCEPT ![p] = FALSE]
          /\ pasted' = [pasted EXCEPT ![p] = clipboard]
      BY <2>1 DEF ApplicationReads
    <2>3. clipboard = p
      BY <1>3, <2>2 DEF Shown
    <2>4. \A q \in Pastes : Shown(q)'
      BY <1>1, <1>3, <2>2, <2>3 DEF Shown, ClipTyped
    <2> QED
      BY <1>3, <2>2, <2>4 DEF Alone, Queued, PasteOver
  <1>10. CASE \E p \in Pastes : ServerExits(ServerOf[p])
    BY <1>10 DEF ServerExits
  <1>11. CASE KlipperServes \/ KlipperRefuses
    BY <1>3, <1>11, Takes
  <1>12. CASE UserCopies
    <2>1. /\ \A p \in Pastes : PasteOver(p)
          /\ UNCHANGED <<stage, klipper, pasting, pasted>>
      BY <1>12 DEF UserCopies
    <2>2. \A p \in Pastes : Shown(p)'
      BY <1>3, <2>1 DEF Shown, PasteOver
    <2> QED
      BY <1>3, <2>1, <2>2 DEF Alone, Queued, PasteOver
  <1> QED
    BY <1>4, <1>5, <1>6, <1>7, <1>8, <1>9, <1>10, <1>11, <1>12 DEF ClipNext, PasteStep

LEMMA ClipStep == ClipInv /\ [ClipNext]_clipVars => ClipInv'
  <1>1. ASSUME ClipInv, ClipNext PROVE ClipInv'
    BY <1>1, ClipTypeStep, SentStep, AloneStep DEF ClipInv
  <1>2. ASSUME ClipInv, UNCHANGED clipVars PROVE ClipInv'
    BY <1>2 DEF ClipInv, ClipTyped, SentOnce, Alone, Queued, Shown, PasteOver, clipVars, pasteVars,
                desktopVars
  <1> QED
    BY <1>1, <1>2

(* The safety half of PastesAndRestores, for any pastes, servers, copies and late messages *)
(* (replace_kde_clipboard, can_fallback_to_ydotool): a text is sent once at most, and what *)
(* the application pastes for a call is that call's text, unless it met what the code does *)
(* not protect it from.                                                                    *)
THEOREM OwnTextIsPasted == ClipSpec => []PastesItsText
  <1>1. ClipInv => PastesItsText
    <2> SUFFICES ASSUME ClipInv, NEW p \in Pastes
                 PROVE  sent[p] <= 1 /\ (pasted[p] \in {NoText, p} \/ disturbed)
      BY DEF PastesItsText
    <2>1. sent[p] <= 1
      BY DEF ClipInv, SentOnce, ClipTyped
    <2> QED
      BY <2>1 DEF ClipInv, Alone, Shown
  <1> QED
    BY <1>1, ClipInitInv, ClipStep, PTL DEF ClipSpec
=============================================================================
