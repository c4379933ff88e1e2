-------------------------------- MODULE EisInput --------------------------------
(***************************************************************************)
(* One EIS connection of a portal session (ei_input.rs): the future that   *)
(* connects and sends, the worker thread with its queue of one place, and  *)
(* the compositor that offers, resumes, pauses and removes devices.        *)
(*                                                                         *)
(* An event of Events is one call of send.  Senders hold the input lock    *)
(* of remote_desktop.rs, so one call awaits its receipt at a time; what is *)
(* left in the queue may be from a call that gave up.                      *)
(***************************************************************************)
EXTENDS Integers, Sequences

CONSTANTS
    Events,     \* calls of send
    Devices,    \* devices the compositor may offer
    Reach,      \* Reach[e]: devices that carry the interface (and the region) of e
    Needed,     \* the device sets of the interfaces the session kind needs
    MaxChanges, \* bound on the changes of devices
    None        \* nobody

ASSUME EisAssumption ==
    /\ Reach \in [Events -> SUBSET Devices]
    /\ Needed \subseteq SUBSET Devices
    /\ MaxChanges \in Nat
    /\ None \notin Events

VARIABLES
    client,   \* "connecting", "connected", or "gone" when every sender is dropped
    worker,   \* the thread: "starting", "serving", "ended"
    ready,    \* what it has told the connecting future
    devices,  \* the devices the worker knows
    active,   \* those it holds for resumed
    queue,    \* mpsc channel of one place
    hand,     \* the request the worker has received and found awaited
    result,   \* the result of emit, not yet told
    pc,       \* state of each send
    emitted,  \* events framed and flushed
    inbox,    \* device events the worker has not read
    offered,  \* devices of the compositor
    resumed,  \* those that take input
    delivered,\* events that took effect
    changes   \* device events so far

clientVars == <<client, ready>>
viewVars == <<devices, active>>
workVars == <<hand, result, emitted, delivered>>
compositorVars == <<inbox, offered, resumed, changes>>
vars == <<clientVars, worker, viewVars, queue, workVars, pc, compositorVars>>

Outcomes == {"ok", "refused", "unknown"}
Waiting == {"sending", "queued"}
Kinds == {"added", "resumed", "paused", "removed", "disconnected"}
Messages == [kind : Kinds, device : Devices]
Awaited == {e \in Events : pc[e] \in Waiting}

\* Types, and that the worker reads events and requests one at a time.
TypeOK ==
    /\ client \in {"connecting", "connected", "gone"}
    /\ worker \in {"starting", "serving", "ended"}
    /\ ready \in {"none", "ok", "failed"}
    /\ devices \subseteq Devices /\ active \subseteq devices
    /\ queue \in {<<>>} \cup {<<e>> : e \in Events}
    /\ hand \in Events \cup {None} /\ result \in Outcomes \cup {"none"}
    /\ hand = None => result = "none"
    /\ hand # None => worker = "serving"
    /\ pc \in [Events -> {"idle"} \cup Waiting \cup Outcomes]
    /\ emitted \subseteq Events /\ delivered \subseteq emitted
    /\ inbox \in Seq(Messages) /\ changes \in 0..MaxChanges
    /\ resumed \subseteq offered /\ offered \subseteq Devices

Init ==
    /\ client = "connecting" /\ worker = "starting" /\ ready = "none"
    /\ devices = {} /\ active = {}
    /\ queue = <<>> /\ hand = None /\ result = "none"
    /\ pc = [e \in Events |-> "idle"]
    /\ emitted = {} /\ delivered = {}
    /\ inbox = <<>> /\ offered = {} /\ resumed = {} /\ changes = 0

-----------------------------------------------------------------------------
(* The session's side: connect and send.                                   *)

Connected ==
    /\ client = "connecting" /\ ready = "ok"
    /\ client' = "connected"
    /\ UNCHANGED <<worker, ready, viewVars, queue, workVars, pc, compositorVars>>

\* connect fails, times out or is dropped, or the session is: no sender is left.
LoseClient ==
    /\ client # "gone" /\ Awaited = {}
    /\ client' = "gone"
    /\ UNCHANGED <<worker, ready, viewVars, queue, workVars, pc, compositorVars>>

Send(e) ==
    /\ client = "connected" /\ pc[e] = "idle" /\ Awaited = {}
    /\ pc' = [pc EXCEPT ![e] = "sending"]
    /\ UNCHANGED <<clientVars, worker, viewVars, queue, workVars, compositorVars>>

\* Mutant: a channel that takes a second request.
EnqueueMore(e) ==
    /\ pc[e] = "sending" /\ worker # "ended"
    /\ queue' = Append(queue, e)
    /\ pc' = [pc EXCEPT ![e] = "queued"]
    /\ UNCHANGED <<clientVars, worker, viewVars, workVars, compositorVars>>

Enqueue(e) ==
    /\ pc[e] = "sending" /\ queue = <<>> /\ worker # "ended"
    /\ queue' = <<e>>
    /\ pc' = [pc EXCEPT ![e] = "queued"]
    /\ UNCHANGED <<clientVars, worker, viewVars, workVars, compositorVars>>

\* The time limit of 3 s over both awaits passes, the sending call is dropped, or it
\* finds the channel closed or the receipt dropped with the thread.
GiveUp(e) ==
    /\ pc[e] \in Waiting
    /\ pc' = [pc EXCEPT ![e] = "unknown"]
    /\ UNCHANGED <<clientVars, worker, viewVars, queue, workVars, compositorVars>>

-----------------------------------------------------------------------------
(* The worker thread.                                                      *)

\* The thread returns: the receiver goes, with what is queued.
End == worker' = "ended" /\ queue' = <<>>

DeviceReady == \A carriers \in Needed : carriers \cap active # {}

\* The devices are ready: tell the connecting future, if it is still there.
Announce ==
    /\ worker = "starting" /\ DeviceReady
    /\ IF client = "connecting"
       THEN ready' = "ok" /\ worker' = "serving" /\ UNCHANGED queue
       ELSE End /\ UNCHANGED ready
    /\ UNCHANGED <<client, viewVars, workVars, pc, compositorVars>>

\* The handshake fails or the devices do not resume within 5 s.
StartupFails ==
    /\ worker = "starting" /\ ~DeviceReady
    /\ ready' = "failed"
    /\ End
    /\ UNCHANGED <<client, viewVars, workVars, pc, compositorVars>>

\* Mutant: a pause is taken note of only when the device goes.
ViewKeepingPaused(m) ==
    /\ devices' = CASE m.kind = "added" -> devices \cup {m.device}
                    [] m.kind = "removed" -> devices \ {m.device}
                    [] OTHER -> devices
    /\ active' = CASE m.kind = "resumed" -> active \cup {m.device}
                   [] m.kind = "removed" -> active \ {m.device}
                   [] OTHER -> active

View(m) ==
    /\ devices' = CASE m.kind = "added" -> devices \cup {m.device}
                    [] m.kind = "removed" -> devices \ {m.device}
                    [] OTHER -> devices
    /\ active' = CASE m.kind = "resumed" -> active \cup ({m.device} \cap devices)
                   [] m.kind \in {"paused", "removed"} -> active \ {m.device}
                   [] OTHER -> active

\* A device event, before readiness or between requests.  A disconnection, the
\* removal of the seat and a failed flush end the thread.
HandleEvent ==
    /\ IF worker = "serving" THEN hand = None ELSE worker = "starting" /\ ~DeviceReady
    /\ inbox # <<>>
    /\ inbox' = Tail(inbox)
    /\ View(Head(inbox))
    /\ \/ Head(inbox).kind # "disconnected" /\ UNCHANGED <<worker, queue, ready>>
       \/ /\ End
          /\ ready' = IF worker = "starting" THEN "failed" ELSE ready
    /\ UNCHANGED <<client, workVars, pc, offered, resumed, changes>>

\* Mutant: a request is served whether or not its caller still waits.
ReceiveAny ==
    /\ worker = "serving" /\ hand = None /\ queue # <<>>
    /\ queue' = <<>>
    /\ hand' = Head(queue)
    /\ UNCHANGED <<clientVars, worker, viewVars, result, emitted, delivered, pc, compositorVars>>

\* A request is received; a closed receipt means that nobody waits, and it is skipped.
\* Device events are polled first, but one may arrive between the two polls.
Receive ==
    /\ worker = "serving" /\ hand = None /\ queue # <<>>
    /\ queue' = <<>>
    /\ hand' = IF pc[Head(queue)] = "queued" THEN Head(queue) ELSE None
    /\ UNCHANGED <<clientVars, worker, viewVars, result, emitted, delivered, pc, compositorVars>>

\* Mutant: the worker keeps a sender of its own, so that the channel never closes.
NeverClosed == FALSE

ChannelClosed == client = "gone" /\ queue = <<>>

Hangup ==
    /\ worker = "serving" /\ hand = None /\ ChannelClosed
    /\ End
    /\ UNCHANGED <<clientVars, viewVars, workVars, pc, compositorVars>>

\* Mutant: a failed flush is reported like an event that was not sent.
FlushRefused == {"refused"}

FlushFailed == {"unknown"}

\* An active device frames the event; the compositor drops it when it has paused
\* that device in the meantime.  After a failed flush it may have gone out.
EmitOn(d) ==
    /\ hand # None /\ result = "none"
    /\ d \in active \cap Reach[hand]
    /\ \/ /\ emitted' = emitted \cup {hand}
          /\ delivered' = IF d \in resumed THEN delivered \cup {hand} ELSE delivered
          /\ result' \in {"ok"} \cup FlushFailed
       \/ result' \in FlushFailed /\ UNCHANGED <<emitted, delivered>>
    /\ UNCHANGED <<clientVars, worker, viewVars, queue, hand, pc, compositorVars>>

\* "EIS input device is not resumed; no input was sent"
EmitNothing ==
    /\ hand # None /\ result = "none"
    /\ active \cap Reach[hand] = {}
    /\ result' = "refused"
    /\ UNCHANGED <<clientVars, worker, viewVars, queue, hand, emitted, delivered, pc, compositorVars>>

\* The receipt is sent, to a caller that may be gone; an error ends the thread.
Answer ==
    /\ result # "none"
    /\ pc' = [pc EXCEPT ![hand] = IF @ = "queued" THEN result ELSE @]
    /\ hand' = None /\ result' = "none"
    /\ IF result = "ok" THEN UNCHANGED <<worker, queue>> ELSE End
    /\ UNCHANGED <<clientVars, viewVars, emitted, delivered, compositorVars>>

-----------------------------------------------------------------------------
(* The compositor, as far as the protocol binds it.                        *)

Tell(k, d) ==
    /\ changes < MaxChanges /\ worker # "ended"
    /\ changes' = changes + 1
    /\ inbox' = Append(inbox, [kind |-> k, device |-> d])
    /\ UNCHANGED <<clientVars, worker, viewVars, queue, workVars, pc>>

Offer(d)  == d \notin offered /\ offered' = offered \cup {d} /\ UNCHANGED resumed /\ Tell("added", d)
Resume(d) == d \in offered \ resumed /\ resumed' = resumed \cup {d} /\ UNCHANGED offered /\ Tell("resumed", d)
Pause(d)  == d \in resumed /\ resumed' = resumed \ {d} /\ UNCHANGED offered /\ Tell("paused", d)
Remove(d) == d \in offered /\ offered' = offered \ {d} /\ resumed' = resumed \ {d} /\ Tell("removed", d)
Disconnect(d) == offered' = {} /\ resumed' = {} /\ Tell("disconnected", d)

-----------------------------------------------------------------------------
WorkerStep ==
    \/ Announce \/ StartupFails \/ HandleEvent \/ Receive \/ Hangup
    \/ EmitNothing \/ Answer
    \/ \E d \in Devices : EmitOn(d)

Next ==
    \/ Connected \/ LoseClient \/ WorkerStep
    \/ \E e \in Events : Send(e) \/ Enqueue(e) \/ GiveUp(e)
    \/ \E d \in Devices : Offer(d) \/ Resume(d) \/ Pause(d) \/ Remove(d) \/ Disconnect(d)

Spec == Init /\ [][Next]_vars

\* The thread runs: its awaits are bounded by the start-up limit or woken by what it
\* waits for, and its writes do not block.
FairSpec == Spec /\ WF_vars(WorkerStep)

-----------------------------------------------------------------------------
\* What a send is told is true: "ok" is an event that was flushed, and "no input was
\* sent" an event that never goes out, also when the caller retries it elsewhere.
AnswersAreTrue == \A e \in Events :
    /\ pc[e] = "ok" => e \in emitted
    /\ pc[e] = "refused" => e \notin emitted /\ hand # e

\* With no device event unread an event that is emitted takes effect: a success may
\* hide only a device the compositor has paused and the worker has not heard of.
EmittedTakesEffect ==
    [][inbox = <<>> => emitted' \ emitted \subseteq delivered']_vars

AskedFor == IF Awaited = {} THEN None ELSE CHOOSE e \in Awaited : TRUE
Told == [e \in Events |-> IF pc[e] \in Outcomes THEN pc[e] ELSE "none"]

Channel == INSTANCE EventChannel WITH
    asked <- AskedFor, taken <- hand, sent <- emitted, answer <- Told

\* "A caller that timed out must not leave queued input behind": the queue and the
\* thread behind it are a channel that takes only what somebody waits for.
ImplementsEventChannel == Channel!Spec

\* A thread whose session is gone ends, wherever the session was lost: in connect,
\* between its readiness and the answer, or later.
AbandonedWorkerEnds == client = "gone" ~> worker = "ended"
=============================================================================
