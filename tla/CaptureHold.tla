------------------------------- MODULE CaptureHold -------------------------------
(***************************************************************************)
(* How screen captures keep the action indicator out of the picture: the   *)
(* servers of indicator.rs, each with a socket for answers, and the one    *)
(* overlay of the session (bin/computer-use-linux-indicator), on a         *)
(* compositor with layer surfaces.  They share a lock file, which captures *)
(* hold shared and the overlay tests before it draws, and send each other  *)
(* datagrams.                                                              *)
(*                                                                         *)
(* The overlay is one thread.  Its handlers are split where a server can   *)
(* come in between: after the lock was tested and before a reply is sent.  *)
(***************************************************************************)
EXTENDS Integers, Sequences

CONSTANTS
    Captures,   \* captures: calls of hold_for_capture, each made once
    Servers,    \* server processes
    Server,     \* Server[c]: the process that makes c
    MaxActions, \* bound on the actions reported to the overlay
    MaxQueue,   \* datagrams the overlay's socket takes
    Faults,     \* "slow" (no answer in time), "cancel", "kill" (a server), "exit" and "crash" (of the overlay)
    None        \* nobody

ASSUME CaptureAssumption ==
    /\ Server \in [Captures -> Servers]
    /\ MaxActions \in Nat /\ MaxQueue \in Nat
    /\ None \notin Servers

VARIABLES
    pc,        \* state of each capture
    holders,   \* captures whose open file holds the lock
    replies,   \* replies[s]: answers in the socket of server s
    inbox,     \* datagrams the overlay has not read
    actions,   \* actions reported so far
    running,   \* an overlay runs and has its socket
    active,    \* it has something to show
    panels,    \* it has surfaces
    recent,    \* it removed them less than HIDE_SETTLE ago
    watching,  \* its timer looks for the end of a capture
    step,      \* what its current handler does next: "idle", "sync", "draw", "reply"
    asker,     \* the server to reply to
    saw,       \* the reply: whether something was on screen
    displayed, \* the compositor shows the overlay
    ended      \* whether an overlay has exited, or crashed: "no", "exited", "crashed"

overlayVars == <<running, active, panels, recent, watching, displayed, ended>>
handlerVars == <<step, asker, saw>>
vars == <<pc, holders, replies, inbox, actions, overlayVars, handlerVars>>

Handshaking == {"locked", "asked", "settling"}
Holding == Handshaking \cup {"capturing"}
Messages == [kind : {"begin", "end", "action"}, by : Servers]

\* Types, and that who captures holds the lock.
TypeOK ==
    /\ pc \in [Captures -> Holding \cup {"idle", "over"}]
    /\ holders = {c \in Captures : pc[c] \in Holding}
    /\ replies \in [Servers -> Seq(BOOLEAN)]
    /\ inbox \in Seq(Messages) /\ actions \in 0..MaxActions
    /\ running \in BOOLEAN /\ active \in BOOLEAN /\ panels \in BOOLEAN
    /\ recent \in BOOLEAN /\ watching \in BOOLEAN /\ displayed \in BOOLEAN
    /\ ended \in {"no", "exited", "crashed"} /\ step \in {"idle", "sync", "draw", "reply"}
    /\ asker \in Servers \cup {None} /\ saw \in BOOLEAN
    /\ step = "reply" => asker \in Servers

Init ==
    /\ pc = [c \in Captures |-> "idle"] /\ holders = {}
    /\ replies = [s \in Servers |-> <<>>]
    /\ inbox = <<>> /\ actions = 0
    /\ running = FALSE /\ active = FALSE /\ panels = FALSE
    /\ recent = FALSE /\ watching = FALSE /\ displayed = FALSE /\ ended = "no"
    /\ step = "idle" /\ asker = None /\ saw = FALSE

-----------------------------------------------------------------------------
(* The servers.                                                            *)

Go(c, s) == pc' = [pc EXCEPT ![c] = s]

\* A datagram, lost when no socket is there or its queue is full.
Report(k, s) ==
    inbox' = IF running /\ Len(inbox) < MaxQueue
             THEN Append(inbox, [kind |-> k, by |-> s]) ELSE inbox

\* Mutant: captures of a server exchange their acknowledgements at the same time.
AloneUnchecked(c) == TRUE

\* capture_handshake is free.  The tools also take a permit for their pictures, so that
\* those of one server take turns as a whole; the protocol does not rely on it.
Alone(c) == \A d \in Captures \ {c} : Server[d] = Server[c] => pc[d] \notin Handshaking

\* Mutant: late answers are left in the socket.
DrainNothing(s) == replies

\* "Drop a late answer to an earlier request."
Drained(s) == [replies EXCEPT ![s] = <<>>]

\* hold_for_capture, up to the first datagram.
Lock(c) ==
    /\ pc[c] = "idle" /\ Alone(c)
    /\ Go(c, "locked")
    /\ holders' = holders \cup {c}
    /\ replies' = Drained(Server[c])
    /\ UNCHANGED <<inbox, actions, overlayVars, handlerVars>>

\* Nobody listens: "the lock keeps one that starts now blank".  A full queue is tried again.
Ask(c) ==
    /\ pc[c] = "locked"
    /\ running => Len(inbox) < MaxQueue
    /\ Go(c, IF running THEN "asked" ELSE "capturing")
    /\ Report("begin", Server[c])
    /\ UNCHANGED <<holders, replies, actions, overlayVars, handlerVars>>

Answered(c) ==
    LET s == Server[c] IN
    /\ pc[c] = "asked" /\ replies[s] # <<>>
    /\ Go(c, IF Head(replies[s]) THEN "settling" ELSE "capturing")
    /\ replies' = [replies EXCEPT ![s] = Tail(@)]
    /\ UNCHANGED <<holders, inbox, actions, overlayVars, handlerVars>>

\* The server has slept for HIDE_SETTLE since the reply, and so for longer since the removal.
Settled(c) ==
    /\ pc[c] = "settling" /\ ~recent
    /\ Go(c, "capturing")
    /\ UNCHANGED <<holders, replies, inbox, actions, overlayVars, handlerVars>>

\* Mutant: only the overlay is told; the file stays locked.
DropHoldLocked(c) ==
    /\ Go(c, "over")
    /\ Report("end", Server[c])
    /\ UNCHANGED <<holders, replies, actions, overlayVars, handlerVars>>

\* The destructor of CaptureHold: unlock, then tell the overlay.
DropHold(c) ==
    /\ Go(c, "over")
    /\ holders' = holders \ {c}
    /\ Report("end", Server[c])
    /\ UNCHANGED <<replies, actions, overlayVars, handlerVars>>

\* The picture is taken.
Finish(c) == pc[c] = "capturing" /\ DropHold(c)

\* CAPTURE_REPLY_WAIT passes without room in the queue, or without an answer.
NotConfirmed(c) ==
    /\ "slow" \in Faults /\ pc[c] \in {"locked", "asked"}
    /\ DropHold(c)

Cancel(c) == "cancel" \in Faults /\ pc[c] \in Holding /\ DropHold(c)

\* The kernel releases the locks of a server that dies.
Kill(s) ==
    /\ "kill" \in Faults
    /\ \E c \in Captures : Server[c] = s /\ pc[c] \in Holding
    /\ pc' = [c \in Captures |-> IF Server[c] = s THEN "over" ELSE pc[c]]
    /\ holders' = {c \in holders : Server[c] # s}
    /\ replies' = [replies EXCEPT ![s] = <<>>]
    /\ UNCHANGED <<inbox, actions, overlayVars, handlerVars>>

\* An input tool reports what it does.
Act(s) ==
    /\ running /\ actions < MaxActions
    /\ actions' = actions + 1
    /\ Report("action", s)
    /\ UNCHANGED <<pc, holders, replies, overlayVars, handlerVars>>

-----------------------------------------------------------------------------
(* The overlay.                                                            *)

\* A server starts it for an action; of several that start at once a lock leaves one.
Start ==
    /\ ~running /\ actions < MaxActions
    /\ running' = TRUE
    /\ UNCHANGED <<pc, holders, replies, inbox, actions, active, panels, recent, watching,
                   displayed, handlerVars, ended>>

Held == holders # {}

OnScreen == panels \/ recent

Suspend ==
    /\ recent' = (recent \/ panels)
    /\ panels' = FALSE
    /\ watching' = TRUE

\* capture: begin.  What is on screen is noted before the surfaces are removed.
HandleBegin ==
    /\ step = "idle" /\ inbox # <<>> /\ Head(inbox).kind = "begin"
    /\ inbox' = Tail(inbox)
    /\ step' = "reply" /\ asker' = Head(inbox).by /\ saw' = OnScreen
    /\ Suspend
    /\ UNCHANGED <<pc, holders, replies, actions, running, active, displayed, ended>>

\* The answer goes into the socket of the server, if that is still there.
Reply ==
    /\ step = "reply"
    /\ step' = "idle" /\ asker' = None
    /\ replies' = [replies EXCEPT ![asker] = Append(@, saw)]
    /\ UNCHANGED <<pc, holders, inbox, actions, overlayVars, saw>>

HandleEnd ==
    /\ step = "idle" /\ inbox # <<>> /\ Head(inbox).kind = "end"
    /\ inbox' = Tail(inbox)
    /\ step' = IF Held THEN "idle" ELSE "sync"
    /\ UNCHANGED <<pc, holders, replies, actions, overlayVars, asker, saw>>

HandleAction ==
    /\ step = "idle" /\ inbox # <<>> /\ Head(inbox).kind = "action"
    /\ inbox' = Tail(inbox)
    /\ active' = TRUE
    /\ step' = "sync"
    /\ UNCHANGED <<pc, holders, replies, actions, running, panels, recent, watching, displayed,
                   asker, saw, ended>>

\* The animation timer runs while there is something to show.
Tick ==
    /\ step = "idle" /\ active
    /\ step' = "sync"
    /\ UNCHANGED <<pc, holders, replies, inbox, actions, overlayVars, asker, saw>>

\* HOLD_POLL.
Poll ==
    /\ step = "idle" /\ watching /\ ~Held
    /\ watching' = FALSE
    /\ step' = "sync"
    /\ UNCHANGED <<pc, holders, replies, inbox, actions, running, active, panels, recent, displayed,
                   asker, saw, ended>>

\* sync_panels, to where it has tested the lock.
Sync ==
    /\ step = "sync"
    /\ step' = IF active /\ ~Held THEN "draw" ELSE "idle"
    /\ IF active /\ Held THEN Suspend ELSE UNCHANGED <<panels, recent, watching>>
    /\ UNCHANGED <<pc, holders, replies, inbox, actions, running, active, displayed, asker, saw, ended>>

\* The rest of it: the surfaces exist, and the compositor may show them.
Draw ==
    /\ step = "draw"
    /\ step' = "idle"
    /\ panels' = TRUE /\ recent' = FALSE /\ displayed' = TRUE
    /\ UNCHANGED <<pc, holders, replies, inbox, actions, running, active, watching, asker, saw, ended>>

\* hide, at the end of the fade after IDLE_BEFORE_FADE.
Fade ==
    /\ step = "idle" /\ active
    /\ active' = FALSE
    /\ panels' = FALSE /\ recent' = (recent \/ panels)
    /\ UNCHANGED <<pc, holders, replies, inbox, actions, running, watching, displayed, handlerVars, ended>>

\* EXIT_AFTER_IDLE, long after the surfaces are gone; unread datagrams are lost.
Exit ==
    /\ "exit" \in Faults /\ running
    /\ step = "idle" /\ ~active /\ ~recent
    /\ running' = FALSE /\ watching' = FALSE
    /\ ended' = IF ended = "crashed" THEN ended ELSE "exited"
    /\ inbox' = <<>>
    /\ UNCHANGED <<pc, holders, replies, actions, active, panels, recent, displayed, handlerVars>>

\* The overlay dies; the compositor has yet to notice.
Crash ==
    /\ "crash" \in Faults /\ running
    /\ running' = FALSE /\ active' = FALSE /\ panels' = FALSE /\ recent' = FALSE
    /\ watching' = FALSE /\ ended' = "crashed"
    /\ step' = "idle" /\ asker' = None
    /\ inbox' = <<>>
    /\ UNCHANGED <<pc, holders, replies, actions, displayed, saw>>

-----------------------------------------------------------------------------
(* The compositor: surfaces that were removed are off the screen within     *)
(* HIDE_SETTLE.                                                             *)

Dropped ==
    /\ displayed /\ ~panels
    /\ displayed' = FALSE
    /\ UNCHANGED <<pc, holders, replies, inbox, actions, running, active, panels, recent, watching,
                   handlerVars, ended>>

SettleOver ==
    /\ recent /\ ~displayed
    /\ recent' = FALSE
    /\ UNCHANGED <<pc, holders, replies, inbox, actions, running, active, panels, watching, displayed,
                   handlerVars, ended>>

\* It closes them itself, as when an output goes.
Closed ==
    /\ step = "idle" /\ panels
    /\ panels' = FALSE /\ displayed' = FALSE
    /\ UNCHANGED <<pc, holders, replies, inbox, actions, running, active, recent, watching, handlerVars, ended>>

-----------------------------------------------------------------------------
Hold(c) == Lock(c) \/ Ask(c) \/ Answered(c) \/ Settled(c) \/ Finish(c) \/ NotConfirmed(c)

OverlayStep ==
    \/ HandleBegin \/ Reply \/ HandleEnd \/ HandleAction
    \/ Tick \/ Poll \/ Sync \/ Draw

Next ==
    \/ \E c \in Captures : Hold(c) \/ Cancel(c)
    \/ \E s \in Servers : Kill(s) \/ Act(s)
    \/ Start \/ OverlayStep \/ Fade \/ Exit \/ Crash
    \/ Dropped \/ SettleOver \/ Closed

Spec == Init /\ [][Next]_vars

\* Every wait of a capture has a limit, the overlay's loop runs its timers, and the
\* compositor drops what was removed.
FairSpec ==
    /\ Spec
    /\ \A c \in Captures : WF_vars(Hold(c))
    /\ WF_vars(OverlayStep) /\ WF_vars(Dropped \/ SettleOver)

-----------------------------------------------------------------------------
\* "Agents never see it: not their own, not one shown for another agent, and not one
\* that another agent starts mid-capture": no picture is taken of the overlay, unless
\* it crashed and left its surfaces to the compositor.
NoOverlayInCapture ==
    \A c \in Captures : pc[c] = "capturing" => ~displayed \/ ended = "crashed"

\* A capture that waits for an answer will get one, unless an overlay took the question
\* with it: no other capture, late answer or cancelled call has taken it ("their
\* acknowledgements are exchanged in order").
AnswerComes == \A c \in Captures : pc[c] = "asked" =>
    LET s == Server[c] IN
    \/ replies[s] # <<>> \/ ended # "no"
    \/ step = "reply" /\ asker = s
    \/ \E i \in 1..Len(inbox) : inbox[i] = [kind |-> "begin", by |-> s]

\* "A crash cannot freeze the overlay": what there is to show is shown again, whatever
\* became of the captures that held it back and of the datagrams about them.
OverlayComesBack == (active /\ ~panels) => <>(panels \/ ~active)

\* Neither side waits for the other for good.
NeitherIsStuck == [](AnswerComes /\ OverlayComesBack)
=============================================================================
