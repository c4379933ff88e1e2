------------------------- MODULE Observations_proof -------------------------
(***************************************************************************)
(* What is observed of the desktop: the pictures that are taken while the  *)
(* overlay is hidden, and the windows and monitors that COSMIC's helper    *)
(* tells of.  Both are true however the processes that are observed go on  *)
(* meanwhile.                                                              *)
(***************************************************************************)
EXTENDS CaptureHold, CosmicHelper, FiniteSetTheorems, SequenceTheorems, TLAPS

(***************************************************************************)
(* CaptureHold.  No picture is taken of the overlay, for any captures and  *)
(* servers, until an overlay dies with its surfaces on the screen.         *)
(*                                                                         *)
(* The argument follows an answer.  Surfaces that are gone for longer than *)
(* HIDE_SETTLE are off the screen (Gone), and an overlay that does not run *)
(* has none (Off).  When the handler of a begin replies, its surfaces are  *)
(* removed and the answer tells whether that was recent (Hidden).  An      *)
(* answer that a waiting capture finds was sent after it took the lock, so *)
(* that nothing has been drawn since (Answers), nor is anything drawn      *)
(* until it lets go of the lock (Quiet).                                   *)
(***************************************************************************)

\* Nothing is on the screen that is not being removed, and nothing is about to be drawn.
Blank == ~panels /\ step # "draw"

Gone == ~panels /\ ~recent => ~displayed \/ ended = "crashed"

Off ==
    /\ ~running => Blank /\ ~active /\ ~recent /\ ~watching /\ step = "idle" /\ inbox = <<>>
    /\ ~active => Blank

Hidden == step = "reply" => ~panels /\ (~saw => ~recent)

Answers == \A c \in Captures : pc[c] \in {"locked", "asked"} =>
    \A i \in 1..Len(replies[Server[c]]) : Blank /\ (~replies[Server[c]][i] => ~recent)

Quiet == \A c \in Captures :
    /\ pc[c] \in {"settling", "capturing"} => Blank
    /\ pc[c] = "capturing" => ~recent

Screen == Gone /\ Off /\ Hidden

IInv == TypeOK /\ Screen /\ Answers /\ Quiet

(* At the start nothing runs and nothing is shown. *)
LEMMA InitIInv == Init => IInv
  <1> SUFFICES ASSUME Init PROVE IInv
    OBVIOUS
  <1>1. TypeOK
    <2>1. <<>> \in Seq(BOOLEAN) /\ <<>> \in Seq(Messages)
      BY EmptySeq
    <2>2. replies \in [Servers -> Seq(BOOLEAN)] /\ inbox \in Seq(Messages)
      BY <2>1 DEF Init
    <2>3. holders = {c \in Captures : pc[c] \in Holding}
      <3>1. holders = {} /\ \A c \in Captures : pc[c] = "idle"
        BY DEF Init
      <3>2. \A c \in Captures : pc[c] \notin Holding
        BY <3>1 DEF Holding, Handshaking
      <3> QED
        BY <3>1, <3>2
    <2>4. pc \in [Captures -> Holding \cup {"idle", "over"}]
      BY DEF Init
    <2>5. actions \in 0..MaxActions
      BY CaptureAssumption DEF Init
    <2>6. /\ running \in BOOLEAN /\ active \in BOOLEAN /\ panels \in BOOLEAN
          /\ recent \in BOOLEAN /\ watching \in BOOLEAN /\ displayed \in BOOLEAN
          /\ ended = "no" /\ step = "idle" /\ asker = None /\ saw \in BOOLEAN
      BY DEF Init
    <2> QED
      BY <2>2, <2>3, <2>4, <2>5, <2>6 DEF TypeOK
  <1>2. Screen /\ Quiet
    BY DEF Init, Screen, Gone, Off, Hidden, Quiet, Blank
  <1>3. Answers
    BY CaptureAssumption DEF Init, Answers, Blank
  <1> QED
    BY <1>1, <1>2, <1>3 DEF IInv

(* What a datagram does to the queue: it stays a queue, and is not touched without a socket. *)
LEMMA ReportTyped ==
    ASSUME TypeOK, NEW k \in {"begin", "end", "action"}, NEW s \in Servers, Report(k, s)
    PROVE  inbox' \in Seq(Messages) /\ (~running => inbox' = inbox)
  <1>1. inbox \in Seq(Messages) /\ [kind |-> k, by |-> s] \in Messages
    BY DEF TypeOK, Messages
  <1>2. Append(inbox, [kind |-> k, by |-> s]) \in Seq(Messages)
    BY <1>1, AppendProperties
  <1> QED
    BY <1>1, <1>2 DEF Report

(* Reading and removing the first of a sequence. *)
LEMMA TailFacts ==
    ASSUME NEW S, NEW q \in Seq(S), q # <<>>
    PROVE  /\ Head(q) \in S /\ Tail(q) \in Seq(S) /\ Head(q) = q[1] /\ 1 \in 1..Len(q)
           /\ \A i \in 1..Len(Tail(q)) : i + 1 \in 1..Len(q) /\ Tail(q)[i] = q[i + 1]
  <1>1. Head(q) \in S /\ Tail(q) \in Seq(S) /\ Len(Tail(q)) = Len(q) - 1
    BY HeadTailProperties
  <1>2. \A i \in 1..Len(Tail(q)) : Tail(q)[i] = q[i + 1]
    BY HeadTailProperties
  <1>3. Len(q) \in Nat /\ Len(q) # 0
    BY EmptySeq
  <1> QED
    BY <1>1, <1>2, <1>3

(* Letting go of a hold disturbs nothing: it only makes the lock freer. *)
LEMMA DropHoldKeeps ==
    ASSUME IInv, NEW c \in Captures, pc[c] \in Holding, DropHold(c)
    PROVE  IInv'
  <1> USE DEF IInv
  <1>1. inbox' \in Seq(Messages) /\ (~running => inbox' = inbox)
    BY ReportTyped, CaptureAssumption DEF DropHold
  <1>2. TypeOK'
    BY <1>1 DEF DropHold, Go, TypeOK, overlayVars, handlerVars, Holding, Handshaking
  <1>3. Screen'
    BY <1>1 DEF DropHold, Screen, Gone, Off, Hidden, Blank, overlayVars, handlerVars
  <1>4. Answers' /\ Quiet'
    BY DEF DropHold, Go, Answers, Quiet, Blank, overlayVars, handlerVars, TypeOK
  <1> QED
    BY <1>2, <1>3, <1>4

(* The steps of a server. *)
LEMMA ServerKeeps ==
    ASSUME IInv, NEW c \in Captures, Hold(c) \/ Cancel(c)
    PROVE  IInv'
  <1> USE DEF IInv
  <1>1. CASE Lock(c)
    <2>0. <<>> \in Seq(BOOLEAN) /\ Len(<<>>) = 0
      BY EmptySeq
    <2>1. TypeOK'
      BY ZenonT(60), <1>1, <2>0, CaptureAssumption DEF Lock, Go, Drained, TypeOK, overlayVars, handlerVars, Holding, Handshaking
    <2>2. Screen'
      BY <1>1 DEF Lock, Screen, Gone, Off, Hidden, Blank, overlayVars, handlerVars
    <2>3. Answers'
      <3> SUFFICES ASSUME NEW d \in Captures, (pc[d] \in {"locked", "asked"})',
                          NEW i \in (1..Len(replies[Server[d]]))'
                   PROVE  (Blank /\ (~replies[Server[d]][i] => ~recent))'
        BY DEF Answers
      <3>1. Server[d] \in Servers /\ Server[c] \in Servers
        BY CaptureAssumption
      <3>2. Server[d] # Server[c]
        BY <1>1, <2>0, <3>1 DEF Lock, Drained, TypeOK
      <3>3. pc'[d] = pc[d] /\ replies'[Server[d]] = replies[Server[d]]
        BY <1>1, <3>1, <3>2 DEF Lock, Go, Drained, TypeOK
      <3> QED
        BY <1>1, <3>3 DEF Lock, Answers, Blank, overlayVars, handlerVars
    <2>4. Quiet'
      BY <1>1 DEF Lock, Go, Quiet, Blank, overlayVars, handlerVars, TypeOK
    <2> QED
      BY <2>1, <2>2, <2>3, <2>4
  <1>2. CASE Ask(c)
    <2>1. inbox' \in Seq(Messages) /\ (~running => inbox' = inbox)
      BY <1>2, ReportTyped, CaptureAssumption DEF Ask
    <2>2. TypeOK'
      BY <1>2, <2>1 DEF Ask, Go, TypeOK, overlayVars, handlerVars, Holding, Handshaking
    <2>3. Screen'
      BY <1>2, <2>1 DEF Ask, Screen, Gone, Off, Hidden, Blank, overlayVars, handlerVars
    <2>4. Answers'
      BY <1>2 DEF Ask, Go, Answers, Blank, overlayVars, handlerVars, TypeOK
    <2>5. Quiet'
      BY <1>2 DEF Ask, Go, Screen, Off, Quiet, Blank, overlayVars, handlerVars, TypeOK
    <2> QED
      BY <2>2, <2>3, <2>4, <2>5
  <1>3. CASE Answered(c)
    <2> DEFINE s == Server[c]
    <2>1. replies[s] \in Seq(BOOLEAN) /\ replies[s] # <<>> /\ s \in Servers
      BY <1>3, CaptureAssumption DEF Answered, TypeOK
    <2> HIDE DEF s
    <2>2. /\ Head(replies[s]) \in BOOLEAN /\ Tail(replies[s]) \in Seq(BOOLEAN)
          /\ Head(replies[s]) = replies[s][1] /\ 1 \in 1..Len(replies[s])
          /\ \A i \in 1..Len(Tail(replies[s])) :
                i + 1 \in 1..Len(replies[s]) /\ Tail(replies[s])[i] = replies[s][i + 1]
      BY <2>1, TailFacts
    <2>3. replies' = [replies EXCEPT ![s] = Tail(replies[s])] /\ replies \in [Servers -> Seq(BOOLEAN)]
      BY <1>3 DEF Answered, TypeOK, s
    <2>4. TypeOK'
      BY ZenonT(60), <1>3, <2>1, <2>2, <2>3 DEF Answered, Go, TypeOK, overlayVars, handlerVars, Holding, Handshaking
    <2>5. Screen'
      BY <1>3 DEF Answered, Screen, Gone, Off, Hidden, Blank, overlayVars, handlerVars
    <2>6. Blank /\ (~Head(replies[s]) => ~recent)
      BY <1>3, <2>2 DEF Answered, Answers, s
    <2>7. Answers'
      BY ZenonT(60), <1>3, <2>1, <2>2, <2>3, CaptureAssumption
         DEF Answered, Go, Answers, Blank, overlayVars, handlerVars, TypeOK
    <2>8. Quiet'
      BY <1>3, <2>6 DEF Answered, Go, Quiet, Blank, overlayVars, handlerVars, TypeOK, s
    <2> QED
      BY <2>4, <2>5, <2>7, <2>8
  <1>4. CASE Settled(c)
    <2>1. TypeOK'
      BY <1>4 DEF Settled, Go, TypeOK, overlayVars, handlerVars, Holding, Handshaking
    <2>2. Screen'
      BY <1>4 DEF Settled, Screen, Gone, Off, Hidden, Blank, overlayVars, handlerVars
    <2>3. Answers' /\ Quiet'
      BY <1>4 DEF Settled, Go, Answers, Quiet, Blank, overlayVars, handlerVars, TypeOK
    <2> QED
      BY <2>1, <2>2, <2>3
  <1>5. CASE Finish(c) \/ NotConfirmed(c) \/ Cancel(c)
    BY <1>5, DropHoldKeeps DEF Finish, NotConfirmed, Cancel, Holding, Handshaking
  <1> QED
    BY <1>1, <1>2, <1>3, <1>4, <1>5 DEF Hold

(* A server that dies, one that reports an action, and the start of the overlay. *)
LEMMA ProcessKeeps ==
    ASSUME IInv, (\E s \in Servers : Kill(s) \/ Act(s)) \/ Start
    PROVE  IInv'
  <1> USE DEF IInv
  <1>1. ASSUME NEW s \in Servers, Kill(s) PROVE IInv'
    <2>0. <<>> \in Seq(BOOLEAN)
      BY EmptySeq
    <2>1. TypeOK'
      BY <1>1, <2>0, CaptureAssumption DEF Kill, TypeOK, overlayVars, handlerVars, Holding, Handshaking
    <2>2. Screen'
      BY <1>1 DEF Kill, Screen, Gone, Off, Hidden, Blank, overlayVars, handlerVars
    <2>3. Answers' /\ Quiet'
      BY <1>1, CaptureAssumption DEF Kill, Answers, Quiet, Blank, overlayVars, handlerVars, TypeOK
    <2> QED
      BY <2>1, <2>2, <2>3
  <1>2. ASSUME NEW s \in Servers, Act(s) PROVE IInv'
    <2>1. inbox' \in Seq(Messages) /\ running
      BY <1>2, ReportTyped DEF Act
    <2>2. TypeOK'
      BY <1>2, <2>1, CaptureAssumption DEF Act, TypeOK, overlayVars, handlerVars
    <2>3. Screen' /\ Answers' /\ Quiet'
      BY <1>2, <2>1 DEF Act, Screen, Gone, Off, Hidden, Answers, Quiet, Blank, overlayVars, handlerVars
    <2> QED
      BY <2>2, <2>3
  <1>3. CASE Start
    <2>1. TypeOK'
      BY <1>3 DEF Start, TypeOK, handlerVars
    <2>2. Screen' /\ Answers' /\ Quiet'
      BY <1>3 DEF Start, Screen, Gone, Off, Hidden, Answers, Quiet, Blank, handlerVars
    <2> QED
      BY <2>1, <2>2
  <1> QED
    BY <1>1, <1>2, <1>3

(* The handlers of the overlay, one by one. *)
LEMMA OverlayKeeps ==
    ASSUME IInv, OverlayStep
    PROVE  IInv'
  <1> USE DEF IInv
  <1>1. inbox # <<>> => Head(inbox) \in Messages /\ Tail(inbox) \in Seq(Messages)
    BY TailFacts DEF TypeOK
  <1>2. CASE HandleBegin
    <2>1. TypeOK'
      BY <1>1, <1>2 DEF HandleBegin, Suspend, OnScreen, TypeOK, Messages
    <2>2. Screen'
      BY <1>2 DEF HandleBegin, Suspend, OnScreen, Screen, Gone, Off, Hidden, Blank, TypeOK
    <2>3. Answers' /\ Quiet'
      BY <1>2 DEF HandleBegin, Suspend, Answers, Quiet, Blank
    <2> QED
      BY <2>1, <2>2, <2>3
  <1>3. CASE Reply
    <2>1. asker \in Servers /\ replies[asker] \in Seq(BOOLEAN) /\ saw \in BOOLEAN
      BY <1>3 DEF Reply, TypeOK
    <2>2. /\ Append(replies[asker], saw) \in Seq(BOOLEAN)
          /\ \A i \in 1..Len(Append(replies[asker], saw)) :
                \/ i \in 1..Len(replies[asker]) /\ Append(replies[asker], saw)[i] = replies[asker][i]
                \/ Append(replies[asker], saw)[i] = saw
      BY <2>1
    <2>3. replies' = [replies EXCEPT ![asker] = Append(replies[asker], saw)]
          /\ replies \in [Servers -> Seq(BOOLEAN)]
      BY <1>3 DEF Reply, TypeOK
    <2>4. TypeOK'
      BY <1>3, <2>1, <2>2, <2>3 DEF Reply, TypeOK, overlayVars
    <2>5. Screen' /\ Quiet'
      BY <1>3 DEF Reply, Screen, Gone, Off, Hidden, Quiet, Blank, overlayVars
    <2>6. Blank' /\ (~saw => ~recent)
      BY <1>3 DEF Reply, Screen, Hidden, Blank, overlayVars
    <2>7. Answers'
      <3> SUFFICES ASSUME NEW c \in Captures, (pc[c] \in {"locked", "asked"})',
                          NEW i \in (1..Len(replies[Server[c]]))'
                   PROVE  (Blank /\ (~replies[Server[c]][i] => ~recent))'
        BY DEF Answers
      <3>1. recent' = recent /\ pc' = pc /\ panels' = panels
        BY <1>3 DEF Reply, overlayVars
      <3>2. CASE Server[c] = asker
        BY <2>1, <2>2, <2>3, <2>6, <3>1, <3>2 DEF Answers
      <3>3. CASE Server[c] # asker
        BY <2>3, <2>6, <3>1, <3>3, CaptureAssumption DEF Answers
      <3> QED
        BY <3>2, <3>3
    <2> QED
      BY <2>4, <2>5, <2>7
  <1>4. CASE HandleEnd
    <2>1. TypeOK'
      BY <1>1, <1>4 DEF HandleEnd, TypeOK, overlayVars
    <2>2. Screen' /\ Answers' /\ Quiet'
      BY <1>4 DEF HandleEnd, Screen, Gone, Off, Hidden, Answers, Quiet, Blank, overlayVars
    <2> QED
      BY <2>1, <2>2
  <1>5. CASE HandleAction
    <2>1. TypeOK'
      BY <1>1, <1>5 DEF HandleAction, TypeOK
    <2>2. Screen' /\ Answers' /\ Quiet'
      BY <1>5 DEF HandleAction, Screen, Gone, Off, Hidden, Answers, Quiet, Blank
    <2> QED
      BY <2>1, <2>2
  <1>6. CASE Tick
    <2>1. TypeOK'
      BY <1>6 DEF Tick, TypeOK, overlayVars
    <2>2. Screen' /\ Answers' /\ Quiet'
      BY <1>6 DEF Tick, Screen, Gone, Off, Hidden, Answers, Quiet, Blank, overlayVars
    <2> QED
      BY <2>1, <2>2
  <1>7. CASE Poll
    <2>1. TypeOK'
      BY <1>7 DEF Poll, TypeOK
    <2>2. Screen' /\ Answers' /\ Quiet'
      BY <1>7 DEF Poll, Screen, Gone, Off, Hidden, Answers, Quiet, Blank
    <2> QED
      BY <2>1, <2>2
  <1>8. CASE Sync
    <2>1. TypeOK'
      BY <1>8 DEF Sync, Suspend, TypeOK
    <2>2. Screen'
      BY <1>8 DEF Sync, Suspend, Screen, Gone, Off, Hidden, Blank
    <2>3. \A c \in Captures : pc[c] \in Holding => Held
      BY DEF TypeOK, Held
    <2>4. Answers' /\ Quiet'
      BY <1>8, <2>3 DEF Sync, Suspend, Answers, Quiet, Blank, Holding, Handshaking
    <2> QED
      BY <2>1, <2>2, <2>4
  <1>9. CASE Draw
    <2>1. TypeOK'
      BY <1>9 DEF Draw, TypeOK
    <2>2. Screen'
      BY <1>9 DEF Draw, Screen, Gone, Off, Hidden, Blank
    <2>3. \A c \in Captures : pc[c] \in {"locked", "asked"} => 1..Len(replies[Server[c]]) = {}
      BY <1>9 DEF Draw, Answers, Blank
    <2>4. Answers' /\ Quiet'
      BY <1>9, <2>3 DEF Draw, Answers, Quiet, Blank
    <2> QED
      BY <2>1, <2>2, <2>4
  <1> QED
    BY <1>2, <1>3, <1>4, <1>5, <1>6, <1>7, <1>8, <1>9 DEF OverlayStep

(* The end of the overlay, by the clock, and what the compositor does. *)
LEMMA ScreenKeeps ==
    ASSUME IInv, Fade \/ Exit \/ Crash \/ Dropped \/ SettleOver \/ Closed
    PROVE  IInv'
  <1> USE DEF IInv
  <1>1. TypeOK'
    <2>1. CASE Fade
      BY <2>1 DEF Fade, TypeOK, handlerVars
    <2>2. CASE Exit
      <3>1. <<>> \in Seq(Messages)
        BY EmptySeq
      <3> QED
        BY <2>2, <3>1 DEF Exit, TypeOK, handlerVars
    <2>3. CASE Crash
      <3>1. <<>> \in Seq(Messages)
        BY EmptySeq
      <3> QED
        BY <2>3, <3>1 DEF Crash, TypeOK
    <2>4. CASE Dropped
      BY <2>4 DEF Dropped, TypeOK, handlerVars
    <2>5. CASE SettleOver
      BY <2>5 DEF SettleOver, TypeOK, handlerVars
    <2>6. CASE Closed
      BY <2>6 DEF Closed, TypeOK, handlerVars
    <2> QED
      BY <2>1, <2>2, <2>3, <2>4, <2>5, <2>6
  <1>2. Screen'
    <2>1. CASE Fade
      BY <2>1 DEF Fade, Screen, Gone, Off, Hidden, Blank, TypeOK, handlerVars
    <2>2. CASE Exit
      BY <2>2 DEF Exit, Screen, Gone, Off, Hidden, Blank, TypeOK, handlerVars
    <2>3. CASE Crash
      BY <2>3 DEF Crash, Screen, Gone, Off, Hidden, Blank, TypeOK
    <2>4. CASE Dropped
      BY <2>4 DEF Dropped, Screen, Gone, Off, Hidden, Blank, TypeOK, handlerVars
    <2>5. CASE SettleOver
      BY <2>5 DEF SettleOver, Screen, Gone, Off, Hidden, Blank, TypeOK, handlerVars
    <2>6. CASE Closed
      BY <2>6 DEF Closed, Screen, Gone, Off, Hidden, Blank, TypeOK, handlerVars
    <2> QED
      BY <2>1, <2>2, <2>3, <2>4, <2>5, <2>6
  <1>3. Answers'
    BY DEF Fade, Exit, Crash, Dropped, SettleOver, Closed, Answers, Blank, handlerVars
  <1>4. Quiet'
    BY DEF Fade, Exit, Crash, Dropped, SettleOver, Closed, Quiet, Blank, handlerVars
  <1> QED
    BY <1>1, <1>2, <1>3, <1>4

(* Every step keeps the invariant. *)
LEMMA NextIInv ==
    ASSUME IInv, [Next]_vars
    PROVE  IInv'
  <1>1. CASE UNCHANGED vars
    BY <1>1 DEF IInv, TypeOK, Screen, Gone, Off, Hidden, Answers, Quiet, Blank,
       vars, overlayVars, handlerVars
  <1>2. CASE Next
    <2>1. CASE \E c \in Captures : Hold(c) \/ Cancel(c)
      BY <2>1, ServerKeeps
    <2>2. CASE (\E s \in Servers : Kill(s) \/ Act(s)) \/ Start
      BY <2>2, ProcessKeeps
    <2>3. CASE OverlayStep
      BY <2>3, OverlayKeeps
    <2>4. CASE Fade \/ Exit \/ Crash \/ Dropped \/ SettleOver \/ Closed
      BY <2>4, ScreenKeeps
    <2> QED
      BY <1>2, <2>1, <2>2, <2>3, <2>4 DEF Next
  <1> QED
    BY <1>1, <1>2

(* With nothing recently removed and nothing there, the screen is clear. *)
LEMMA IInvClear == IInv => NoOverlayInCapture
  BY DEF IInv, Screen, Gone, Quiet, Blank, NoOverlayInCapture

(* No picture is taken of the overlay, unless it crashed. *)
THEOREM NeverPictured == Spec => []NoOverlayInCapture
  <1>1. IInv /\ [Next]_vars => IInv'
    BY NextIInv
  <1>2. QED
    BY <1>1, InitIInv, IInvClear, PTL DEF Spec

(* Type correctness, and that the lock is held through a capture. *)
THEOREM TypeCorrect == Spec => []TypeOK
  <1>1. IInv /\ [Next]_vars => IInv'
    BY NextIInv
  <1>2. IInv => TypeOK
    BY DEF IInv
  <1>3. QED
    BY <1>1, <1>2, InitIInv, PTL DEF Spec

-----------------------------------------------------------------------------
(***************************************************************************)
(* CosmicHelper, for any windows, outputs, arrangements and number of      *)
(* changes.                                                                *)
(*                                                                         *)
(* What the helper knows when it answers depends on events that were sent  *)
(* earlier and on those it has not read yet, so the argument is about the  *)
(* whole way of its view: from what it knows now each event on the wire    *)
(* leads to another view, all of them are true of what was so at some time *)
(* (Leads), and at the end the helper would know what there is but for the *)
(* bursts the compositor still owes (Ending).  Reading an event takes the  *)
(* first step of the way; a burst makes the way longer; a change of the    *)
(* desktop makes more true (Grows), so that the way there was stays one.   *)
(*                                                                         *)
(* A view is true when a window with a handle that was seen without the    *)
(* focus was not the only one to have it (RecordIsTrue), a place and an    *)
(* origin that are both known put the window where it was (PlaceIsTrue),   *)
(* and heads that are ready show one layout (LayoutShows).  In the middle  *)
(* of a burst heads are not ready, which is what makes half a layout       *)
(* harmless.                                                               *)
(***************************************************************************)

RecordType ==
    [listed : BOOLEAN, open : BOOLEAN, named : BOOLEAN, handle : BOOLEAN, seen : BOOLEAN,
     focused : BOOLEAN, at : [Outs -> Int \cup {NoWin}]]
OutputType == [logical : Int \cup {NoWin}, done : BOOLEAN]
HeadType ==
    [known : BOOLEAN, on : BOOLEAN, x : Int \cup {NoWin}, mode : Int \cup {NoWin}, over : BOOLEAN]
WindowNews == {"toplevel", "identifier", "closed", "focused", "unfocused"}
PlaceNews == {"geometry", "output_leave"}
EventKinds ==
    HeadNews \cup WindowNews \cup PlaceNews
        \cup {"logical", "output_done", "tops_done", "layout_done", "synced"}
EventType ==
    {ev \in [e : EventKinds, win : Wins \cup {NoWin}, out : Outs \cup {NoWin}, x : Int] :
        ev.win # NoWin => /\ ev.e \in WindowNews \cup PlaceNews
                          /\ ev.e \in PlaceNews => ev.out \in Outs}
WireRequest == [do : {"bind", "sync", "handle", "activate"}, win : Wins \cup {NoWin}]
MonitorType == [there : BOOLEAN, on : BOOLEAN, x : Int, mode : Int]
HadType ==
    [activated : SUBSET (Wins \cup {NoWin}), place : [Wins -> SUBSET Int],
     layout : SUBSET ([Outs -> MonitorType] \cup {NoWin}), shown : SUBSET Wins, always : SUBSET Wins]

\* What the helper knows: its view.
Views ==
    [rec : [Wins -> RecordType], outputs : [Outs -> OutputType], heads : [Outs -> HeadType],
     ready : BOOLEAN, trips : Nat]
Here == [rec |-> rec, outputs |-> outputs, heads |-> heads, ready |-> ready, trips |-> trips]

\* The view after an event.
ViewAfter(s, ev, info) ==
    [rec |-> IF ev.win = NoWin THEN s.rec
             ELSE [s.rec EXCEPT ![ev.win] = RecordAfter(s.rec[ev.win], ev, info)],
     outputs |-> IF ev.out = NoWin THEN s.outputs
                 ELSE [s.outputs EXCEPT ![ev.out] = OutputAfter(s.outputs[ev.out], ev)],
     heads |-> IF ev.e \in HeadNews
               THEN [s.heads EXCEPT ![ev.out] = HeadAfter(s.heads[ev.out], ev)] ELSE s.heads,
     ready |-> ev.e = "layout_done" \/ (s.ready /\ ev.e \notin HeadNews),
     trips |-> s.trips + IF ev.e = "synced" THEN 1 ELSE 0]

\* The window was not the only one, or the only nothing, that had the focus.
NotOnly(w, hd) == \E v \in hd.activated : v # w

\* A record tells of the window what was so.
RecordIsTrue(r, w, t, hd, info) ==
    /\ r.listed => w \in hd.shown /\ info
    /\ r.open => r.listed /\ r.handle = info
    /\ r.handle => r.open
    /\ r.focused => r.seen /\ w \in hd.activated
    /\ r.seen /\ ~r.focused => NotOnly(w, hd)
    /\ r.listed /\ ~r.open => NotOnly(w, hd) /\ w \notin hd.always
    /\ t >= 1 /\ ~r.listed /\ info => NotOnly(w, hd) /\ w \notin hd.always
    /\ t >= 1 /\ w \in hd.always /\ info => r.named

PlaceIsTrue(x, l, places) == x # NoWin /\ l # NoWin => l + x \in places

HeadShows(s, m) ==
    /\ (s.known /\ ~s.over) = m.there
    /\ m.there => s.on = m.on
    /\ m.there /\ m.on => s.x = m.x /\ s.mode = m.mode
LayoutShows(hs, ls) == \E l \in ls : \A h \in Outs : HeadShows(hs[h], l[h])

ViewIsTrue(s, hd, info) ==
    /\ s \in Views
    /\ \A w \in Wins : RecordIsTrue(s.rec[w], w, s.trips, hd, info)
    /\ \A w \in Wins, o \in Outs :
          PlaceIsTrue(s.rec[w].at[o], s.outputs[o].logical, hd.place[w])
    /\ s.ready => LayoutShows(s.heads, hd.layout)

\* From a view the events lead to another, and each on the way is true.
IsPath(f, s, wr, z, hd, info) ==
    /\ f \in [0..Len(wr) -> Views]
    /\ f[0] = s /\ f[Len(wr)] = z
    /\ \A k \in 1..Len(wr) : f[k] = ViewAfter(f[k - 1], wr[k], info)
    /\ \A k \in 0..Len(wr) : ViewIsTrue(f[k], hd, info)
Leads(s, wr, z, hd, info) == \E f : IsPath(f, s, wr, z, hd, info)

\* What was so only becomes more.
Grows(hd, hd2) ==
    /\ hd.activated \subseteq hd2.activated /\ hd.shown \subseteq hd2.shown
    /\ hd2.always \subseteq hd.always /\ hd.layout \subseteq hd2.layout
    /\ \A w \in Wins : hd.place[w] \subseteq hd2.place[w]

LEMMA LeadsHere ==
    ASSUME NEW s, NEW hd, NEW info, ViewIsTrue(s, hd, info)
    PROVE  Leads(s, <<>>, s, hd, info)
<1> DEFINE f == [k \in 0..0 |-> s]
<1>1. Len(<<>>) = 0 /\ 1..0 = {} /\ 0..0 = {0} OBVIOUS
<1>2. s \in Views BY DEF ViewIsTrue
<1>3. f \in [0..0 -> Views] /\ f[0] = s BY <1>2
<1>4. IsPath(f, s, <<>>, s, hd, info) BY <1>1, <1>3 DEF IsPath
<1> QED BY <1>4 DEF Leads

LEMMA LeadsEmit ==
    ASSUME NEW s, NEW z, NEW hd, NEW info, NEW wr \in Seq(EventType), NEW ev \in EventType,
           Leads(s, wr, z, hd, info), ViewIsTrue(ViewAfter(z, ev, info), hd, info)
    PROVE  Leads(s, Append(wr, ev), ViewAfter(z, ev, info), hd, info)
<1>1. PICK f : IsPath(f, s, wr, z, hd, info) BY DEF Leads
<1> DEFINE n == Len(wr)
           y == ViewAfter(z, ev, info)
           g == [k \in 0..(n + 1) |-> IF k <= n THEN f[k] ELSE y]
           wr2 == Append(wr, ev)
<1>2. n \in Nat /\ Len(wr2) = n + 1 /\ wr2[n + 1] = ev /\ \A k \in 1..n : wr2[k] = wr[k]
  OBVIOUS
<1>3. y \in Views BY DEF ViewIsTrue
<1>4. \A k \in 0..n : f[k] \in Views BY <1>1, <1>2 DEF IsPath
<1> HIDE DEF y
<1>5. /\ g \in [0..(n + 1) -> Views] /\ g[n + 1] = y
      /\ \A k \in 0..n : g[k] = f[k]
  BY <1>2, <1>3, <1>4
<1>6. g[0] = s /\ g[n] = z BY <1>1, <1>2, <1>5 DEF IsPath
<1> HIDE DEF g, wr2
<1>7. ASSUME NEW k \in 1..(n + 1) PROVE g[k] = ViewAfter(g[k - 1], wr2[k], info)
  <2>1. CASE k = n + 1 BY <2>1, <1>2, <1>5, <1>6 DEF y
  <2>2. CASE k \in 1..n
    <3>1. k - 1 \in 0..n /\ k \in 0..n BY <2>2, <1>2
    <3>2. f[k] = ViewAfter(f[k - 1], wr[k], info) BY <1>1, <2>2 DEF IsPath
    <3> QED BY <3>1, <3>2, <1>2, <1>5, <2>2
  <2> QED BY <2>1, <2>2, <1>2
<1>8. ASSUME NEW k \in 0..(n + 1) PROVE ViewIsTrue(g[k], hd, info)
  <2>1. CASE k = n + 1 BY <2>1, <1>5 DEF y
  <2>2. CASE k \in 0..n
    <3>1. ViewIsTrue(f[k], hd, info) BY <1>1, <2>2 DEF IsPath
    <3> QED BY <3>1, <1>5, <2>2
  <2> QED BY <2>1, <2>2, <1>2
<1>9. IsPath(g, s, wr2, y, hd, info) BY <1>2, <1>5, <1>6, <1>7, <1>8 DEF IsPath
<1> QED BY <1>9 DEF Leads, y, wr2

LEMMA LeadsRead ==
    ASSUME NEW s, NEW z, NEW hd, NEW info, NEW wr \in Seq(EventType), wr # <<>>,
           Leads(s, wr, z, hd, info)
    PROVE  /\ ViewIsTrue(ViewAfter(s, Head(wr), info), hd, info)
           /\ Leads(ViewAfter(s, Head(wr), info), Tail(wr), z, hd, info)
<1>1. PICK f : IsPath(f, s, wr, z, hd, info) BY DEF Leads
<1> DEFINE n == Len(wr)
           y == ViewAfter(s, Head(wr), info)
           g == [k \in 0..(n - 1) |-> f[k + 1]]
           wr2 == Tail(wr)
<1>2. /\ n \in Nat /\ n >= 1 /\ Len(wr2) = n - 1 /\ wr[1] = Head(wr)
      /\ \A k \in 1..(n - 1) : wr2[k] = wr[k + 1]
  OBVIOUS
<1>3. f[1] = y
  <2>1. f[1] = ViewAfter(f[1 - 1], wr[1], info) BY <1>1, <1>2 DEF IsPath
  <2>2. f[0] = s /\ 1 - 1 = 0 BY <1>1 DEF IsPath
  <2> QED BY <2>1, <2>2, <1>2
<1>4. \A k \in 0..n : f[k] \in Views BY <1>1, <1>2 DEF IsPath
<1> HIDE DEF y
<1>5. /\ g \in [0..(n - 1) -> Views]
      /\ \A k \in 0..(n - 1) : g[k] = f[k + 1]
  BY <1>2, <1>4
<1>6. g[0] = y /\ g[n - 1] = z
  <2>1. f[n] = z BY <1>1 DEF IsPath
  <2>2. 0 \in 0..(n - 1) /\ n - 1 \in 0..(n - 1) /\ 0 + 1 = 1 /\ (n - 1) + 1 = n BY <1>2
  <2> QED BY <2>1, <2>2, <1>3, <1>5
<1> HIDE DEF g, wr2
<1>7. ASSUME NEW k \in 1..(n - 1) PROVE g[k] = ViewAfter(g[k - 1], wr2[k], info)
  <2>1. k + 1 \in 1..n /\ (k + 1) - 1 = k /\ k - 1 \in 0..(n - 1) /\ k \in 0..(n - 1)
        /\ (k - 1) + 1 = k
    BY <1>2
  <2>2. f[k + 1] = ViewAfter(f[(k + 1) - 1], wr[k + 1], info) BY <1>1, <2>1 DEF IsPath
  <2> QED BY <2>1, <2>2, <1>2, <1>5
<1>8. ASSUME NEW k \in 0..(n - 1) PROVE ViewIsTrue(g[k], hd, info)
  <2>1. k + 1 \in 0..n BY <1>2
  <2>2. ViewIsTrue(f[k + 1], hd, info) BY <1>1, <2>1 DEF IsPath
  <2> QED BY <2>2, <1>5
<1>9. IsPath(g, y, wr2, z, hd, info) BY <1>2, <1>5, <1>6, <1>7, <1>8 DEF IsPath
<1>10. ViewIsTrue(y, hd, info) BY <1>8, <1>6, <1>2
<1> QED BY <1>9, <1>10 DEF Leads, y, wr2

LEMMA ViewStaysTrue ==
    ASSUME NEW s, NEW hd, NEW hd2, NEW info, ViewIsTrue(s, hd, info), Grows(hd, hd2)
    PROVE  ViewIsTrue(s, hd2, info)
<1>1. \A w \in Wins : NotOnly(w, hd) => NotOnly(w, hd2) BY DEF Grows, NotOnly
<1>2. \A w \in Wins : RecordIsTrue(s.rec[w], w, s.trips, hd2, info)
  BY <1>1 DEF ViewIsTrue, Grows, RecordIsTrue
<1>3. \A w \in Wins, o \in Outs :
          PlaceIsTrue(s.rec[w].at[o], s.outputs[o].logical, hd2.place[w])
  BY DEF ViewIsTrue, Grows, PlaceIsTrue
<1>4. s.ready => LayoutShows(s.heads, hd2.layout) BY DEF ViewIsTrue, Grows, LayoutShows
<1> QED BY <1>2, <1>3, <1>4 DEF ViewIsTrue

LEMMA LeadsMore ==
    ASSUME NEW s, NEW z, NEW hd, NEW hd2, NEW info, NEW wr \in Seq(EventType),
           Leads(s, wr, z, hd, info), Grows(hd, hd2)
    PROVE  Leads(s, wr, z, hd2, info)
<1>1. PICK f : IsPath(f, s, wr, z, hd, info) BY DEF Leads
<1>2. \A k \in 0..Len(wr) : ViewIsTrue(f[k], hd2, info)
  BY <1>1, ViewStaysTrue DEF IsPath
<1>3. IsPath(f, s, wr, z, hd2, info) BY <1>1, <1>2 DEF IsPath
<1> QED BY <1>3 DEF Leads

LEMMA LeadsEnds ==
    ASSUME NEW s, NEW z, NEW hd, NEW info, NEW wr \in Seq(EventType),
           Leads(s, wr, z, hd, info)
    PROVE  ViewIsTrue(s, hd, info) /\ ViewIsTrue(z, hd, info)
<1>1. PICK f : IsPath(f, s, wr, z, hd, info) BY DEF Leads
<1>2. 0 \in 0..Len(wr) /\ Len(wr) \in 0..Len(wr) OBVIOUS
<1> QED BY <1>1, <1>2 DEF IsPath

-----------------------------------------------------------------------------
\* What one event does to a view.

View(r, o, h, b, t) == [rec |-> r, outputs |-> o, heads |-> h, ready |-> b, trips |-> t]
WithRecord(z, w, r) == View([z.rec EXCEPT ![w] = r], z.outputs, z.heads, z.ready, z.trips)
WithOutput(z, o, p) == View(z.rec, [z.outputs EXCEPT ![o] = p], z.heads, z.ready, z.trips)
WithHead(z, h, s) == View(z.rec, z.outputs, [z.heads EXCEPT ![h] = s], FALSE, z.trips)

LEMMA EventFields ==
    ASSUME NEW ev \in EventType
    PROVE  /\ ev.e \in EventKinds /\ ev.win \in Wins \cup {NoWin} /\ ev.out \in Outs \cup {NoWin}
           /\ ev.x \in Int
           /\ ev.win # NoWin => /\ ev.e \in WindowNews \cup PlaceNews
                                /\ ev.e \in PlaceNews => ev.out \in Outs
  BY DEF EventType

LEMMA ViewFields ==
    ASSUME NEW z \in Views
    PROVE  /\ z = View(z.rec, z.outputs, z.heads, z.ready, z.trips)
           /\ z.rec \in [Wins -> RecordType] /\ z.outputs \in [Outs -> OutputType]
           /\ z.heads \in [Outs -> HeadType] /\ z.ready \in BOOLEAN /\ z.trips \in Nat
           /\ z.trips + 0 = z.trips
<1>1. z.trips \in Nat BY DEF Views
<1>2. z.trips + 0 = z.trips BY <1>1
<1> QED BY <1>1, <1>2 DEF Views, View

LEMMA SetRecord ==
    ASSUME NEW z, NEW hd, NEW info, NEW w \in Wins, NEW r \in RecordType,
           ViewIsTrue(z, hd, info), RecordIsTrue(r, w, z.trips, hd, info),
           \A o \in Outs : PlaceIsTrue(r.at[o], z.outputs[o].logical, hd.place[w])
    PROVE  ViewIsTrue(WithRecord(z, w, r), hd, info)
<1> DEFINE y == WithRecord(z, w, r)
<1>1. z \in Views BY DEF ViewIsTrue
<1>2. /\ y \in Views /\ y.outputs = z.outputs /\ y.heads = z.heads /\ y.ready = z.ready
      /\ y.trips = z.trips /\ y.rec[w] = r
      /\ \A v \in Wins : v # w => y.rec[v] = z.rec[v]
  BY <1>1 DEF Views, View, WithRecord
<1> HIDE DEF y
<1>3. \A v \in Wins : RecordIsTrue(y.rec[v], v, y.trips, hd, info)
  BY <1>2 DEF ViewIsTrue
<1>4. \A v \in Wins, o \in Outs :
          PlaceIsTrue(y.rec[v].at[o], y.outputs[o].logical, hd.place[v])
  BY <1>2 DEF ViewIsTrue
<1>5. y.ready => LayoutShows(y.heads, hd.layout) BY <1>2 DEF ViewIsTrue
<1>6. ViewIsTrue(y, hd, info) BY <1>2, <1>3, <1>4, <1>5 DEF ViewIsTrue
<1> QED BY <1>6 DEF y

\* An event of a window changes its record and nothing else.
LEMMA WindowTold ==
    ASSUME NEW z \in Views, NEW info \in BOOLEAN, NEW ev \in EventType, ev.win \in Wins,
           \/ ev.e \in WindowNews /\ ev.out = NoWin
           \/ ev.e \in PlaceNews /\ ev.out \in Outs
    PROVE  /\ RecordAfter(z.rec[ev.win], ev, info) \in RecordType
           /\ ViewAfter(z, ev, info) =
                WithRecord(z, ev.win, RecordAfter(z.rec[ev.win], ev, info))
<1> DEFINE r == z.rec[ev.win]
           r2 == RecordAfter(r, ev, info)
<1>1. r \in RecordType BY DEF Views
<1>2. r2 \in RecordType
  <2> HIDE DEF r
  <2>1. CASE ev.e \in WindowNews /\ ev.out = NoWin
    BY <1>1, <2>1 DEF RecordAfter, WindowNews, RecordType
  <2>2. CASE ev.e = "geometry" /\ ev.out \in Outs
    BY <1>1, <2>2 DEF RecordAfter, RecordType, EventType
  <2>3. CASE ev.e = "output_leave" /\ ev.out \in Outs
    BY <1>1, <2>3 DEF RecordAfter, RecordType, EventType
  <2> QED BY <2>1, <2>2, <2>3 DEF PlaceNews
<1>3. ev.win # NoWin /\ \A o \in Outs : o # NoWin BY CosmicAssumption
<1>4. ev.e \notin HeadNews /\ ev.e # "layout_done" /\ ev.e # "synced"
  BY DEF WindowNews, PlaceNews, HeadNews
<1>5. (IF ev.out = NoWin THEN z.outputs
       ELSE [z.outputs EXCEPT ![ev.out] = OutputAfter(z.outputs[ev.out], ev)]) = z.outputs
  <2>1. CASE ev.out = NoWin BY <2>1
  <2>2. CASE ev.out \in Outs /\ ev.e \in PlaceNews
    <3>1. OutputAfter(z.outputs[ev.out], ev) = z.outputs[ev.out]
      BY <2>2 DEF OutputAfter, PlaceNews
    <3> QED BY <3>1, <1>3, <2>2 DEF Views
  <2> QED BY <2>1, <2>2
<1>6. z.trips + 0 = z.trips /\ z.ready \in BOOLEAN BY ViewFields
<1> HIDE DEF r2, r
<1>7. ViewAfter(z, ev, info) = WithRecord(z, ev.win, r2)
  BY <1>3, <1>4, <1>5, <1>6 DEF ViewAfter, r2, r, View, WithRecord
<1> QED BY <1>2, <1>7 DEF r2, r

\* An event of an output changes what is known of it and nothing else.
LEMMA OutputTold ==
    ASSUME NEW z \in Views, NEW info \in BOOLEAN, NEW ev \in EventType, ev.win = NoWin,
           ev.out \in Outs, ev.e \in {"logical", "output_done"}
    PROVE  /\ OutputAfter(z.outputs[ev.out], ev) \in OutputType
           /\ ViewAfter(z, ev, info) =
                WithOutput(z, ev.out, OutputAfter(z.outputs[ev.out], ev))
<1> DEFINE p == z.outputs[ev.out]
           p2 == OutputAfter(p, ev)
<1>1. p \in OutputType BY DEF Views
<1>2. p2 \in OutputType
  <2> HIDE DEF p
  <2> QED BY <1>1 DEF OutputAfter, OutputType, EventType
<1>3. ev.out # NoWin BY CosmicAssumption
<1>4. ev.e \notin HeadNews /\ ev.e # "layout_done" /\ ev.e # "synced" BY DEF HeadNews
<1>6. z.trips + 0 = z.trips /\ z.ready \in BOOLEAN BY ViewFields
<1> HIDE DEF p2, p
<1>7. ViewAfter(z, ev, info) = WithOutput(z, ev.out, p2)
  BY <1>3, <1>4, <1>6 DEF ViewAfter, p2, p, View, WithOutput
<1> QED BY <1>2, <1>7 DEF p2, p

\* An event of a head changes it, and the layout is not ready.
LEMMA HeadTold ==
    ASSUME NEW z \in Views, NEW info \in BOOLEAN, NEW ev \in EventType, ev.win = NoWin,
           ev.out \in Outs, ev.e \in HeadNews
    PROVE  /\ HeadAfter(z.heads[ev.out], ev) \in HeadType
           /\ ViewAfter(z, ev, info) =
                WithHead(z, ev.out, HeadAfter(z.heads[ev.out], ev))
<1> DEFINE p == z.heads[ev.out]
           p2 == HeadAfter(p, ev)
<1>1. p \in HeadType BY DEF Views
<1>2. p2 \in HeadType
  <2> HIDE DEF p
  <2> QED BY <1>1 DEF HeadAfter, HeadType, EventType, HeadNews, NoHead
<1>3. ev.out # NoWin BY CosmicAssumption
<1>4. ev.e # "layout_done" /\ ev.e # "synced" BY DEF HeadNews
<1>5. [z.outputs EXCEPT ![ev.out] = OutputAfter(z.outputs[ev.out], ev)] = z.outputs
  <2>1. OutputAfter(z.outputs[ev.out], ev) = z.outputs[ev.out]
    BY DEF OutputAfter, HeadNews
  <2> QED BY <2>1 DEF Views
<1>6. z.trips + 0 = z.trips /\ z.ready \in BOOLEAN BY ViewFields
<1> HIDE DEF p2, p
<1>7. ViewAfter(z, ev, info) = WithHead(z, ev.out, p2)
  BY <1>3, <1>4, <1>5, <1>6 DEF ViewAfter, p2, p, View, WithHead
<1> QED BY <1>2, <1>7 DEF p2, p

\* The other events are about nothing.
LEMMA SignTold ==
    ASSUME NEW z \in Views, NEW info \in BOOLEAN, NEW ev \in EventType, ev.win = NoWin,
           ev.out = NoWin, ev.e \in {"tops_done", "layout_done", "synced"}
    PROVE  ViewAfter(z, ev, info) =
              CASE ev.e = "tops_done" -> z
                [] ev.e = "layout_done" -> View(z.rec, z.outputs, z.heads, TRUE, z.trips)
                [] ev.e = "synced" -> View(z.rec, z.outputs, z.heads, z.ready, z.trips + 1)
<1>1. ev.e \notin HeadNews BY DEF HeadNews
<1>2. z.trips + 0 = z.trips /\ z.ready \in BOOLEAN BY ViewFields
<1>3. ViewAfter(z, ev, info) =
        View(z.rec, z.outputs, z.heads, ev.e = "layout_done" \/ z.ready,
             z.trips + IF ev.e = "synced" THEN 1 ELSE 0)
  BY <1>1 DEF ViewAfter, View
<1>4. CASE ev.e = "tops_done" BY <1>2, <1>3, <1>4, ViewFields
<1>5. CASE ev.e = "layout_done" BY <1>2, <1>3, <1>5, ViewFields
<1>6. CASE ev.e = "synced" BY <1>2, <1>3, <1>6, ViewFields
<1> QED BY <1>4, <1>5, <1>6

\* And what it does to a path.

LEMMA OneMore ==
    ASSUME NEW S, NEW wr \in Seq(S), NEW a \in S
    PROVE  wr \o <<a>> = Append(wr, a) /\ Append(wr, a) \in Seq(S)
  OBVIOUS

LEMMA WindowEmit ==
    ASSUME NEW s, NEW z, NEW hd, NEW info \in BOOLEAN, NEW wr \in Seq(EventType),
           NEW ev \in EventType, ev.win \in Wins, Leads(s, wr, z, hd, info),
           \/ ev.e \in WindowNews /\ ev.out = NoWin
           \/ ev.e \in PlaceNews /\ ev.out \in Outs,
           RecordIsTrue(RecordAfter(z.rec[ev.win], ev, info), ev.win, z.trips, hd, info),
           \A o \in Outs : PlaceIsTrue(RecordAfter(z.rec[ev.win], ev, info).at[o],
                                       z.outputs[o].logical, hd.place[ev.win])
    PROVE  /\ Append(wr, ev) \in Seq(EventType)
           /\ Leads(s, Append(wr, ev),
                    WithRecord(z, ev.win, RecordAfter(z.rec[ev.win], ev, info)), hd, info)
<1>1. ViewIsTrue(z, hd, info) BY LeadsEnds
<1>2. z \in Views BY <1>1 DEF ViewIsTrue
<1>3. /\ RecordAfter(z.rec[ev.win], ev, info) \in RecordType
      /\ ViewAfter(z, ev, info) = WithRecord(z, ev.win, RecordAfter(z.rec[ev.win], ev, info))
  BY <1>2, WindowTold
<1>4. ViewIsTrue(ViewAfter(z, ev, info), hd, info) BY <1>1, <1>3, SetRecord
<1> QED BY <1>3, <1>4, LeadsEmit

LEMMA OutputEmit ==
    ASSUME NEW s, NEW z, NEW hd, NEW info \in BOOLEAN, NEW wr \in Seq(EventType),
           NEW ev \in EventType, ev.win = NoWin, ev.out \in Outs,
           ev.e \in {"logical", "output_done"}, Leads(s, wr, z, hd, info),
           \A w \in Wins : PlaceIsTrue(z.rec[w].at[ev.out],
                                       OutputAfter(z.outputs[ev.out], ev).logical, hd.place[w])
    PROVE  /\ Append(wr, ev) \in Seq(EventType)
           /\ Leads(s, Append(wr, ev),
                    WithOutput(z, ev.out, OutputAfter(z.outputs[ev.out], ev)), hd, info)
<1> DEFINE p == OutputAfter(z.outputs[ev.out], ev)
           y == WithOutput(z, ev.out, p)
<1>1. ViewIsTrue(z, hd, info) BY LeadsEnds
<1>2. z \in Views BY <1>1 DEF ViewIsTrue
<1>3. p \in OutputType /\ ViewAfter(z, ev, info) = y BY <1>2, OutputTold
<1>4. y \in Views /\ y.rec = z.rec /\ y.trips = z.trips /\ y.ready = z.ready
      /\ y.heads = z.heads /\ y.outputs[ev.out] = p
      /\ \A o \in Outs : o # ev.out => y.outputs[o] = z.outputs[o]
  <2> HIDE DEF p
  <2> QED BY <1>2, <1>3, ViewFields DEF WithOutput, View, Views
<1> HIDE DEF y
<1>5. \A w \in Wins, o \in Outs :
          PlaceIsTrue(y.rec[w].at[o], y.outputs[o].logical, hd.place[w])
  BY <1>1, <1>4 DEF ViewIsTrue
<1>6. ViewIsTrue(y, hd, info) BY <1>1, <1>4, <1>5 DEF ViewIsTrue
<1>7. ViewIsTrue(ViewAfter(z, ev, info), hd, info) BY <1>3, <1>6
<1>8. Leads(s, Append(wr, ev), ViewAfter(z, ev, info), hd, info) BY <1>7, LeadsEmit
<1>9. Append(wr, ev) \in Seq(EventType) BY OneMore
<1> QED BY <1>3, <1>8, <1>9 DEF y

LEMMA HeadEmit ==
    ASSUME NEW s, NEW z, NEW hd, NEW info \in BOOLEAN, NEW wr \in Seq(EventType),
           NEW ev \in EventType, ev.win = NoWin, ev.out \in Outs, ev.e \in HeadNews,
           Leads(s, wr, z, hd, info)
    PROVE  /\ Append(wr, ev) \in Seq(EventType)
           /\ WithHead(z, ev.out, HeadAfter(z.heads[ev.out], ev)) \in Views
           /\ Leads(s, Append(wr, ev),
                    WithHead(z, ev.out, HeadAfter(z.heads[ev.out], ev)), hd, info)
<1> DEFINE p == HeadAfter(z.heads[ev.out], ev)
           y == WithHead(z, ev.out, p)
<1>1. ViewIsTrue(z, hd, info) BY LeadsEnds
<1>2. z \in Views BY <1>1 DEF ViewIsTrue
<1>3. p \in HeadType /\ ViewAfter(z, ev, info) = y BY <1>2, HeadTold
<1>4. y \in Views /\ y.rec = z.rec /\ y.trips = z.trips /\ y.ready = FALSE
      /\ y.outputs = z.outputs
  <2> HIDE DEF p
  <2> QED BY <1>2, <1>3, ViewFields DEF WithHead, View, Views
<1> HIDE DEF y
<1>6. ViewIsTrue(y, hd, info) BY <1>1, <1>4 DEF ViewIsTrue
<1>7. ViewIsTrue(ViewAfter(z, ev, info), hd, info) BY <1>3, <1>6
<1>8. Leads(s, Append(wr, ev), ViewAfter(z, ev, info), hd, info) BY <1>7, LeadsEmit
<1> QED BY <1>3, <1>4, <1>8 DEF y

Sign(news) == Event(news, NoWin, NoWin, 0)

IsSign(ev, news) == ev \in EventType /\ ev.win = NoWin /\ ev.out = NoWin /\ ev.e = news

LEMMA EventTyped ==
    ASSUME NEW k \in EventKinds, NEW w \in Wins \cup {NoWin}, NEW o \in Outs \cup {NoWin},
           NEW x \in Int, w # NoWin => /\ k \in WindowNews \cup PlaceNews
                                       /\ k \in PlaceNews => o \in Outs
    PROVE  /\ Event(k, w, o, x) \in EventType /\ Event(k, w, o, x).e = k
           /\ Event(k, w, o, x).win = w /\ Event(k, w, o, x).out = o
           /\ Event(k, w, o, x).x = x
  BY DEF Event, EventType

LEMMA SignIsEvent ==
    /\ IsSign(Sign("tops_done"), "tops_done")
    /\ IsSign(Sign("layout_done"), "layout_done")
    /\ IsSign(Sign("synced"), "synced")
<1>1. /\ {"tops_done", "layout_done", "synced"} \subseteq EventKinds
      /\ NoWin \in Wins \cup {NoWin} /\ NoWin \in Outs \cup {NoWin} /\ 0 \in Int
  BY DEF EventKinds
<1>2. ASSUME NEW k \in EventKinds PROVE IsSign(Sign(k), k)
  <2>1. /\ Event(k, NoWin, NoWin, 0) \in EventType /\ Event(k, NoWin, NoWin, 0).e = k
        /\ Event(k, NoWin, NoWin, 0).win = NoWin /\ Event(k, NoWin, NoWin, 0).out = NoWin
    BY <1>1, EventTyped
  <2> QED BY <2>1 DEF IsSign, Sign
<1> QED BY <1>1, <1>2

LEMMA DoneEmit ==
    ASSUME NEW s, NEW z, NEW hd, NEW info \in BOOLEAN, NEW wr \in Seq(EventType),
           Leads(s, wr, z, hd, info)
    PROVE  wr \o Done \in Seq(EventType) /\ Leads(s, wr \o Done, z, hd, info)
<1>1. ViewIsTrue(z, hd, info) BY LeadsEnds
<1>2. z \in Views BY <1>1 DEF ViewIsTrue
<1> DEFINE ev == Sign("tops_done")
<1>3. ev \in EventType /\ ev.win = NoWin /\ ev.out = NoWin /\ ev.e = "tops_done"
  BY SignIsEvent DEF IsSign
<1> HIDE DEF ev
<1>4. ViewAfter(z, ev, info) = z BY <1>2, <1>3, SignTold
<1>5. Leads(s, Append(wr, ev), z, hd, info) BY <1>1, <1>3, <1>4, LeadsEmit
<1>6. wr \o Done = Append(wr, ev) BY <1>3, OneMore DEF Done, ev, Sign
<1>7. Append(wr, ev) \in Seq(EventType) BY <1>3, OneMore
<1> QED BY <1>5, <1>6, <1>7

LEMMA LayoutDoneEmit ==
    ASSUME NEW s, NEW z, NEW hd, NEW info \in BOOLEAN, NEW wr \in Seq(EventType),
           Leads(s, wr, z, hd, info), LayoutShows(z.heads, hd.layout)
    PROVE  /\ wr \o LayoutDone \in Seq(EventType)
           /\ Leads(s, wr \o LayoutDone, View(z.rec, z.outputs, z.heads, TRUE, z.trips), hd, info)
<1>1. ViewIsTrue(z, hd, info) BY LeadsEnds
<1>2. z \in Views BY <1>1 DEF ViewIsTrue
<1> DEFINE ev == Sign("layout_done")
           y == View(z.rec, z.outputs, z.heads, TRUE, z.trips)
<1>3. ev \in EventType /\ ev.win = NoWin /\ ev.out = NoWin /\ ev.e = "layout_done"
  BY SignIsEvent DEF IsSign
<1> HIDE DEF ev
<1>4. ViewAfter(z, ev, info) = y BY <1>2, <1>3, SignTold
<1>5. y \in Views /\ y.rec = z.rec /\ y.outputs = z.outputs /\ y.heads = z.heads
      /\ y.trips = z.trips
  BY <1>2, ViewFields DEF View, Views
<1> HIDE DEF y
<1>6. ViewIsTrue(y, hd, info) BY <1>1, <1>5 DEF ViewIsTrue
<1>7. Leads(s, Append(wr, ev), y, hd, info) BY <1>3, <1>4, <1>6, LeadsEmit
<1>8. wr \o LayoutDone = Append(wr, ev) BY <1>3, OneMore DEF LayoutDone, ev, Sign
<1>9. Append(wr, ev) \in Seq(EventType) BY <1>3, OneMore
<1> QED BY <1>7, <1>8, <1>9 DEF y

LEMMA SyncedEmit ==
    ASSUME NEW s, NEW z, NEW hd, NEW info \in BOOLEAN, NEW wr \in Seq(EventType),
           Leads(s, wr, z, hd, info),
           \A w \in Wins : RecordIsTrue(z.rec[w], w, z.trips + 1, hd, info)
    PROVE  /\ wr \o <<Sign("synced")>> \in Seq(EventType)
           /\ Leads(s, wr \o <<Sign("synced")>>,
                    View(z.rec, z.outputs, z.heads, z.ready, z.trips + 1), hd, info)
<1>1. ViewIsTrue(z, hd, info) BY LeadsEnds
<1>2. z \in Views BY <1>1 DEF ViewIsTrue
<1> DEFINE ev == Sign("synced")
           y == View(z.rec, z.outputs, z.heads, z.ready, z.trips + 1)
<1>3. ev \in EventType /\ ev.win = NoWin /\ ev.out = NoWin /\ ev.e = "synced"
  BY SignIsEvent DEF IsSign
<1> HIDE DEF ev
<1>4. ViewAfter(z, ev, info) = y BY <1>2, <1>3, SignTold
<1>5. y \in Views /\ y.rec = z.rec /\ y.outputs = z.outputs /\ y.heads = z.heads
      /\ y.ready = z.ready /\ y.trips = z.trips + 1
  BY <1>2, ViewFields DEF View, Views
<1> HIDE DEF y
<1>6. ViewIsTrue(y, hd, info) BY <1>1, <1>5 DEF ViewIsTrue
<1>7. Leads(s, Append(wr, ev), y, hd, info) BY <1>3, <1>4, <1>6, LeadsEmit
<1>8. wr \o <<ev>> = Append(wr, ev) BY <1>3, OneMore
<1>9. Append(wr, ev) \in Seq(EventType) BY <1>3, OneMore
<1> QED BY <1>7, <1>8, <1>9 DEF ev, y

LEMMA TwoMore ==
    ASSUME NEW S, NEW wr \in Seq(S), NEW a \in S, NEW b \in S
    PROVE  wr \o <<a, b>> = Append(Append(wr, a), b)
  OBVIOUS

LEMMA ThreeMore ==
    ASSUME NEW S, NEW wr \in Seq(S), NEW a \in S, NEW b \in S, NEW c \in S
    PROVE  wr \o <<a, b, c>> = Append(Append(Append(wr, a), b), c)
  OBVIOUS

-----------------------------------------------------------------------------
\* The bursts of the compositor.

SameButRecord(z, z2, w) ==
    /\ z2 \in Views /\ z2.outputs = z.outputs /\ z2.heads = z.heads
    /\ z2.ready = z.ready /\ z2.trips = z.trips
    /\ \A v \in Wins : v # w => z2.rec[v] = z.rec[v]

\* Only what is known of the focus differs.
SameButFocus(z, z2) ==
    /\ z2 \in Views /\ z2.outputs = z.outputs /\ z2.heads = z.heads
    /\ z2.ready = z.ready /\ z2.trips = z.trips
    /\ \A w \in Wins : /\ z2.rec[w].listed = z.rec[w].listed /\ z2.rec[w].open = z.rec[w].open
                       /\ z2.rec[w].named = z.rec[w].named /\ z2.rec[w].at = z.rec[w].at

LEMMA WithRecordFields ==
    ASSUME NEW z \in Views, NEW w \in Wins, NEW r \in RecordType
    PROVE  SameButRecord(z, WithRecord(z, w, r), w) /\ WithRecord(z, w, r).rec[w] = r
  BY ViewFields DEF SameButRecord, WithRecord, View, Views

LEMMA WithOutputFields ==
    ASSUME NEW z \in Views, NEW o \in Outs, NEW p \in OutputType
    PROVE  /\ WithOutput(z, o, p) \in Views /\ WithOutput(z, o, p).rec = z.rec
           /\ WithOutput(z, o, p).heads = z.heads /\ WithOutput(z, o, p).ready = z.ready
           /\ WithOutput(z, o, p).trips = z.trips /\ WithOutput(z, o, p).outputs[o] = p
           /\ \A q \in Outs : q # o => WithOutput(z, o, p).outputs[q] = z.outputs[q]
  BY ViewFields DEF WithOutput, View, Views

SameButHead(z, z2, h) ==
    /\ z2 \in Views /\ z2.rec = z.rec /\ z2.outputs = z.outputs /\ z2.trips = z.trips
    /\ z2.ready = FALSE
    /\ \A g \in Outs : g # h => z2.heads[g] = z.heads[g]

LEMMA WithHeadFields ==
    ASSUME NEW z \in Views, NEW h \in Outs, NEW p \in HeadType
    PROVE  SameButHead(z, WithHead(z, h, p), h) /\ WithHead(z, h, p).heads[h] = p
  BY ViewFields DEF WithHead, View, Views, SameButHead

\* What the events of a window say.
OfWindow(ev, w) ==
    /\ ev \in EventType /\ ev.win = w
    /\ \/ ev.e \in WindowNews /\ ev.out = NoWin
       \/ ev.e \in PlaceNews /\ ev.out \in Outs

LEMMA WindowEventsTyped ==
    ASSUME NEW w \in Wins
    PROVE  /\ \A k \in WindowNews : OfWindow(Event(k, w, NoWin, 0), w)
           /\ \A k \in PlaceNews, o \in Outs, x \in Int : OfWindow(Event(k, w, o, x), w)
<1>1. WindowNews \subseteq EventKinds /\ PlaceNews \subseteq EventKinds
  BY DEF WindowNews, PlaceNews, EventKinds
<1>2. NoWin \in Outs \cup {NoWin} /\ w \in Wins \cup {NoWin} /\ 0 \in Int OBVIOUS
<1>3. ASSUME NEW k \in WindowNews PROVE OfWindow(Event(k, w, NoWin, 0), w)
  <2>1. k \in EventKinds /\ k \notin PlaceNews BY <1>1 DEF WindowNews, PlaceNews
  <2> QED BY <2>1, <1>2, EventTyped DEF OfWindow
<1>4. ASSUME NEW k \in PlaceNews, NEW o \in Outs, NEW x \in Int
      PROVE  OfWindow(Event(k, w, o, x), w)
  <2>1. k \in EventKinds /\ o \in Outs \cup {NoWin} BY <1>1
  <2> QED BY <2>1, <1>2, EventTyped DEF OfWindow
<1> QED BY <1>3, <1>4

\* An event of a window that leaves a true record.
LEMMA RecordEmit ==
    ASSUME NEW s, NEW z, NEW hd, NEW info \in BOOLEAN, NEW wr \in Seq(EventType),
           NEW w \in Wins, NEW ev, OfWindow(ev, w), Leads(s, wr, z, hd, info), NEW r,
           r = RecordAfter(z.rec[w], ev, info), RecordIsTrue(r, w, z.trips, hd, info),
           \A o \in Outs : PlaceIsTrue(r.at[o], z.outputs[o].logical, hd.place[w])
    PROVE  \E z2 : /\ Append(wr, ev) \in Seq(EventType)
                   /\ Leads(s, Append(wr, ev), z2, hd, info)
                   /\ SameButRecord(z, z2, w) /\ z2.rec[w] = r
<1>1. z \in Views BY LeadsEnds DEF ViewIsTrue
<1>2. r \in RecordType BY <1>1, WindowTold DEF OfWindow
<1>3. /\ Append(wr, ev) \in Seq(EventType)
      /\ Leads(s, Append(wr, ev), WithRecord(z, w, r), hd, info)
  BY WindowEmit DEF OfWindow
<1> QED BY <1>1, <1>2, <1>3, WithRecordFields

LEMMA Known ==
    ASSUME NEW s, NEW z, NEW hd, NEW info, NEW wr \in Seq(EventType), NEW w \in Wins,
           Leads(s, wr, z, hd, info)
    PROVE  /\ z \in Views /\ z.rec[w] \in RecordType
           /\ RecordIsTrue(z.rec[w], w, z.trips, hd, info)
           /\ \A o \in Outs : PlaceIsTrue(z.rec[w].at[o], z.outputs[o].logical, hd.place[w])
<1>1. ViewIsTrue(z, hd, info) BY LeadsEnds
<1> QED BY <1>1 DEF ViewIsTrue, Views

\* The window is announced.
KnownNow(z, z2, w) ==
    /\ SameButRecord(z, z2, w) /\ z2.rec[w].listed /\ z2.rec[w].open /\ z2.rec[w].named
    /\ z2.rec[w].at = z.rec[w].at

\* A window that is shown to a helper that was told what it may read.
MayTell(w, hd, info) == w \in hd.shown /\ info

LEMMA AnnouncesTold ==
    ASSUME NEW s, NEW z, NEW hd, NEW info \in BOOLEAN, NEW wr \in Seq(EventType),
           NEW w \in Wins, MayTell(w, hd, info), Leads(s, wr, z, hd, info)
    PROVE  \E z2 : /\ wr \o Announces(w) \in Seq(EventType)
                   /\ Leads(s, wr \o Announces(w), z2, hd, info) /\ KnownNow(z, z2, w)
<1> DEFINE e1 == Event("toplevel", w, NoWin, 0)
           e2 == Event("identifier", w, NoWin, 0)
           r1 == [z.rec[w] EXCEPT !.listed = TRUE, !.open = TRUE, !.handle = info]
<1>1. z.rec[w] \in RecordType /\ RecordIsTrue(z.rec[w], w, z.trips, hd, info)
      /\ \A o \in Outs : PlaceIsTrue(z.rec[w].at[o], z.outputs[o].logical, hd.place[w])
  BY Known
<1>2. OfWindow(e1, w) /\ OfWindow(e2, w)
  <2>1. "toplevel" \in WindowNews /\ "identifier" \in WindowNews BY DEF WindowNews
  <2> QED BY <2>1, WindowEventsTyped
<1>3. \A r \in RecordType : 
        /\ RecordAfter(r, e1, info) = [r EXCEPT !.listed = TRUE, !.open = TRUE, !.handle = info]
        /\ RecordAfter(r, e2, info) = [r EXCEPT !.named = TRUE]
  BY DEF RecordAfter, Event
<1>4. r1 = RecordAfter(z.rec[w], e1, info) BY <1>1, <1>3
<1>5. r1 \in RecordType /\ r1.at = z.rec[w].at /\ r1.listed /\ r1.open /\ r1.handle = info
      /\ r1.named = z.rec[w].named /\ r1.seen = z.rec[w].seen /\ r1.focused = z.rec[w].focused
  BY <1>1 DEF RecordType
<1> HIDE DEF r1, e1, e2
<1>6. RecordIsTrue(r1, w, z.trips, hd, info) BY <1>1, <1>5 DEF RecordIsTrue, MayTell
<1>7. PICK z1 : /\ Append(wr, e1) \in Seq(EventType)
                /\ Leads(s, Append(wr, e1), z1, hd, info)
                /\ SameButRecord(z, z1, w) /\ z1.rec[w] = r1
  BY <1>1, <1>2, <1>4, <1>5, <1>6, RecordEmit
<1> DEFINE r2 == [r1 EXCEPT !.named = TRUE]
<1>8. r2 = RecordAfter(z1.rec[w], e2, info) BY <1>7, <1>5, <1>3
<1>9. r2 \in RecordType /\ r2.at = r1.at /\ r2.listed /\ r2.open /\ r2.handle = info
      /\ r2.named /\ r2.seen = r1.seen /\ r2.focused = r1.focused
  BY <1>5 DEF RecordType
<1> HIDE DEF r2
<1>10. RecordIsTrue(r2, w, z1.trips, hd, info)
  BY <1>6, <1>7, <1>5, <1>9 DEF RecordIsTrue, SameButRecord
<1>11. \A o \in Outs : PlaceIsTrue(r2.at[o], z1.outputs[o].logical, hd.place[w])
  BY <1>1, <1>5, <1>7, <1>9 DEF SameButRecord
<1> DEFINE wr1 == Append(wr, e1)
<1> HIDE DEF wr1
<1>12. PICK z2 : /\ Append(wr1, e2) \in Seq(EventType)
                 /\ Leads(s, Append(wr1, e2), z2, hd, info)
                 /\ SameButRecord(z1, z2, w) /\ z2.rec[w] = r2
  <2>1. wr1 \in Seq(EventType) /\ Leads(s, wr1, z1, hd, info) BY <1>7 DEF wr1
  <2> QED BY <2>1, <1>2, <1>8, <1>10, <1>11, RecordEmit
<1>13. wr \o Announces(w) = Append(wr1, e2)
  BY <1>2, TwoMore DEF OfWindow, Announces, e1, e2, wr1
<1>14. SameButRecord(z, z2, w) BY <1>7, <1>12 DEF SameButRecord
<1> QED BY <1>5, <1>9, <1>12, <1>13, <1>14 DEF KnownNow

LEMMA StateTold ==
    ASSUME NEW s, NEW z, NEW hd, NEW info \in BOOLEAN, NEW wr \in Seq(EventType),
           NEW w \in Wins, NEW f \in hd.activated, Leads(s, wr, z, hd, info)
    PROVE  \E z2 : /\ Append(wr, StateOf(w, f)) \in Seq(EventType)
                   /\ Leads(s, Append(wr, StateOf(w, f)), z2, hd, info)
                   /\ StateOf(w, f) \in EventType
                   /\ SameButFocus(z, z2)
<1> DEFINE ev == StateOf(w, f)
           r2 == [z.rec[w] EXCEPT !.seen = TRUE, !.focused = (f = w)]
<1>1. z.rec[w] \in RecordType /\ RecordIsTrue(z.rec[w], w, z.trips, hd, info)
      /\ \A o \in Outs : PlaceIsTrue(z.rec[w].at[o], z.outputs[o].logical, hd.place[w])
  BY Known
<1>2. OfWindow(ev, w)
  <2>1. "focused" \in WindowNews /\ "unfocused" \in WindowNews BY DEF WindowNews
  <2> QED BY <2>1, WindowEventsTyped DEF StateOf
<1>3. r2 = RecordAfter(z.rec[w], ev, info)
  <2>1. CASE f = w BY <1>1, <2>1 DEF RecordAfter, Event, StateOf
  <2>2. CASE f # w BY <1>1, <2>2 DEF RecordAfter, Event, StateOf
  <2> QED BY <2>1, <2>2
<1>4. r2 \in RecordType /\ r2.at = z.rec[w].at /\ r2.listed = z.rec[w].listed
      /\ r2.open = z.rec[w].open /\ r2.handle = z.rec[w].handle /\ r2.named = z.rec[w].named
      /\ r2.seen = TRUE /\ r2.focused = (f = w)
  BY <1>1 DEF RecordType
<1> HIDE DEF r2, ev
<1>5. ~r2.focused => NotOnly(w, hd) BY <1>4 DEF NotOnly
<1>6. RecordIsTrue(r2, w, z.trips, hd, info) BY <1>1, <1>4, <1>5 DEF RecordIsTrue
<1>7. PICK z2 : /\ Append(wr, ev) \in Seq(EventType)
                /\ Leads(s, Append(wr, ev), z2, hd, info)
                /\ SameButRecord(z, z2, w) /\ z2.rec[w] = r2
  BY <1>1, <1>2, <1>3, <1>4, <1>6, RecordEmit
<1>8. SameButFocus(z, z2) BY <1>4, <1>7 DEF SameButRecord, SameButFocus
<1> QED BY <1>2, <1>7, <1>8 DEF OfWindow, ev

LEMMA StatesTold ==
    ASSUME NEW s, NEW z, NEW hd, NEW info \in BOOLEAN, NEW wr \in Seq(EventType),
           tracked \subseteq Wins, NEW w, NEW f \in hd.activated, Leads(s, wr, z, hd, info)
    PROVE  \E z2 : /\ wr \o States(w, f) \in Seq(EventType)
                   /\ Leads(s, wr \o States(w, f), z2, hd, info) /\ SameButFocus(z, z2)
<1>1. CASE w \in tracked
  <2>1. PICK z2 : /\ Append(wr, StateOf(w, f)) \in Seq(EventType)
                  /\ Leads(s, Append(wr, StateOf(w, f)), z2, hd, info)
                  /\ StateOf(w, f) \in EventType
                  /\ SameButFocus(z, z2)
    BY <1>1, StateTold
  <2>2. wr \o States(w, f) = Append(wr, StateOf(w, f)) BY <1>1, <2>1, OneMore DEF States
  <2> QED BY <2>1, <2>2
<1>2. CASE w \notin tracked
  <2>1. wr \o States(w, f) = wr BY <1>2 DEF States
  <2>2. z \in Views BY LeadsEnds DEF ViewIsTrue
  <2>3. SameButFocus(z, z) BY <2>2 DEF SameButFocus
  <2> QED BY <2>1, <2>3
<1> QED BY <1>1, <1>2

\* The event says that the window is there on the output, or, with NoWin, not on it.
SaysPlace(ev, w, q, x) ==
    /\ ev \in EventType /\ ev.win = w /\ ev.out = q
    /\ \/ ev.e = "geometry" /\ x = ev.x
       \/ ev.e = "output_leave" /\ x = NoWin

\* The event tells the origin of the output, or that it is done.
SaysOutput(ev, o) ==
    ev \in EventType /\ ev.win = NoWin /\ ev.out = o /\ ev.e \in {"logical", "output_done"}

\* The places that are known on an output are true with this origin of it.
OriginFits(z, o, l, hd) == \A w \in Wins : PlaceIsTrue(z.rec[w].at[o], l, hd.place[w])

PlaceSet(z, z2, w, q, x) ==
    /\ SameButRecord(z, z2, w)
    /\ z2.rec[w] = [z.rec[w] EXCEPT !.at = [z.rec[w].at EXCEPT ![q] = x]]

LEMMA PlaceTold ==
    ASSUME NEW s, NEW z, NEW hd, NEW info \in BOOLEAN, NEW wr \in Seq(EventType),
           NEW w \in Wins, NEW q \in Outs, NEW x, NEW ev, SaysPlace(ev, w, q, x),
           PlaceIsTrue(x, z.outputs[q].logical, hd.place[w]), Leads(s, wr, z, hd, info)
    PROVE  \E z2 : /\ Append(wr, ev) \in Seq(EventType)
                   /\ Leads(s, Append(wr, ev), z2, hd, info)
                   /\ PlaceSet(z, z2, w, q, x)
<1> DEFINE r2 == [z.rec[w] EXCEPT !.at = [z.rec[w].at EXCEPT ![q] = x]]
<1>1. z.rec[w] \in RecordType /\ RecordIsTrue(z.rec[w], w, z.trips, hd, info)
      /\ \A o \in Outs : PlaceIsTrue(z.rec[w].at[o], z.outputs[o].logical, hd.place[w])
  BY Known
<1>2. OfWindow(ev, w) BY DEF OfWindow, SaysPlace, PlaceNews
<1>3. x \in Int \cup {NoWin} BY DEF SaysPlace, EventType
<1>4. r2 = RecordAfter(z.rec[w], ev, info)
  BY <1>1 DEF RecordAfter, SaysPlace
<1>5. r2 \in RecordType /\ r2.listed = z.rec[w].listed /\ r2.open = z.rec[w].open
      /\ r2.handle = z.rec[w].handle /\ r2.named = z.rec[w].named
      /\ r2.seen = z.rec[w].seen /\ r2.focused = z.rec[w].focused
      /\ r2.at[q] = x /\ \A o \in Outs : o # q => r2.at[o] = z.rec[w].at[o]
  BY <1>1, <1>3 DEF RecordType
<1> HIDE DEF r2
<1>6. RecordIsTrue(r2, w, z.trips, hd, info) BY <1>1, <1>5 DEF RecordIsTrue
<1>7. \A o \in Outs : PlaceIsTrue(r2.at[o], z.outputs[o].logical, hd.place[w])
  BY <1>1, <1>5
<1>8. PICK z2 : /\ Append(wr, ev) \in Seq(EventType)
                /\ Leads(s, Append(wr, ev), z2, hd, info)
                /\ SameButRecord(z, z2, w) /\ z2.rec[w] = r2
  BY <1>2, <1>4, <1>6, <1>7, RecordEmit
<1> QED BY <1>8 DEF r2, PlaceSet

LEMMA ClosedTold ==
    ASSUME NEW s, NEW z, NEW hd, NEW info \in BOOLEAN, NEW wr \in Seq(EventType),
           NEW w \in Wins, NotOnly(w, hd), w \notin hd.always, Leads(s, wr, z, hd, info)
    PROVE  \E z2 : /\ wr \o <<Event("closed", w, NoWin, 0)>> \in Seq(EventType)
                   /\ Leads(s, wr \o <<Event("closed", w, NoWin, 0)>>, z2, hd, info)
                   /\ SameButRecord(z, z2, w)
                   /\ ~z2.rec[w].open /\ z2.rec[w].at = z.rec[w].at
<1> DEFINE ev == Event("closed", w, NoWin, 0)
           r2 == [z.rec[w] EXCEPT !.open = FALSE, !.handle = FALSE]
<1>1. z.rec[w] \in RecordType /\ RecordIsTrue(z.rec[w], w, z.trips, hd, info)
      /\ \A o \in Outs : PlaceIsTrue(z.rec[w].at[o], z.outputs[o].logical, hd.place[w])
  BY Known
<1>2. OfWindow(ev, w)
  <2>1. "closed" \in WindowNews BY DEF WindowNews
  <2> QED BY <2>1, WindowEventsTyped
<1>3. r2 = RecordAfter(z.rec[w], ev, info) BY <1>1 DEF RecordAfter, Event
<1>4. r2 \in RecordType /\ r2.at = z.rec[w].at /\ r2.listed = z.rec[w].listed
      /\ r2.open = FALSE /\ r2.handle = FALSE /\ r2.named = z.rec[w].named
      /\ r2.seen = z.rec[w].seen /\ r2.focused = z.rec[w].focused
  BY <1>1 DEF RecordType
<1> HIDE DEF r2, ev
<1>6. RecordIsTrue(r2, w, z.trips, hd, info) BY <1>1, <1>4 DEF RecordIsTrue
<1>7. PICK z2 : /\ Append(wr, ev) \in Seq(EventType)
                /\ Leads(s, Append(wr, ev), z2, hd, info)
                /\ SameButRecord(z, z2, w) /\ z2.rec[w] = r2
  BY <1>1, <1>2, <1>3, <1>4, <1>6, RecordEmit
<1>8. wr \o <<ev>> = Append(wr, ev) BY <1>2, OneMore DEF OfWindow
<1> QED BY <1>4, <1>7, <1>8 DEF ev

OfOutput(ev, o) == ev \in EventType /\ ev.win = NoWin /\ ev.out = o

LEMMA OutputEventsTyped ==
    ASSUME NEW o \in Outs, NEW k \in EventKinds, NEW x \in Int
    PROVE  OfOutput(Event(k, NoWin, o, x), o)
<1>1. o \in Outs \cup {NoWin} /\ NoWin \in Wins \cup {NoWin} OBVIOUS
<1> QED BY <1>1, EventTyped DEF OfOutput

LEMMA PositionTold ==
    ASSUME NEW s, NEW z, NEW hd, NEW info \in BOOLEAN, NEW wr \in Seq(EventType),
           NEW o \in Outs, NEW ev, SaysOutput(ev, o), NEW p, p = OutputAfter(z.outputs[o], ev),
           OriginFits(z, o, p.logical, hd), Leads(s, wr, z, hd, info)
    PROVE  /\ Append(wr, ev) \in Seq(EventType) /\ p \in OutputType
           /\ Leads(s, Append(wr, ev), WithOutput(z, o, p), hd, info)
<1>1. z \in Views BY LeadsEnds DEF ViewIsTrue
<1>2. p \in OutputType BY <1>1, OutputTold DEF SaysOutput
<1>3. \A w \in Wins : PlaceIsTrue(z.rec[w].at[o], p.logical, hd.place[w]) BY DEF OriginFits
<1> QED BY <1>2, <1>3, OutputEmit DEF SaysOutput

LEMMA OutputEvents ==
    ASSUME NEW o \in Outs, NEW x \in Int, NEW p \in OutputType
    PROVE  /\ SaysOutput(Event("logical", NoWin, o, x), o)
           /\ SaysOutput(Event("output_done", NoWin, o, 0), o)
           /\ OutputAfter(p, Event("logical", NoWin, o, x)).logical = x
           /\ OutputAfter(p, Event("output_done", NoWin, o, 0)).logical = p.logical
<1>1. /\ OfOutput(Event("logical", NoWin, o, x), o)
      /\ OfOutput(Event("output_done", NoWin, o, 0), o)
  <2>1. "logical" \in EventKinds /\ "output_done" \in EventKinds /\ 0 \in Int
    BY DEF EventKinds
  <2> QED BY <2>1, OutputEventsTyped
<1>2. /\ SaysOutput(Event("logical", NoWin, o, x), o)
      /\ SaysOutput(Event("output_done", NoWin, o, 0), o)
  BY <1>1 DEF SaysOutput, OfOutput, Event
<1>3. /\ OutputAfter(p, Event("logical", NoWin, o, x)).logical = x
      /\ OutputAfter(p, Event("output_done", NoWin, o, 0)).logical = p.logical
  BY DEF OutputAfter, Event, OutputType
<1> QED BY <1>2, <1>3

SameButOutput(z, z2, o) ==
    /\ z2 \in Views /\ z2.rec = z.rec /\ z2.heads = z.heads /\ z2.ready = z.ready
    /\ z2.trips = z.trips
    /\ \A q \in Outs : q # o => z2.outputs[q] = z.outputs[q]

LEMMA PositionsTold ==
    ASSUME NEW s, NEW z, NEW hd, NEW info \in BOOLEAN, NEW wr \in Seq(EventType),
           NEW o \in Outs, NEW x \in Int,
           OriginFits(z, o, x, hd),
           Leads(s, wr, z, hd, info)
    PROVE  \E z2 : /\ wr \o Positions(o, x) \in Seq(EventType)
                   /\ Leads(s, wr \o Positions(o, x), z2, hd, info)
                   /\ SameButOutput(z, z2, o)
                   /\ z2.outputs[o].logical = IF has.xdg THEN x ELSE z.outputs[o].logical
<1>0. z \in Views BY LeadsEnds DEF ViewIsTrue
<1>1. CASE has.xdg
  <2> DEFINE e1 == Event("logical", NoWin, o, x)
             e2 == Event("output_done", NoWin, o, 0)
             wr1 == Append(wr, e1)
             p1 == OutputAfter(z.outputs[o], e1)
             z1 == WithOutput(z, o, p1)
  <2>0. \A p \in OutputType : /\ SaysOutput(e1, o) /\ SaysOutput(e2, o)
                              /\ OutputAfter(p, e1).logical = x
                              /\ OutputAfter(p, e2).logical = p.logical
    BY OutputEvents
  <2>1. z.outputs[o] \in OutputType BY <1>0 DEF Views
  <2>2. SaysOutput(e1, o) /\ SaysOutput(e2, o) /\ p1.logical = x BY <2>0, <2>1
  <2> HIDE DEF e1, e2, p1
  <2>3. wr1 \in Seq(EventType) /\ p1 \in OutputType /\ Leads(s, wr1, z1, hd, info)
    BY <2>2, PositionTold DEF p1
  <2>4. SameButOutput(z, z1, o) /\ z1.outputs[o] = p1
    BY <1>0, <2>3, WithOutputFields DEF SameButOutput
  <2> DEFINE p2 == OutputAfter(z1.outputs[o], e2)
             z2 == WithOutput(z1, o, p2)
  <2> HIDE DEF z1, wr1
  <2>5. p2.logical = x BY <2>0, <2>2, <2>3, <2>4
  <2>6. OriginFits(z1, o, x, hd) BY <2>4 DEF SameButOutput, OriginFits
  <2> HIDE DEF p2
  <2>7. Append(wr1, e2) \in Seq(EventType) /\ p2 \in OutputType
        /\ Leads(s, Append(wr1, e2), z2, hd, info)
    BY <2>2, <2>3, <2>5, <2>6, PositionTold DEF p2
  <2>8. SameButOutput(z1, z2, o) /\ z2.outputs[o] = p2
    <3>1. z1 \in Views BY <2>4 DEF SameButOutput
    <3> QED BY <3>1, <2>7, WithOutputFields DEF SameButOutput
  <2> HIDE DEF z2
  <2>9. SameButOutput(z, z2, o) BY <2>4, <2>8 DEF SameButOutput
  <2>10. wr \o Positions(o, x) = Append(wr1, e2)
    BY <1>1, <2>2, TwoMore DEF Positions, e1, e2, wr1, SaysOutput
  <2> QED BY <1>1, <2>5, <2>7, <2>8, <2>9, <2>10
<1>2. CASE ~has.xdg
  <2>1. wr \o Positions(o, x) = wr BY <1>2 DEF Positions
  <2>2. SameButOutput(z, z, o) BY <1>0 DEF SameButOutput
  <2> QED BY <1>2, <2>1, <2>2
<1> QED BY <1>1, <1>2

\* The origin of the output is known.
OriginTold(z, z2, o) ==
    /\ SameButOutput(z, z2, o)
    /\ z2.outputs[o].logical = IF has.xdg THEN origin[o] ELSE z.outputs[o].logical

LEMMA NewOutputTold ==
    ASSUME NEW s, NEW z, NEW hd, NEW info \in BOOLEAN, NEW wr \in Seq(EventType),
           NEW o \in Outs, origin[o] \in Int,
           OriginFits(z, o, origin[o], hd),
           Leads(s, wr, z, hd, info)
    PROVE  \E z2 : /\ wr \o NewOutput(o) \in Seq(EventType)
                   /\ Leads(s, wr \o NewOutput(o), z2, hd, info)
                   /\ OriginTold(z, z2, o)
<1> DEFINE e1 == Event("output_done", NoWin, o, 0)
           wr1 == Append(wr, e1)
           p1 == OutputAfter(z.outputs[o], e1)
           z1 == WithOutput(z, o, p1)
<1>0. z \in Views BY LeadsEnds DEF ViewIsTrue
<1>1. SaysOutput(e1, o) /\ p1.logical = z.outputs[o].logical
  <2>1. z.outputs[o] \in OutputType BY <1>0 DEF Views
  <2> QED BY <2>1, OutputEvents
<1>2. OriginFits(z, o, p1.logical, hd) BY <1>1, LeadsEnds DEF ViewIsTrue, OriginFits
<1> HIDE DEF e1, p1
<1>3. wr1 \in Seq(EventType) /\ p1 \in OutputType /\ Leads(s, wr1, z1, hd, info)
  BY <1>1, <1>2, PositionTold DEF p1
<1>4. SameButOutput(z, z1, o) /\ z1.outputs[o] = p1
  BY <1>0, <1>3, WithOutputFields DEF SameButOutput
<1> HIDE DEF z1, wr1
<1>5. OriginFits(z1, o, origin[o], hd) BY <1>4 DEF SameButOutput, OriginFits
<1>6. PICK z2 : /\ wr1 \o Positions(o, origin[o]) \in Seq(EventType)
                /\ Leads(s, wr1 \o Positions(o, origin[o]), z2, hd, info)
                /\ SameButOutput(z1, z2, o)
                /\ z2.outputs[o].logical = IF has.xdg THEN origin[o] ELSE z1.outputs[o].logical
  BY <1>3, <1>5, PositionsTold
<1>7. wr1 \o Positions(o, origin[o]) = wr \o NewOutput(o)
  <2>1. Positions(o, origin[o]) \in Seq(EventType)
    <3>1. /\ Event("logical", NoWin, o, origin[o]) \in EventType
          /\ Event("output_done", NoWin, o, 0) \in EventType
      BY <1>3, OutputEvents DEF SaysOutput
    <3> QED BY <3>1 DEF Positions
  <2>2. e1 \in EventType BY <1>1 DEF SaysOutput
  <2>3. wr1 = wr \o <<e1>> /\ <<e1>> \in Seq(EventType) BY <2>2, OneMore DEF wr1
  <2>4. (wr \o <<e1>>) \o Positions(o, origin[o]) = wr \o (<<e1>> \o Positions(o, origin[o]))
    BY <2>1, <2>3, ConcatAssociative
  <2> QED BY <2>3, <2>4 DEF NewOutput, e1
<1>8. SameButOutput(z, z2, o) BY <1>4, <1>6 DEF SameButOutput
<1> QED BY <1>1, <1>4, <1>6, <1>7, <1>8 DEF OriginTold

LEMMA PlaceEvents ==
    ASSUME NEW w \in Wins, NEW q \in Outs, NEW x \in Int
    PROVE  /\ SaysPlace(Event("geometry", w, q, x), w, q, x)
           /\ SaysPlace(Event("output_leave", w, q, 0), w, q, NoWin)
<1>1. /\ OfWindow(Event("geometry", w, q, x), w)
      /\ OfWindow(Event("output_leave", w, q, 0), w)
  <2>1. "geometry" \in PlaceNews /\ "output_leave" \in PlaceNews /\ 0 \in Int BY DEF PlaceNews
  <2> QED BY <2>1, WindowEventsTyped
<1> QED BY <1>1 DEF SaysPlace, OfWindow, Event

LEMMA HandleEventsTold ==
    ASSUME NEW s, NEW z, NEW hd, NEW info \in BOOLEAN, NEW wr \in Seq(EventType),
           NEW w \in Wins, activated \in hd.activated,
           place[w].out \in Outs, place[w].x \in Int,
           PlaceIsTrue(place[w].x, z.outputs[place[w].out].logical, hd.place[w]),
           Leads(s, wr, z, hd, info)
    PROVE  \E z1, z2 : /\ wr \o HandleEvents(w) \in Seq(EventType)
                       /\ Leads(s, wr \o HandleEvents(w), z2, hd, info)
                       /\ SameButFocus(z, z1)
                       /\ PlaceSet(z1, z2, w, place[w].out, place[w].x)
<1> DEFINE e1 == StateOf(w, activated)
           q == place[w].out
           x == place[w].x
           e2 == Event("geometry", w, q, x)
           wr1 == Append(wr, e1)
<1>1. PICK z1 : /\ wr1 \in Seq(EventType) /\ Leads(s, wr1, z1, hd, info)
                /\ e1 \in EventType /\ SameButFocus(z, z1)
  BY StateTold
<1>9. SaysPlace(e2, w, q, x) BY PlaceEvents
<1>10. q \in Outs OBVIOUS
<1>2. PlaceIsTrue(x, z1.outputs[q].logical, hd.place[w]) BY <1>1 DEF SameButFocus
<1> HIDE DEF wr1, e1, e2, q, x
<1>3. PICK z2 : /\ Append(wr1, e2) \in Seq(EventType)
                /\ Leads(s, Append(wr1, e2), z2, hd, info)
                /\ PlaceSet(z1, z2, w, q, x)
  BY <1>1, <1>2, <1>9, <1>10, PlaceTold
<1>4. wr \o HandleEvents(w) = Append(wr1, e2)
  BY <1>1, <1>9, TwoMore DEF HandleEvents, e1, e2, wr1, SaysPlace, q, x
<1> QED BY <1>1, <1>3, <1>4 DEF q, x

\* What the compositor sends of a head whose monitor has changed.
HeadBurst(b, h, s, l) ==
    \/ ~l[h].there /\ b = <<Event("head_over", NoWin, h, 0)>>
    \/ l[h].there /\ b = NewHead(h, l)
    \/ l[h].there /\ s.known /\ ~s.over /\ b = HeadEvents(h, l)

LEMMA HeadNewsTold ==
    ASSUME NEW s, NEW z, NEW hd, NEW info \in BOOLEAN, NEW wr \in Seq(EventType),
           NEW h \in Outs, NEW ev, OfOutput(ev, h), ev.e \in HeadNews, NEW p,
           p = HeadAfter(z.heads[h], ev), Leads(s, wr, z, hd, info)
    PROVE  \E z2 : /\ Append(wr, ev) \in Seq(EventType)
                   /\ Leads(s, Append(wr, ev), z2, hd, info)
                   /\ SameButHead(z, z2, h) /\ z2.heads[h] = p
<1>1. z \in Views BY LeadsEnds DEF ViewIsTrue
<1>2. p \in HeadType BY <1>1, HeadTold DEF OfOutput
<1> DEFINE z2 == WithHead(z, h, p)
<1>3. Append(wr, ev) \in Seq(EventType) /\ Leads(s, Append(wr, ev), z2, hd, info)
  BY HeadEmit DEF OfOutput
<1>4. SameButHead(z, z2, h) /\ z2.heads[h] = p BY <1>1, <1>2, WithHeadFields
<1> HIDE DEF z2
<1> QED BY <1>3, <1>4

LEMMA HeadEventsTyped ==
    ASSUME NEW h \in Outs, NEW x \in Int, NEW k \in HeadNews
    PROVE  OfOutput(Event(k, NoWin, h, x), h) /\ Event(k, NoWin, h, x).e \in HeadNews
<1>1. k \in EventKinds BY DEF EventKinds
<1> QED BY <1>1, OutputEventsTyped DEF Event

\* What each event of a head does to it.
LEMMA HeadEventsDo ==
    ASSUME NEW h \in Outs, NEW x \in Int, NEW p \in HeadType
    PROVE  /\ HeadAfter(p, Event("head", NoWin, h, 0)) = [NoHead EXCEPT !.known = TRUE]
           /\ HeadAfter(p, Event("head_over", NoWin, h, 0)) = [p EXCEPT !.over = TRUE]
           /\ HeadAfter(p, Event("enabled", NoWin, h, 0)) = [p EXCEPT !.on = TRUE]
           /\ HeadAfter(p, Event("disabled", NoWin, h, 0)) = [p EXCEPT !.on = FALSE]
           /\ HeadAfter(p, Event("mode", NoWin, h, x)) = [p EXCEPT !.mode = x]
           /\ HeadAfter(p, Event("position", NoWin, h, x)) = [p EXCEPT !.x = x]
  BY DEF HeadAfter, Event

LEMMA OneAndTwo ==
    ASSUME NEW S, NEW a \in S, NEW b \in S, NEW c \in S
    PROVE  <<a>> \o <<b, c>> = <<a, b, c>>
<1> DEFINE s1 == <<a>>
           s2 == <<b, c>>
           t == <<a, b, c>>
<1>1. /\ s1 \in Seq(S) /\ Len(s1) = 1 /\ s1[1] = a
      /\ s2 \in Seq(S) /\ Len(s2) = 2 /\ s2[1] = b /\ s2[2] = c
      /\ t \in Seq(S) /\ Len(t) = 3 /\ t[1] = a /\ t[2] = b /\ t[3] = c
  OBVIOUS
<1> HIDE DEF s1, s2, t
<1>2. /\ s1 \o s2 \in Seq(S) /\ Len(s1 \o s2) = Len(s1) + Len(s2)
      /\ \A i \in 1 .. Len(s1) + Len(s2) :
           (s1 \o s2)[i] = IF i <= Len(s1) THEN s1[i] ELSE s2[i - Len(s1)]
  BY <1>1, ConcatProperties
<1>3. Len(s1 \o s2) = 3 /\ 1..3 = {1, 2, 3} BY <1>1, <1>2
<1>4. \A i \in 1 .. 3 : (s1 \o s2)[i] = t[i] BY <1>1, <1>2, <1>3
<1>5. s1 \o s2 = t BY <1>1, <1>2, <1>3, <1>4, SeqEqual
<1> QED BY <1>5 DEF s1, s2, t

LEMMA HeadEventsTold ==
    ASSUME NEW s, NEW z, NEW hd, NEW info \in BOOLEAN, NEW wr \in Seq(EventType),
           NEW h \in Outs, NEW l \in [Outs -> MonitorType], l[h].there, z.heads[h].known,
           ~z.heads[h].over, Leads(s, wr, z, hd, info)
    PROVE  \E z2 : /\ wr \o HeadEvents(h, l) \in Seq(EventType)
                   /\ Leads(s, wr \o HeadEvents(h, l), z2, hd, info)
                   /\ SameButHead(z, z2, h) /\ HeadShows(z2.heads[h], l[h])
<1> DEFINE e0 == Event("disabled", NoWin, h, 0)
           e1 == Event("enabled", NoWin, h, 0)
           e2 == Event("mode", NoWin, h, l[h].mode)
           e3 == Event("position", NoWin, h, l[h].x)
           p0 == z.heads[h]
<1>1. p0 \in HeadType /\ l[h] \in MonitorType
  <2>1. z \in Views BY LeadsEnds DEF ViewIsTrue
  <2> QED BY <2>1 DEF Views
<1>2. l[h].mode \in Int /\ l[h].x \in Int /\ l[h].on \in BOOLEAN BY <1>1 DEF MonitorType
<1>3. /\ OfOutput(e0, h) /\ e0.e \in HeadNews /\ OfOutput(e1, h) /\ e1.e \in HeadNews
      /\ OfOutput(e2, h) /\ e2.e \in HeadNews /\ OfOutput(e3, h) /\ e3.e \in HeadNews
  <2>1. {"enabled", "disabled", "mode", "position"} \subseteq HeadNews /\ 0 \in Int
    BY DEF HeadNews
  <2> QED BY <2>1, <1>2, HeadEventsTyped
<1>4. \A p \in HeadType :
        /\ HeadAfter(p, e0) = [p EXCEPT !.on = FALSE] /\ HeadAfter(p, e1) = [p EXCEPT !.on = TRUE]
        /\ HeadAfter(p, e2) = [p EXCEPT !.mode = l[h].mode]
        /\ HeadAfter(p, e3) = [p EXCEPT !.x = l[h].x]
  <2>1. ASSUME NEW p \in HeadType
        PROVE  /\ HeadAfter(p, e0) = [p EXCEPT !.on = FALSE]
               /\ HeadAfter(p, e1) = [p EXCEPT !.on = TRUE]
    BY <1>2, HeadEventsDo
  <2>2. ASSUME NEW p \in HeadType PROVE HeadAfter(p, e2) = [p EXCEPT !.mode = l[h].mode]
    BY <1>2, HeadEventsDo
  <2>3. ASSUME NEW p \in HeadType PROVE HeadAfter(p, e3) = [p EXCEPT !.x = l[h].x]
    BY <1>2, HeadEventsDo
  <2> QED BY <2>1, <2>2, <2>3
<1>5. CASE ~l[h].on
  <2>1. HeadEvents(h, l) = <<e0>> BY <1>5, <1>3 DEF HeadEvents
  <2> HIDE DEF e0, e1, e2, e3
  <2>2. PICK z2 : /\ Append(wr, e0) \in Seq(EventType)
                  /\ Leads(s, Append(wr, e0), z2, hd, info)
                  /\ SameButHead(z, z2, h) /\ z2.heads[h] = HeadAfter(p0, e0)
    BY <1>3, HeadNewsTold
  <2>3. HeadAfter(p0, e0) = [p0 EXCEPT !.on = FALSE] BY <1>1, <1>4
  <2>4. HeadShows(z2.heads[h], l[h]) BY <1>1, <1>2, <1>5, <2>2, <2>3 DEF HeadShows, HeadType
  <2>5. wr \o HeadEvents(h, l) = Append(wr, e0) BY <1>3, <2>1, OneMore DEF OfOutput
  <2> QED BY <2>2, <2>4, <2>5
<1>6. CASE l[h].on
  <2>1. HeadEvents(h, l) = <<e1, e2, e3>>
    <3>1. HeadEvents(h, l) = <<e1>> \o <<e2, e3>> BY <1>6 DEF HeadEvents
    <3>2. e1 \in EventType /\ e2 \in EventType /\ e3 \in EventType BY <1>3 DEF OfOutput
    <3> HIDE DEF e1, e2, e3
    <3> QED BY <3>1, <3>2, OneAndTwo
  <2> HIDE DEF e0, e1, e2, e3
  <2> DEFINE p1 == HeadAfter(p0, e1)
             p2 == HeadAfter(p1, e2)
             p3 == HeadAfter(p2, e3)
             wr1 == Append(wr, e1)
             wr2 == Append(wr1, e2)
  <2>2. p1 = [p0 EXCEPT !.on = TRUE] BY <1>1, <1>4
  <2>3. p1 \in HeadType BY <1>1, <2>2 DEF HeadType
  <2>4. p2 = [p1 EXCEPT !.mode = l[h].mode] BY <2>3, <1>4
  <2>5. p2 \in HeadType BY <1>2, <2>3, <2>4 DEF HeadType
  <2>6. p3 = [p2 EXCEPT !.x = l[h].x] BY <2>5, <1>4
  <2>7. HeadShows(p3, l[h])
    BY <1>1, <1>2, <1>6, <2>2, <2>3, <2>4, <2>5, <2>6 DEF HeadShows, HeadType
  <2> HIDE DEF p1, p2, p3
  <2>8. PICK z1 : /\ wr1 \in Seq(EventType) /\ Leads(s, wr1, z1, hd, info)
                  /\ SameButHead(z, z1, h) /\ z1.heads[h] = p1
    BY <1>3, HeadNewsTold DEF p1
  <2> HIDE DEF wr1
  <2>9. PICK z2 : /\ wr2 \in Seq(EventType) /\ Leads(s, wr2, z2, hd, info)
                  /\ SameButHead(z1, z2, h) /\ z2.heads[h] = p2
    BY <1>3, <2>8, HeadNewsTold DEF p2
  <2> HIDE DEF wr2
  <2>10. PICK z3 : /\ Append(wr2, e3) \in Seq(EventType)
                   /\ Leads(s, Append(wr2, e3), z3, hd, info)
                   /\ SameButHead(z2, z3, h) /\ z3.heads[h] = p3
    BY <1>3, <2>9, HeadNewsTold DEF p3
  <2>11. SameButHead(z, z3, h) BY <2>8, <2>9, <2>10 DEF SameButHead
  <2>12. wr \o HeadEvents(h, l) = Append(wr2, e3)
    BY <1>3, <2>1, ThreeMore DEF OfOutput, wr1, wr2
  <2> QED BY <2>7, <2>10, <2>11, <2>12
<1> QED BY <1>2, <1>5, <1>6

LEMMA NewHeadTold ==
    ASSUME NEW s, NEW z, NEW hd, NEW info \in BOOLEAN, NEW wr \in Seq(EventType),
           NEW h \in Outs, NEW l \in [Outs -> MonitorType], l[h].there,
           Leads(s, wr, z, hd, info)
    PROVE  \E z2 : /\ wr \o NewHead(h, l) \in Seq(EventType)
                   /\ Leads(s, wr \o NewHead(h, l), z2, hd, info)
                   /\ SameButHead(z, z2, h) /\ HeadShows(z2.heads[h], l[h])
<1> DEFINE e1 == Event("head", NoWin, h, 0)
           p1 == HeadAfter(z.heads[h], e1)
           wr1 == Append(wr, e1)
<1>1. z.heads[h] \in HeadType /\ l[h] \in MonitorType
  <2>1. z \in Views BY LeadsEnds DEF ViewIsTrue
  <2> QED BY <2>1 DEF Views
<1>2. OfOutput(e1, h) /\ e1.e \in HeadNews
  <2>1. "head" \in HeadNews /\ 0 \in Int BY DEF HeadNews
  <2> QED BY <2>1, HeadEventsTyped
<1>3. p1.known /\ ~p1.over BY DEF HeadAfter, Event, NoHead
<1>4. /\ HeadEvents(h, l) \in Seq(EventType)
  <2>1. \A k \in HeadNews, x \in Int : Event(k, NoWin, h, x) \in EventType
    BY HeadEventsTyped DEF OfOutput
  <2>2. /\ {"enabled", "disabled", "mode", "position"} \subseteq HeadNews /\ 0 \in Int
        /\ l[h].mode \in Int /\ l[h].x \in Int
    BY <1>1 DEF HeadNews, MonitorType
  <2>3. /\ Event(IF l[h].on THEN "enabled" ELSE "disabled", NoWin, h, 0) \in EventType
        /\ Event("mode", NoWin, h, l[h].mode) \in EventType
        /\ Event("position", NoWin, h, l[h].x) \in EventType
    BY <2>1, <2>2
  <2> QED BY <2>3 DEF HeadEvents
<1> HIDE DEF e1, p1
<1>5. PICK z1 : /\ wr1 \in Seq(EventType) /\ Leads(s, wr1, z1, hd, info)
                /\ SameButHead(z, z1, h) /\ z1.heads[h] = p1
  BY <1>2, HeadNewsTold DEF p1
<1> HIDE DEF wr1
<1>6. PICK z2 : /\ wr1 \o HeadEvents(h, l) \in Seq(EventType)
                /\ Leads(s, wr1 \o HeadEvents(h, l), z2, hd, info)
                /\ SameButHead(z1, z2, h) /\ HeadShows(z2.heads[h], l[h])
  BY <1>3, <1>5, HeadEventsTold
<1>7. wr1 \o HeadEvents(h, l) = wr \o NewHead(h, l)
  <2>1. e1 \in EventType BY <1>2 DEF OfOutput
  <2>2. wr1 = wr \o <<e1>> /\ <<e1>> \in Seq(EventType) BY <2>1, OneMore DEF wr1
  <2>3. (wr \o <<e1>>) \o HeadEvents(h, l) = wr \o (<<e1>> \o HeadEvents(h, l))
    BY <1>4, <2>2, ConcatAssociative
  <2> QED BY <2>2, <2>3 DEF NewHead, e1
<1>8. SameButHead(z, z2, h) BY <1>5, <1>6 DEF SameButHead
<1> QED BY <1>6, <1>7, <1>8

LEMMA HeadBurstTold ==
    ASSUME NEW s, NEW z, NEW hd, NEW info \in BOOLEAN, NEW wr \in Seq(EventType),
           NEW h \in Outs, NEW l \in [Outs -> MonitorType], NEW b,
           HeadBurst(b, h, z.heads[h], l), Leads(s, wr, z, hd, info)
    PROVE  \E z2 : /\ wr \o b \in Seq(EventType)
                   /\ Leads(s, wr \o b, z2, hd, info)
                   /\ SameButHead(z, z2, h) /\ HeadShows(z2.heads[h], l[h])
<1>1. CASE ~l[h].there /\ b = <<Event("head_over", NoWin, h, 0)>>
  <2> DEFINE e1 == Event("head_over", NoWin, h, 0)
             p1 == HeadAfter(z.heads[h], e1)
  <2>1. z.heads[h] \in HeadType /\ l[h] \in MonitorType
    <3>1. z \in Views BY LeadsEnds DEF ViewIsTrue
    <3> QED BY <3>1 DEF Views
  <2>2. OfOutput(e1, h) /\ e1.e \in HeadNews
    <3>1. "head_over" \in HeadNews /\ 0 \in Int BY DEF HeadNews
    <3> QED BY <3>1, HeadEventsTyped
  <2>3. p1 \in HeadType /\ p1.over BY <2>1 DEF HeadAfter, Event, HeadType
  <2>4. HeadShows(p1, l[h]) BY <1>1, <2>1, <2>3 DEF HeadShows, HeadType, MonitorType
  <2> HIDE DEF e1, p1
  <2>5. PICK z1 : /\ Append(wr, e1) \in Seq(EventType) /\ Leads(s, Append(wr, e1), z1, hd, info)
                  /\ SameButHead(z, z1, h) /\ z1.heads[h] = p1
    BY <2>2, HeadNewsTold DEF p1
  <2>6. wr \o b = Append(wr, e1) BY <1>1, <2>2, OneMore DEF OfOutput, e1
  <2> QED BY <2>4, <2>5, <2>6
<1>2. CASE l[h].there /\ b = NewHead(h, l) BY <1>2, NewHeadTold
<1>3. CASE l[h].there /\ z.heads[h].known /\ ~z.heads[h].over /\ b = HeadEvents(h, l)
  BY <1>3, HeadEventsTold
<1> QED BY <1>1, <1>2, <1>3 DEF HeadBurst

-----------------------------------------------------------------------------
\* The compositor and its history.
CosmicTyped ==
    /\ task \in Tasks /\ has \in [info : BOOLEAN, xdg : BOOLEAN, manage : BOOLEAN]
    /\ shown \subseteq Wins /\ activated \in shown \cup {NoWin}
    /\ place \in [Wins -> [out : Outs, x : Int]] /\ origin \in [Outs -> Int]
    /\ due \subseteq shown /\ tracked \subseteq shown
    /\ wire \in Seq(EventType) /\ unread \in Seq(WireRequest) /\ had \in HadType
    /\ task.what = "layout" =>
          shown = {} /\ layout \in [Outs -> MonitorType] /\ layout \in had.layout

HadInv ==
    /\ activated \in had.activated /\ shown \subseteq had.shown /\ had.always \subseteq shown
    /\ \A w \in Wins : Global(w, place, origin) \in had.place[w]

\* The globals are bound first.
BindIsFirst == \A i \in 1..Len(unread) : unread[i].do = "bind" => i = 1

\* What the helper knows when it has read all that was sent is what there is, but for what
\* the compositor still owes.
OpenIsShown(z) == \A w \in Wins : w \notin shown => ~z.rec[w].open
ShownIsAnnounced(z) ==
    Bound => \A w \in Announced : \/ z.rec[w].listed /\ z.rec[w].open /\ z.rec[w].named
                                  \/ Announces(w) \in owed.bursts
PlacesAreCurrent(z) ==
    \A w \in Wins, o \in Outs :
       z.rec[w].at[o] # NoWin =>
          /\ w \in had.shown /\ (w \in shown => w \in tracked)
          /\ place[w].out = o /\ place[w].x = z.rec[w].at[o]
OriginsAreCurrent(z) ==
    \A o \in Outs : z.outputs[o].logical # NoWin => has.xdg /\ z.outputs[o].logical = origin[o]
HeadsAreCurrent(z) ==
    task.what = "layout" /\ Bound =>
       \A h \in Outs : \/ HeadShows(z.heads[h], layout[h])
                       \/ \E b \in owed.bursts : HeadBurst(b, h, z.heads[h], layout)
OwedIsCurrent(z) ==
    /\ owed = [bursts |-> owed.bursts, end |-> owed.end]
    /\ owed.end \in {<<>>, IF task.what = "layout" THEN LayoutDone ELSE Done}
    /\ \A b \in owed.bursts :
          IF task.what = "layout" THEN \E h \in Outs : HeadBurst(b, h, z.heads[h], layout)
          ELSE \/ \E o \in Outs : b = NewOutput(o)
               \/ \E w \in Announced : b = Announces(w)
               \/ \E w \in tracked : b = HandleEvents(w)
NothingIsBound(z) ==
    ~Bound => /\ owed = NothingOwed /\ due = {} /\ tracked = {}
              /\ \A h \in Outs : z.heads[h] = NoHead /\ z.outputs[h].logical = NoWin
              /\ \A w \in Wins : z.rec[w] = NoRecord
Ending(z) ==
    /\ OpenIsShown(z) /\ ShownIsAnnounced(z) /\ PlacesAreCurrent(z) /\ OriginsAreCurrent(z)
    /\ HeadsAreCurrent(z) /\ OwedIsCurrent(z) /\ NothingIsBound(z)

StageInv ==
    /\ stage # "sync" => trips >= 1
    /\ stage \in {"activate", "verify"} =>
          /\ task.what = "activate"
          /\ \A w \in Wins : rec[w].handle /\ ~rec[w].seen => NotOnly(w, had)
    /\ stage = "verify" => has.info /\ rec[task.win].listed
    /\ stage # "done" => helperSays = NothingSaid

EndsCurrent == \E z : Leads(Here, wire, z, had, has.info) /\ Ending(z)
CosmicInv ==
    CosmicTyped /\ HadInv /\ BindIsFirst /\ EndsCurrent /\ StageInv /\ HelperIsTrue

-----------------------------------------------------------------------------
\* What the steps have in common.

LEMMA Started ==
    ASSUME CosmicInv
    PROVE  /\ ViewIsTrue(Here, had, has.info) /\ Here \in Views
           /\ \A w \in Wins : RecordIsTrue(rec[w], w, trips, had, has.info) /\ rec[w] \in RecordType
           /\ \A w \in Wins, o \in Outs : PlaceIsTrue(rec[w].at[o], outputs[o].logical, had.place[w])
           /\ ready => LayoutShows(heads, had.layout)
           /\ trips \in Nat /\ has.info \in BOOLEAN /\ has.xdg \in BOOLEAN
           /\ heads \in [Outs -> HeadType] /\ outputs \in [Outs -> OutputType]
<1>1. PICK z : Leads(Here, wire, z, had, has.info) BY DEF CosmicInv, EndsCurrent
<1>2. wire \in Seq(EventType) /\ has \in [info : BOOLEAN, xdg : BOOLEAN, manage : BOOLEAN]
  BY DEF CosmicInv, CosmicTyped
<1>3. ViewIsTrue(Here, had, has.info) BY <1>1, <1>2, LeadsEnds
<1>4. Here \in Views BY <1>3 DEF ViewIsTrue
<1>5. trips \in Nat /\ rec \in [Wins -> RecordType] /\ heads \in [Outs -> HeadType]
      /\ outputs \in [Outs -> OutputType]
  BY <1>4 DEF Here, Views
<1>6. Here.rec = rec /\ Here.outputs = outputs /\ Here.heads = heads /\ Here.ready = ready
      /\ Here.trips = trips
  BY DEF Here
<1>7. has.info \in BOOLEAN /\ has.xdg \in BOOLEAN BY <1>2
<1> QED BY <1>3, <1>4, <1>5, <1>6, <1>7 DEF ViewIsTrue

\* Requests that are added leave the first what it is.
LEMMA AsksKeeps ==
    ASSUME CosmicInv, NEW do, do \in {"sync", "handle", "activate"}, NEW w \in Wins \cup {NoWin},
           Asks(do, w)
    PROVE  unread' \in Seq(WireRequest) /\ BindIsFirst' /\ Bound' = Bound
<1> DEFINE r == [do |-> do, win |-> w]
<1>1. unread \in Seq(WireRequest) /\ r \in WireRequest /\ r.do # "bind"
  BY DEF CosmicInv, CosmicTyped, WireRequest
<1> HIDE DEF r
<1>2. unread' = Append(unread, r) BY DEF Asks, r
<1>3. /\ unread' \in Seq(WireRequest) /\ Len(unread') = Len(unread) + 1
      /\ unread'[Len(unread) + 1] = r /\ \A i \in 1..Len(unread) : unread'[i] = unread[i]
      /\ Len(unread) \in Nat /\ unread' # <<>>
  BY <1>1, <1>2
<1>4. BindIsFirst'
  <2>1. \A i \in 1..Len(unread') : unread'[i].do = "bind" => i = 1
    BY <1>1, <1>3 DEF BindIsFirst, CosmicInv
  <2> QED BY <2>1 DEF BindIsFirst
<1>5. Bound' = Bound
  <2>1. CASE unread = <<>>
    <3>1. Head(unread') = r BY <1>1, <1>2, <2>1
    <3> QED BY <3>1, <1>1, <2>1 DEF Bound
  <2>2. CASE unread # <<>>
    <3>1. Head(unread') = Head(unread) BY <1>1, <1>2, <2>2
    <3> QED BY <3>1, <1>3, <2>2 DEF Bound
  <2> QED BY <2>1, <2>2
<1> QED BY <1>3, <1>4, <1>5

LEMMA UnreadKeeps ==
    ASSUME CosmicInv, UNCHANGED unread
    PROVE  unread' \in Seq(WireRequest) /\ BindIsFirst' /\ Bound' = Bound
<1>1. unread \in Seq(WireRequest) /\ BindIsFirst BY DEF CosmicInv, CosmicTyped
<1> QED BY <1>1 DEF BindIsFirst, Bound

\* What the helper does by itself changes nothing of where its view leads.
LEMMA EndingStays ==
    ASSUME CosmicInv, UNCHANGED <<task, has, cosmicDeskVars, owed>>, Bound' = Bound, NEW z, Ending(z)
    PROVE  Ending(z)'
<1> USE DEF cosmicDeskVars, Ending
<1>1. OpenIsShown(z)' BY DEF OpenIsShown
<1>2. ShownIsAnnounced(z)' BY DEF ShownIsAnnounced, Announced
<1>3. PlacesAreCurrent(z)' BY DEF PlacesAreCurrent
<1>4. OriginsAreCurrent(z)' BY DEF OriginsAreCurrent
<1>5. HeadsAreCurrent(z)' BY DEF HeadsAreCurrent
<1>6. OwedIsCurrent(z)'
  BY DEF OwedIsCurrent, NewOutput, Positions, HandleEvents, StateOf, Announced
<1>7. NothingIsBound(z)' BY DEF NothingIsBound
<1> QED BY <1>1, <1>2, <1>3, <1>4, <1>5, <1>6, <1>7

LEMMA HelperKeeps ==
    ASSUME CosmicInv, UNCHANGED <<task, has, cosmicDeskVars, owed>>,
           wire' \in Seq(EventType), unread' \in Seq(WireRequest), BindIsFirst', Bound' = Bound,
           \A z : Leads(Here, wire, z, had, has.info) => Leads(Here', wire', z, had, has.info)
    PROVE  CosmicTyped' /\ HadInv' /\ BindIsFirst' /\ EndsCurrent'
<1>1. CosmicTyped' BY DEF CosmicInv, CosmicTyped, cosmicDeskVars
<1>2. HadInv' BY DEF CosmicInv, HadInv, cosmicDeskVars, Global
<1>3. PICK z : Leads(Here, wire, z, had, has.info) /\ Ending(z) BY DEF CosmicInv, EndsCurrent
<1>4. Ending(z)' BY <1>3, EndingStays
<1>5. Leads(Here', wire', z, had', has'.info) BY <1>3 DEF cosmicDeskVars
<1>6. EndsCurrent' BY <1>4, <1>5 DEF EndsCurrent
<1> QED BY <1>1, <1>2, <1>6

LEMMA LooksKeep ==
    ASSUME CosmicInv, Looks, unread' \in Seq(WireRequest), BindIsFirst', Bound' = Bound
    PROVE  CosmicTyped' /\ HadInv' /\ BindIsFirst' /\ EndsCurrent'
<1>1. wire' = wire /\ wire \in Seq(EventType) BY DEF CosmicInv, CosmicTyped, Looks
<1>2. Here' = Here BY DEF Looks, helperVars, Here
<1>3. \A z : Leads(Here, wire, z, had, has.info) => Leads(Here', wire', z, had, has.info)
  BY <1>1, <1>2
<1>4. UNCHANGED <<task, has, cosmicDeskVars, owed>> BY DEF Looks
<1> QED BY <1>1, <1>3, <1>4, HelperKeeps

\* A helper that has answered has no more to keep than its answer.
LEMMA AnswerKeeps ==
    ASSUME CosmicInv, Looks, stage # "sync", NEW what, NEW listed, NEW focused, NEW bounds,
           NEW monitors, Replies(what, listed, focused, bounds, monitors), HelperIsTrue'
    PROVE  CosmicInv'
<1>1. unread' \in Seq(WireRequest) /\ BindIsFirst' /\ Bound' = Bound
  BY UnreadKeeps DEF Replies
<1>2. CosmicTyped' /\ HadInv' /\ BindIsFirst' /\ EndsCurrent' BY <1>1, LooksKeep
<1>3. StageInv'
  <2>1. stage' = "done" /\ trips' = trips /\ trips >= 1
    BY DEF Replies, Looks, CosmicInv, StageInv
  <2> QED BY <2>1 DEF StageInv
<1> QED BY <1>2, <1>3 DEF CosmicInv

-----------------------------------------------------------------------------
\* The steps of the helper.

LEMMA SaysFields ==
    ASSUME NEW what, NEW listed, NEW focused, NEW bounds, NEW monitors,
           Replies(what, listed, focused, bounds, monitors)
    PROVE  /\ stage' = "done" /\ helperSays'.kind = what /\ helperSays'.listed = listed
           /\ helperSays'.focused = focused /\ helperSays'.bounds = bounds
           /\ helperSays'.monitors = monitors
  BY DEF Replies

\* An answer that tells nothing of the desktop is true.
LEMMA ErrorIsTrue ==
    ASSUME Says("error")
    PROVE  HelperIsTrue'
<1>1. helperSays'.kind = "error" BY SaysFields DEF Says
<1> QED BY <1>1 DEF HelperIsTrue, ListingIsTrue, ActivationIsTrue, LayoutIsWhole

LEMMA QuietIsTrue ==
    ASSUME helperSays' = NothingSaid
    PROVE  HelperIsTrue'
<1>1. helperSays'.kind = "nothing" BY DEF NothingSaid
<1> QED BY <1>1 DEF HelperIsTrue, ListingIsTrue, ActivationIsTrue, LayoutIsWhole

LEMMA NotPrimedKeeps == CosmicInv /\ NotPrimed => CosmicInv'
<1> SUFFICES ASSUME CosmicInv, NotPrimed PROVE CosmicInv' OBVIOUS
<1>1. HelperIsTrue' BY ErrorIsTrue DEF NotPrimed
<1> QED BY <1>1, AnswerKeeps DEF NotPrimed, Says

LEMMA NoLayoutKeeps == CosmicInv /\ NoLayout => CosmicInv'
<1> SUFFICES ASSUME CosmicInv, NoLayout PROVE CosmicInv' OBVIOUS
<1>1. HelperIsTrue' BY ErrorIsTrue DEF NoLayout
<1> QED BY <1>1, AnswerKeeps DEF NoLayout, Says

\* What the outputs agree on is a place where the window was.
LEMMA BoundsAreTrue ==
    ASSUME CosmicInv, NEW w \in Wins
    PROVE  GlobalBounds(rec[w]) \in had.place[w] \cup {NoWin}
<1> DEFINE usable == {o \in Outs : /\ rec[w].at[o] # NoWin /\ outputs[o].done
                                   /\ outputs[o].logical # NoWin}
           known == {outputs[o].logical + rec[w].at[o] : o \in usable}
<1>1. known \subseteq had.place[w]
  <2>1. \A o \in Outs : PlaceIsTrue(rec[w].at[o], outputs[o].logical, had.place[w]) BY Started
  <2> QED BY <2>1 DEF PlaceIsTrue
<1> HIDE DEF known
<1>2. CASE Cardinality(known) = 1
  <2>1. known # {}
    <3>1. Cardinality({}) = 0 BY FS_EmptySet
    <3> QED BY <3>1, <1>2
  <2>2. (CHOOSE x \in known : TRUE) \in known BY <2>1
  <2>3. GlobalBounds(rec[w]) = CHOOSE x \in known : TRUE BY <1>2 DEF GlobalBounds, known
  <2> QED BY <1>1, <2>2, <2>3
<1>3. CASE Cardinality(known) # 1
  <2>1. GlobalBounds(rec[w]) = NoWin BY <1>3 DEF GlobalBounds, known
  <2> QED BY <2>1
<1> QED BY <1>2, <1>3

LEMMA CollectsWindowsKeeps == CosmicInv /\ CollectsWindows => CosmicInv'
<1> SUFFICES ASSUME CosmicInv, CollectsWindows PROVE CosmicInv' OBVIOUS
<1> DEFINE listed == {w \in Opened : rec[w].named}
           focused == {w \in listed : rec[w].focused}
           bounds == [w \in Wins |-> GlobalBounds(rec[w])]
<1>1. Replies("windows", listed, focused, bounds, {}) BY DEF CollectsWindows
<1>2. /\ helperSays'.kind = "windows" /\ helperSays'.listed = listed
      /\ helperSays'.focused = focused /\ helperSays'.bounds = bounds
  BY <1>1, SaysFields
<1>3. trips >= 1 BY DEF CollectsWindows, CosmicInv, StageInv
<1>4. \A w \in Wins : RecordIsTrue(rec[w], w, trips, had, has.info) BY Started
<1>5. had' = had /\ has' = has BY DEF CollectsWindows, Looks, cosmicDeskVars
<1>6. had.always \subseteq Wins BY DEF CosmicInv, CosmicTyped, HadType
<1>7. IF has.info THEN had.always \subseteq listed ELSE listed = {}
  BY <1>3, <1>4, <1>6 DEF RecordIsTrue, Opened
<1>8. listed \subseteq had.shown BY <1>4 DEF RecordIsTrue, Opened
<1>9. focused \subseteq had.activated BY <1>4 DEF RecordIsTrue, Opened
<1>10. ASSUME NEW w \in listed \ focused PROVE had.activated # {w}
  <2>1. rec[w].open /\ rec[w].handle = has.info /\ has.info /\ w \in Wins
    BY <1>4 DEF RecordIsTrue, Opened
  <2>2. rec[w].seen BY <1>10, <2>1 DEF CollectsWindows, Primed, StatesSeen, Opened
  <2>3. NotOnly(w, had) BY <1>4, <1>10, <2>1, <2>2 DEF RecordIsTrue
  <2> QED BY <2>3 DEF NotOnly
<1>11. \A w \in listed : bounds[w] \in had.place[w] \cup {NoWin}
  BY BoundsAreTrue DEF Opened
<1>12. HelperIsTrue'
  <2> HIDE DEF listed, focused, bounds
  <2>1. ListingIsTrue' BY <1>2, <1>5, <1>7, <1>8, <1>9, <1>10, <1>11 DEF ListingIsTrue
  <2> QED BY <1>2, <2>1 DEF HelperIsTrue, ActivationIsTrue, LayoutIsWhole
<1>13. stage # "sync" /\ Looks BY DEF CollectsWindows
<1> QED BY <1>1, <1>12, <1>13, AnswerKeeps

LEMMA TellsLayoutKeeps == CosmicInv /\ TellsLayout => CosmicInv'
<1> SUFFICES ASSUME CosmicInv, TellsLayout PROVE CosmicInv' OBVIOUS
<1>1. CASE Says("error")
  <2>1. HelperIsTrue' BY <1>1, ErrorIsTrue
  <2> QED BY <1>1, <2>1, AnswerKeeps DEF TellsLayout, Says
<1>2. CASE Replies("layout", {}, {}, <<>>, {<<heads[h].x, heads[h].mode>> : h \in Active})
  <2> DEFINE monitors == {<<heads[h].x, heads[h].mode>> : h \in Active}
  <2>1. helperSays'.kind = "layout" /\ helperSays'.monitors = monitors BY <1>2, SaysFields
  <2>2. PICK l \in had.layout : \A h \in Outs : HeadShows(heads[h], l[h])
    BY Started DEF TellsLayout, LayoutShows
  <2>3. Active = {o \in Outs : l[o].there /\ l[o].on} BY <2>2 DEF Active, HeadShows
  <2>4. monitors = {<<l[h].x, l[h].mode>> : h \in {o \in Outs : l[o].there /\ l[o].on}}
    <3>1. \A h \in Active : heads[h].x = l[h].x /\ heads[h].mode = l[h].mode
      BY <2>2, <2>3 DEF HeadShows
    <3> QED BY <2>3, <3>1
  <2>5. had' = had BY DEF TellsLayout, Looks, cosmicDeskVars
  <2> HIDE DEF monitors
  <2>6. LayoutIsWhole' BY <2>1, <2>4, <2>5 DEF LayoutIsWhole
  <2>7. HelperIsTrue' BY <2>1, <2>6 DEF HelperIsTrue, ActivationIsTrue, ListingIsTrue
  <2>8. stage # "sync" /\ Looks BY DEF TellsLayout
  <2> QED BY <1>2, <2>7, <2>8, AnswerKeeps
<1> QED BY <1>1, <1>2 DEF TellsLayout

LEMMA VerifiesKeeps == CosmicInv /\ Verifies => CosmicInv'
<1> SUFFICES ASSUME CosmicInv, Verifies PROVE CosmicInv' OBVIOUS
<1>1. helperSays'.kind = "verified" BY SaysFields DEF Verifies, Says
<1>2. task.win \in Wins /\ rec[task.win].focused BY DEF Verifies, FocusSeen, Opened
<1>3. task.win \in had.activated BY <1>2, Started DEF RecordIsTrue
<1>4. had' = had /\ task' = task BY DEF Verifies, Looks, cosmicDeskVars
<1>5. HelperIsTrue'
  BY <1>1, <1>3, <1>4 DEF HelperIsTrue, ActivationIsTrue, ListingIsTrue, LayoutIsWhole
<1>6. stage # "sync" /\ Looks BY DEF Verifies
<1> QED BY <1>5, <1>6, AnswerKeeps DEF Verifies, Says

\* A window that was never seen to have the focus, or no longer, was not the only one to have it.
LEMMA UnfocusedIsNotOnly ==
    ASSUME CosmicInv, stage = "verify", ~FocusSeen
    PROVE  NotOnly(task.win, had)
<1> DEFINE w == task.win
<1>1. w \in Wins
  <2>1. task \in Tasks /\ task.what = "activate" BY DEF CosmicInv, CosmicTyped, StageInv
  <2> QED BY <2>1, CosmicAssumption
<1>2. RecordIsTrue(rec[w], w, trips, had, has.info) /\ rec[w] \in RecordType BY <1>1, Started
<1>3. has.info /\ rec[w].listed /\ (rec[w].handle /\ ~rec[w].seen => NotOnly(w, had))
  BY <1>1 DEF CosmicInv, StageInv
<1>4. ~rec[w].open \/ ~rec[w].focused BY <1>1 DEF FocusSeen, Opened
<1> HIDE DEF w
<1>5. NotOnly(w, had) BY <1>2, <1>3, <1>4 DEF RecordIsTrue, RecordType
<1> QED BY <1>5 DEF w

LEMMA VerifyLateKeeps == CosmicInv /\ VerifyLate => CosmicInv'
<1> SUFFICES ASSUME CosmicInv, VerifyLate PROVE CosmicInv' OBVIOUS
<1>1. helperSays'.kind = "unverified" BY SaysFields DEF VerifyLate, Says
<1>2. NotOnly(task.win, had) BY UnfocusedIsNotOnly DEF VerifyLate
<1>3. had.activated # {task.win} BY <1>2 DEF NotOnly
<1>4. had' = had /\ task' = task BY DEF VerifyLate, Looks, cosmicDeskVars
<1>5. HelperIsTrue'
  BY <1>1, <1>3, <1>4 DEF HelperIsTrue, ActivationIsTrue, ListingIsTrue, LayoutIsWhole
<1>6. stage # "sync" /\ Looks BY DEF VerifyLate
<1> QED BY <1>5, <1>6, AnswerKeeps DEF VerifyLate, Says

LEMMA GoesOnKeeps == CosmicInv /\ GoesOn => CosmicInv'
<1> SUFFICES ASSUME CosmicInv, GoesOn PROVE CosmicInv' OBVIOUS
<1>1. unread' \in Seq(WireRequest) /\ BindIsFirst' /\ Bound' = Bound
  BY UnreadKeeps DEF GoesOn
<1>2. CosmicTyped' /\ HadInv' /\ BindIsFirst' /\ EndsCurrent' BY <1>1, LooksKeep DEF GoesOn
<1>3. /\ stage = "prime" /\ stage' = task.what /\ task' = task /\ trips' = trips /\ rec' = rec
      /\ helperSays' = helperSays /\ had' = had /\ has' = has
  BY DEF GoesOn, Looks, helperVars, cosmicDeskVars
<1>4. task.what \in {"layout", "activate"}
  <2>1. task \in Tasks BY DEF CosmicInv, CosmicTyped
  <2> QED BY <2>1, CosmicAssumption DEF GoesOn
<1>5. trips >= 1 /\ helperSays = NothingSaid BY <1>3 DEF CosmicInv, StageInv
<1>6. \A w \in Wins : ~(rec[w].handle /\ ~rec[w].seen)
  <2>1. \A w \in Wins : RecordIsTrue(rec[w], w, trips, had, has.info) BY Started
  <2>2. StatesSeen BY DEF GoesOn, Primed
  <2> QED BY <2>1, <2>2 DEF StatesSeen, RecordIsTrue, Opened
<1>7. StageInv' BY <1>3, <1>4, <1>5, <1>6 DEF StageInv
<1>8. HelperIsTrue' BY <1>3, <1>5, QuietIsTrue
<1> QED BY <1>2, <1>7, <1>8 DEF CosmicInv

LEMMA AsksForFocusKeeps == CosmicInv /\ AsksForFocus => CosmicInv'
<1> SUFFICES ASSUME CosmicInv, AsksForFocus PROVE CosmicInv' OBVIOUS
<1>1. CASE has.manage /\ rec[task.win].named /\ rec[task.win].handle
  <2>1. /\ stage = "activate" /\ stage' = "verify" /\ Asks("activate", task.win)
        /\ helperSays' = helperSays /\ Looks
    BY <1>1 DEF AsksForFocus
  <2>2. task.what = "activate" /\ trips >= 1 /\ helperSays = NothingSaid
    BY <2>1 DEF CosmicInv, StageInv
  <2>3. task.win \in Wins
    <3>1. task \in Tasks BY DEF CosmicInv, CosmicTyped
    <3> QED BY <2>2, <3>1, CosmicAssumption
  <2>4. unread' \in Seq(WireRequest) /\ BindIsFirst' /\ Bound' = Bound
    BY <2>1, <2>3, AsksKeeps
  <2>5. CosmicTyped' /\ HadInv' /\ BindIsFirst' /\ EndsCurrent' BY <2>1, <2>4, LooksKeep
  <2>6. task' = task /\ trips' = trips /\ rec' = rec /\ had' = had /\ has' = has
    BY <2>1 DEF Looks, helperVars, cosmicDeskVars
  <2>7. has.info /\ rec[task.win].listed
    <3>1. RecordIsTrue(rec[task.win], task.win, trips, had, has.info)
          /\ rec[task.win] \in RecordType
      BY <2>3, Started
    <3>2. has.info \in BOOLEAN BY Started
    <3> QED BY <1>1, <3>1, <3>2 DEF RecordIsTrue, RecordType
  <2>8. \A w \in Wins : rec[w].handle /\ ~rec[w].seen => NotOnly(w, had)
    BY <2>1 DEF CosmicInv, StageInv
  <2>9. StageInv' BY <2>1, <2>2, <2>6, <2>7, <2>8 DEF StageInv, NotOnly
  <2>10. HelperIsTrue' BY <2>1, <2>2, QuietIsTrue
  <2> QED BY <2>5, <2>9, <2>10 DEF CosmicInv
<1>2. CASE Says("error")
  <2>1. HelperIsTrue' BY <1>2, ErrorIsTrue
  <2> QED BY <1>2, <2>1, AnswerKeeps DEF AsksForFocus, Says
<1> QED BY <1>1, <1>2 DEF AsksForFocus

\* A record that has a handle and was not seen had one before, or was not there or not open.
LEMMA HandleIsOld ==
    ASSUME NEW r \in RecordType, NEW w \in Wins, NEW ev \in EventType, NEW info \in BOOLEAN,
           NEW t \in Nat, t >= 1, NEW hd, RecordIsTrue(r, w, t, hd, info),
           ev.e \in WindowNews \cup PlaceNews, RecordAfter(r, ev, info).handle,
           ~RecordAfter(r, ev, info).seen,
           r.handle /\ ~r.seen => NotOnly(w, hd)
    PROVE  NotOnly(w, hd)
<1>1. CASE ev.e = "toplevel"
  <2>1. RecordAfter(r, ev, info) = [r EXCEPT !.listed = TRUE, !.open = TRUE, !.handle = info]
    BY <1>1 DEF RecordAfter
  <2>2. info /\ ~r.seen BY <2>1 DEF RecordType
  <2> QED BY <2>2 DEF RecordIsTrue, RecordType
<1>2. CASE ev.e # "toplevel"
  <2>1. r.handle /\ ~r.seen
    BY <1>2 DEF RecordAfter, RecordType, WindowNews, PlaceNews
  <2> QED BY <2>1
<1> QED BY <1>1, <1>2

LEMMA ListedStays ==
    ASSUME NEW r \in RecordType, NEW ev \in EventType, NEW info,
           ev.e \in WindowNews \cup PlaceNews, r.listed
    PROVE  RecordAfter(r, ev, info).listed
  BY DEF RecordAfter, RecordType, WindowNews, PlaceNews

LEMMA DispatchAsks ==
    ASSUME CosmicInv, Dispatch
    PROVE  unread' \in Seq(WireRequest) /\ BindIsFirst' /\ Bound' = Bound
<1> DEFINE ev == Head(wire)
<1>1. ev \in EventType BY DEF CosmicInv, CosmicTyped, Dispatch
<1>2. CASE Asks("sync", NoWin) BY <1>2, AsksKeeps
<1>3. CASE Asks("handle", ev.win)
  <2>1. ev.win \in Wins \cup {NoWin} BY <1>1, EventFields
  <2> HIDE DEF ev
  <2> QED BY <1>3, <2>1, AsksKeeps
<1>4. CASE UNCHANGED unread BY <1>4, UnreadKeeps
<1> QED BY <1>2, <1>3, <1>4 DEF Dispatch

LEMMA DispatchReads ==
    ASSUME CosmicInv, Dispatch
    PROVE  /\ Here' = ViewAfter(Here, Head(wire), has.info)
           /\ wire' \in Seq(EventType)
           /\ \A z : Leads(Here, wire, z, had, has.info) => Leads(Here', wire', z, had, has.info)
<1> DEFINE ev == Head(wire)
<1>0. ev \in EventType /\ wire \in Seq(EventType) /\ wire # <<>> /\ wire' = Tail(wire)
  BY DEF CosmicInv, CosmicTyped, Dispatch
<1>1. Here' = ViewAfter(Here, ev, has.info)
  <2>1. /\ rec' = IF ev.win = NoWin THEN rec
                  ELSE [rec EXCEPT ![ev.win] = RecordAfter(rec[ev.win], ev, has.info)]
        /\ outputs' = IF ev.out = NoWin THEN outputs
                      ELSE [outputs EXCEPT ![ev.out] = OutputAfter(outputs[ev.out], ev)]
        /\ heads' = IF ev.e \in HeadNews
                    THEN [heads EXCEPT ![ev.out] = HeadAfter(heads[ev.out], ev)] ELSE heads
        /\ ready' = (ev.e = "layout_done" \/ (ready /\ ev.e \notin HeadNews))
        /\ trips' = trips + IF ev.e = "synced" THEN 1 ELSE 0
    BY DEF Dispatch, ReadyAfter
  <2> HIDE DEF ev
  <2> QED BY <2>1 DEF Here, ViewAfter
<1> HIDE DEF ev
<1>2. wire' \in Seq(EventType) BY <1>0
<1>3. \A z : Leads(Here, wire, z, had, has.info) => Leads(Here', wire', z, had, has.info)
  BY <1>0, <1>1, LeadsRead DEF ev
<1> QED BY <1>1, <1>2, <1>3 DEF ev

LEMMA DispatchKeeps == CosmicInv /\ Dispatch => CosmicInv'
<1> SUFFICES ASSUME CosmicInv, Dispatch PROVE CosmicInv' OBVIOUS
<1> DEFINE ev == Head(wire)
<1>0. ev \in EventType BY DEF CosmicInv, CosmicTyped, Dispatch
<1>1. CosmicTyped' /\ HadInv' /\ BindIsFirst' /\ EndsCurrent'
  <2>1. UNCHANGED <<task, has, cosmicDeskVars, owed>> BY DEF Dispatch
  <2> QED BY <2>1, DispatchAsks, DispatchReads, HelperKeeps
<1>2. /\ stage # "done" /\ helperSays' = helperSays /\ helperSays = NothingSaid
      /\ task' = task /\ has' = has /\ had' = had
  BY DEF Dispatch, cosmicDeskVars, CosmicInv, StageInv
<1>3. HelperIsTrue' BY <1>2, QuietIsTrue
<1>4. /\ rec' = IF ev.win = NoWin THEN rec
                ELSE [rec EXCEPT ![ev.win] = RecordAfter(rec[ev.win], ev, has.info)]
      /\ trips' = trips + IF ev.e = "synced" THEN 1 ELSE 0
      /\ stage' = IF stage = "sync" /\ trips' = Roundtrips THEN "prime" ELSE stage
  BY DEF Dispatch
<1> HIDE DEF ev
<1>5. trips \in Nat /\ trips' \in Nat /\ trips' >= trips /\ rec \in [Wins -> RecordType]
      /\ has.info \in BOOLEAN
  BY <1>4, Started DEF Here, Views
<1>6. stage' # "sync" => trips' >= 1
  <2>1. CASE stage = "sync" /\ trips' = Roundtrips BY <2>1, <1>5, CosmicAssumption
  <2>2. CASE ~(stage = "sync" /\ trips' = Roundtrips)
    <3>1. stage' = stage BY <1>4, <2>2
    <3> QED BY <3>1, <1>5 DEF CosmicInv, StageInv
  <2> QED BY <2>1, <2>2
<1>7. ASSUME stage' \in {"activate", "verify"}
      PROVE  /\ stage' = stage /\ task.what = "activate" /\ trips >= 1
             /\ \A w \in Wins : rec[w].handle /\ ~rec[w].seen => NotOnly(w, had)
  <2>1. stage' = stage BY <1>4, <1>7
  <2> QED BY <1>7, <2>1 DEF CosmicInv, StageInv
<1>8. ASSUME ev.win # NoWin PROVE ev.win \in Wins /\ ev.e \in WindowNews \cup PlaceNews
  BY <1>0, <1>8, EventFields
<1>9. ASSUME stage' \in {"activate", "verify"}, NEW w \in Wins, rec'[w].handle, ~rec'[w].seen
      PROVE  NotOnly(w, had)
  <2>1. CASE ev.win = w /\ ev.win # NoWin
    <3>1. rec'[w] = RecordAfter(rec[w], ev, has.info) BY <1>4, <1>5, <2>1
    <3>2. RecordIsTrue(rec[w], w, trips, had, has.info) /\ rec[w] \in RecordType BY Started
    <3> QED BY <1>0, <1>5, <1>7, <1>8, <1>9, <2>1, <3>1, <3>2, HandleIsOld
  <2>2. CASE ~(ev.win = w /\ ev.win # NoWin)
    <3>1. rec'[w] = rec[w] BY <1>4, <1>5, <2>2
    <3> QED BY <1>7, <1>9, <3>1
  <2> QED BY <2>1, <2>2
<1>10. ASSUME stage' = "verify" PROVE has.info /\ rec'[task.win].listed
  <2>1. stage = "verify" BY <1>7, <1>10
  <2>2. has.info /\ rec[task.win].listed BY <2>1 DEF CosmicInv, StageInv
  <2>3. task.win \in Wins
    <3>1. task \in Tasks /\ task.what = "activate"
      BY <2>1 DEF CosmicInv, CosmicTyped, StageInv
    <3> QED BY <3>1, CosmicAssumption
  <2>4. CASE ev.win = task.win /\ ev.win # NoWin
    <3>1. rec'[task.win] = RecordAfter(rec[task.win], ev, has.info) BY <1>4, <1>5, <2>3, <2>4
    <3>2. rec[task.win] \in RecordType BY <2>3, Started
    <3> QED BY <1>0, <1>8, <2>2, <2>4, <3>1, <3>2, ListedStays
  <2>5. CASE ~(ev.win = task.win /\ ev.win # NoWin)
    <3>1. rec'[task.win] = rec[task.win] BY <1>4, <1>5, <2>3, <2>5
    <3> QED BY <2>2, <3>1
  <2> QED BY <2>2, <2>4, <2>5
<1>11. StageInv' BY <1>2, <1>6, <1>7, <1>9, <1>10 DEF StageInv
<1> QED BY <1>1, <1>3, <1>11 DEF CosmicInv

LEMMA HelperStepKeeps == CosmicInv /\ HelperStep => CosmicInv'
  BY DispatchKeeps, CollectsWindowsKeeps, GoesOnKeeps, NotPrimedKeeps, TellsLayoutKeeps,
     NoLayoutKeeps, AsksForFocusKeeps, VerifiesKeeps, VerifyLateKeeps DEF HelperStep

-----------------------------------------------------------------------------
\* The steps of the compositor.

LEMMA CompositorKeeps ==
    ASSUME CosmicInv, stage # "done", UNCHANGED <<task, has, helperVars, stageVars>>,
           Grows(had, had'), CosmicTyped', HadInv', BindIsFirst',
           NEW z, Leads(Here, wire', z, had', has.info), Ending(z)'
    PROVE  CosmicInv'
<1>1. Here' = Here /\ has' = has /\ task' = task /\ rec' = rec /\ trips' = trips /\ stage' = stage
      /\ helperSays' = helperSays
  BY DEF helperVars, stageVars, Here
<1>2. EndsCurrent' BY <1>1 DEF EndsCurrent
<1>3. helperSays = NothingSaid BY DEF CosmicInv, StageInv
<1>4. HelperIsTrue' BY <1>1, <1>3, QuietIsTrue
<1>5. \A w \in Wins : NotOnly(w, had) => NotOnly(w, had)' BY DEF NotOnly, Grows
<1>6. StageInv' BY <1>1, <1>5 DEF CosmicInv, StageInv
<1> QED BY <1>2, <1>4, <1>6 DEF CosmicInv

LEMMA GrowsSelf == Grows(had, had)
  BY DEF Grows

LEMMA StillLeads ==
    ASSUME CosmicInv, Grows(had, had'), NEW z, Leads(Here, wire, z, had, has.info)
    PROVE  Leads(Here, wire, z, had', has.info)
<1>1. wire \in Seq(EventType) BY DEF CosmicInv, CosmicTyped
<1> QED BY <1>1, LeadsMore

\* Where the view leads, and what is known of it.
LEMMA EndIsKnown ==
    ASSUME CosmicInv
    PROVE  \E z : /\ Leads(Here, wire, z, had, has.info) /\ Ending(z)
                  /\ z \in Views /\ ViewIsTrue(z, had, has.info)
<1>1. PICK z : Leads(Here, wire, z, had, has.info) /\ Ending(z) BY DEF CosmicInv, EndsCurrent
<1>2. wire \in Seq(EventType) BY DEF CosmicInv, CosmicTyped
<1>3. ViewIsTrue(z, had, has.info) BY <1>1, <1>2, LeadsEnds
<1> QED BY <1>1, <1>3 DEF ViewIsTrue

LEMMA TailKeeps ==
    ASSUME CosmicInv, unread # <<>>, unread' = Tail(unread)
    PROVE  /\ unread' \in Seq(WireRequest) /\ BindIsFirst' /\ Bound'
           /\ Head(unread) \in WireRequest
<1>1. unread \in Seq(WireRequest) BY DEF CosmicInv, CosmicTyped
<1>2. \A i \in 1..Len(unread) : unread[i].do = "bind" => i = 1
  BY DEF CosmicInv, BindIsFirst
<1>3. /\ unread' \in Seq(WireRequest) /\ Len(unread') = Len(unread) - 1
      /\ Len(unread) \in Nat /\ Len(unread) >= 1
      /\ \A i \in 1..(Len(unread) - 1) : unread'[i] = unread[i + 1]
      /\ Head(unread) \in WireRequest
  BY <1>1
<1>4. \A i \in 1..Len(unread') : unread'[i].do # "bind" BY <1>2, <1>3
<1>5. BindIsFirst' BY <1>4 DEF BindIsFirst
<1>6. Bound'
  <2>1. CASE unread' = <<>> BY <2>1 DEF Bound
  <2>2. CASE unread' # <<>>
    <3>1. Head(unread') = unread'[1] /\ 1 \in 1..Len(unread') BY <1>3, <2>2
    <3> QED BY <3>1, <1>4 DEF Bound
  <2> QED BY <2>1, <2>2
<1> QED BY <1>3, <1>5, <1>6

\* Nothing is owed.
LEMMA OwesNothing ==
    ASSUME owed' = NothingOwed, NEW z
    PROVE  OwedIsCurrent(z)' /\ owed'.bursts = {}
  BY DEF OwedIsCurrent, NothingOwed

\* The desktop is as it was.
DeskStays ==
    UNCHANGED <<task, has, shown, activated, place, origin, layout>>

LEMMA TypedStays ==
    ASSUME CosmicInv, DeskStays, due' \subseteq shown, tracked' \subseteq shown,
           wire' \in Seq(EventType), unread' \in Seq(WireRequest), UNCHANGED had
    PROVE  CosmicTyped' /\ HadInv'
<1>1. CosmicTyped' BY DEF CosmicInv, CosmicTyped, DeskStays
<1>2. HadInv' BY DEF CosmicInv, HadInv, DeskStays, Global
<1> QED BY <1>1, <1>2

LEMMA DeskEnding ==
    ASSUME DeskStays, UNCHANGED <<had, tracked>>, NEW z, Ending(z)
    PROVE  OpenIsShown(z)' /\ PlacesAreCurrent(z)' /\ OriginsAreCurrent(z)'
  BY DEF DeskStays, Ending, OpenIsShown, PlacesAreCurrent, OriginsAreCurrent

LEMMA BindKeeps ==
    ASSUME CosmicInv, Serve, stage # "done", Head(unread).do = "bind"
    PROVE  CosmicInv'
<1>1. /\ unread # <<>> /\ unread' = Tail(unread) /\ owed = NothingOwed /\ wire' = wire
      /\ owed' = IF task.what = "layout"
                 THEN [bursts |-> {NewHead(h, layout) : h \in {o \in Outs : layout[o].there}},
                       end |-> LayoutDone]
                 ELSE [bursts |-> {NewOutput(o) : o \in Outs} \cup {Announces(w) : w \in Announced},
                       end |-> <<>>]
      /\ UNCHANGED <<due, tracked, had>> /\ DeskStays
      /\ UNCHANGED <<task, has, helperVars, stageVars>>
  BY DEF Serve, Owes, DeskStays
<1>2. unread' \in Seq(WireRequest) /\ BindIsFirst' /\ Bound' BY <1>1, TailKeeps
<1>3. PICK z : /\ Leads(Here, wire, z, had, has.info) /\ Ending(z) /\ z \in Views
  BY EndIsKnown
<1>4. ~Bound BY <1>1 DEF Bound
<1>5. \A h \in Outs : z.heads[h] = NoHead BY <1>3, <1>4 DEF Ending, NothingIsBound
<1>6. CosmicTyped' /\ HadInv'
  <2>1. due \subseteq shown /\ tracked \subseteq shown /\ wire \in Seq(EventType)
    BY DEF CosmicInv, CosmicTyped
  <2> QED BY <1>1, <1>2, <2>1, TypedStays
<1>7. OpenIsShown(z)' /\ PlacesAreCurrent(z)' /\ OriginsAreCurrent(z)'
  BY <1>1, <1>3, DeskEnding
<1>8. task' = task /\ shown' = shown /\ layout' = layout /\ origin' = origin /\ has' = has
  BY <1>1 DEF DeskStays
<1>9. task.what = "layout" => shown = {} BY DEF CosmicInv, CosmicTyped
<1>10. ShownIsAnnounced(z)' BY <1>1, <1>8, <1>9 DEF ShownIsAnnounced, Announced
<1>11. ASSUME task.what = "layout", NEW h \in Outs, layout[h].there
       PROVE  NewHead(h, layout) \in owed'.bursts /\ HeadBurst(NewHead(h, layout), h, z.heads[h], layout)
  BY <1>1, <1>11 DEF HeadBurst
<1>12. ASSUME task.what = "layout", NEW h \in Outs, ~layout[h].there
       PROVE  HeadShows(z.heads[h], layout[h])
  <2>1. layout[h].there \in BOOLEAN BY <1>12 DEF CosmicInv, CosmicTyped, MonitorType
  <2> QED BY <1>5, <1>12, <2>1 DEF HeadShows, NoHead
<1>13. HeadsAreCurrent(z)' BY <1>8, <1>11, <1>12 DEF HeadsAreCurrent
<1>14. OwedIsCurrent(z)'
  <2>1. CASE task.what = "layout"
    <3>1. \A b \in owed'.bursts : \E h \in Outs : HeadBurst(b, h, z.heads[h], layout)
      BY <1>1, <1>11, <2>1
    <3> QED BY <1>1, <1>8, <2>1, <3>1 DEF OwedIsCurrent, LayoutDone
  <2>2. CASE task.what # "layout"
    <3>1. \A b \in owed'.bursts : \/ \E o \in Outs : b = NewOutput(o)
                                  \/ \E w \in Announced : b = Announces(w)
      BY <1>1, <2>2
    <3>2. \A o \in Outs : NewOutput(o)' = NewOutput(o) BY <1>8 DEF NewOutput, Positions
    <3> QED BY <1>1, <1>8, <2>2, <3>1, <3>2 DEF OwedIsCurrent, Announced
  <2> QED BY <2>1, <2>2
<1>15. NothingIsBound(z)' BY <1>2 DEF NothingIsBound
<1>16. Ending(z)' BY <1>7, <1>10, <1>13, <1>14, <1>15 DEF Ending
<1>17. Leads(Here, wire', z, had', has.info) BY <1>1, <1>3
<1> QED BY <1>1, <1>2, <1>6, <1>16, <1>17, GrowsSelf, CompositorKeeps

\* What is not owed any more is known.
LEMMA AllAnnounced ==
    ASSUME Bound, owed = NothingOwed, NEW z, Ending(z)
    PROVE  /\ \A w \in Announced : z.rec[w].listed /\ z.rec[w].open /\ z.rec[w].named
           /\ task.what = "layout" => \A h \in Outs : HeadShows(z.heads[h], layout[h])
<1>1. owed.bursts = {} BY DEF NothingOwed
<1> QED BY <1>1 DEF Ending, ShownIsAnnounced, Announced, HeadsAreCurrent

LEMMA SyncKeeps ==
    ASSUME CosmicInv, Serve, stage # "done", Head(unread).do = "sync"
    PROVE  CosmicInv'
<1>1. /\ unread # <<>> /\ unread' = Tail(unread) /\ owed = NothingOwed
      /\ wire' = wire \o <<Sign("synced")>>
      /\ owed' = owed /\ UNCHANGED <<due, tracked, had>> /\ DeskStays
      /\ UNCHANGED <<task, has, helperVars, stageVars>>
  BY DEF Serve, Emits, DeskStays, Sign
<1>2. unread' \in Seq(WireRequest) /\ BindIsFirst' /\ Bound' BY <1>1, TailKeeps
<1>3. PICK z : /\ Leads(Here, wire, z, had, has.info) /\ Ending(z) /\ z \in Views
               /\ ViewIsTrue(z, had, has.info)
  BY EndIsKnown
<1>4. Bound BY DEF Bound
<1> DEFINE z2 == View(z.rec, z.outputs, z.heads, z.ready, z.trips + 1)
<1>5. z2.rec = z.rec /\ z2.outputs = z.outputs /\ z2.heads = z.heads BY DEF View
<1> HIDE DEF z2
<1>6. ASSUME NEW w \in Wins PROVE RecordIsTrue(z.rec[w], w, z.trips + 1, had, has.info)
  <2>1. RecordIsTrue(z.rec[w], w, z.trips, had, has.info) BY <1>3 DEF ViewIsTrue
  <2>2. w \in shown /\ has.info => z.rec[w].listed /\ z.rec[w].named
    BY <1>1, <1>3, <1>4, AllAnnounced DEF Announced
  <2>3. w \notin shown => NotOnly(w, had) /\ w \notin had.always
    <3>1. activated \in had.activated /\ activated \in shown \cup {NoWin}
          /\ had.always \subseteq shown
      BY DEF CosmicInv, CosmicTyped, HadInv
    <3>2. w # NoWin BY CosmicAssumption
    <3> QED BY <3>1, <3>2 DEF NotOnly
  <2>4. had.always \subseteq shown BY DEF CosmicInv, HadInv
  <2> QED BY <2>1, <2>2, <2>3, <2>4 DEF RecordIsTrue
<1>7. wire' \in Seq(EventType) /\ Leads(Here, wire', z2, had', has.info)
  <2>1. wire \in Seq(EventType) /\ has.info \in BOOLEAN BY Started DEF CosmicInv, CosmicTyped
  <2> QED BY <1>1, <1>3, <1>6, <2>1, SyncedEmit DEF z2
<1>8. CosmicTyped' /\ HadInv'
  <2>1. due \subseteq shown /\ tracked \subseteq shown BY DEF CosmicInv, CosmicTyped
  <2> QED BY <1>1, <1>2, <1>7, <2>1, TypedStays
<1>9. OpenIsShown(z)' /\ PlacesAreCurrent(z)' /\ OriginsAreCurrent(z)'
  BY <1>1, <1>3, DeskEnding
<1>10. OpenIsShown(z2)' /\ PlacesAreCurrent(z2)' /\ OriginsAreCurrent(z2)'
  BY <1>5, <1>9 DEF OpenIsShown, PlacesAreCurrent, OriginsAreCurrent
<1>11. ShownIsAnnounced(z2)' /\ HeadsAreCurrent(z2)'
  BY <1>1, <1>3, <1>4, <1>5, AllAnnounced DEF ShownIsAnnounced, Announced, HeadsAreCurrent, DeskStays
<1>12. OwedIsCurrent(z2)' BY <1>1, OwesNothing
<1>13. NothingIsBound(z2)' BY <1>2 DEF NothingIsBound
<1>14. Ending(z2)' BY <1>10, <1>11, <1>12, <1>13 DEF Ending
<1> QED BY <1>1, <1>2, <1>7, <1>8, <1>14, GrowsSelf, CompositorKeeps

LEMMA AskedHandleKeeps ==
    ASSUME CosmicInv, Serve, stage # "done", Head(unread).do = "handle"
    PROVE  CosmicInv'
<1>1. /\ unread # <<>> /\ unread' = Tail(unread) /\ owed = NothingOwed
      /\ due' = due \cup ({Head(unread).win} \cap shown)
      /\ wire' = wire /\ owed' = owed /\ UNCHANGED <<tracked, had>> /\ DeskStays
      /\ UNCHANGED <<task, has, helperVars, stageVars>>
  BY DEF Serve, DeskStays
<1>2. unread' \in Seq(WireRequest) /\ BindIsFirst' /\ Bound' BY <1>1, TailKeeps
<1>3. PICK z : /\ Leads(Here, wire, z, had, has.info) /\ Ending(z)
  BY EndIsKnown
<1>4. Bound BY DEF Bound
<1>5. CosmicTyped' /\ HadInv'
  <2>1. due \subseteq shown /\ tracked \subseteq shown /\ wire \in Seq(EventType)
    BY DEF CosmicInv, CosmicTyped
  <2> QED BY <1>1, <1>2, <2>1, TypedStays
<1>6. OpenIsShown(z)' /\ PlacesAreCurrent(z)' /\ OriginsAreCurrent(z)'
  BY <1>1, <1>3, DeskEnding
<1>7. ShownIsAnnounced(z)' /\ HeadsAreCurrent(z)'
  BY <1>1, <1>3, <1>4, AllAnnounced DEF ShownIsAnnounced, Announced, HeadsAreCurrent, DeskStays
<1>8. OwedIsCurrent(z)' BY <1>1, OwesNothing
<1>9. NothingIsBound(z)' BY <1>2 DEF NothingIsBound
<1>10. Ending(z)' BY <1>6, <1>7, <1>8, <1>9 DEF Ending
<1>11. Leads(Here, wire', z, had', has.info) BY <1>1, <1>3
<1> QED BY <1>1, <1>2, <1>5, <1>10, <1>11, GrowsSelf, CompositorKeeps

InParts(a, b, c, d) == a \o (b \o c \o d) = ((a \o b) \o c) \o d

LEMMA ThreeParts ==
    ASSUME NEW S, NEW a \in Seq(S), NEW b \in Seq(S), NEW c \in Seq(S)
    PROVE  (a \o b) \o c = a \o (b \o c)
  BY ConcatAssociative

LEMMA FourParts ==
    ASSUME NEW S, NEW a \in Seq(S), NEW b \in Seq(S), NEW c \in Seq(S), NEW d \in Seq(S)
    PROVE  InParts(a, b, c, d)
<1>1. (b \o c) \o d = b \o (c \o d) BY ThreeParts
<1>2. (a \o b) \o (c \o d) = a \o (b \o (c \o d))
  <2> DEFINE cd == c \o d
  <2>1. cd \in Seq(S) OBVIOUS
  <2> HIDE DEF cd
  <2>2. (a \o b) \o cd = a \o (b \o cd) BY <2>1, ThreeParts, SMTT(40)
  <2> QED BY <2>2 DEF cd
<1>3. ((a \o b) \o c) \o d = (a \o b) \o (c \o d)
  <2> DEFINE ab == a \o b
  <2>1. ab \in Seq(S) OBVIOUS
  <2> HIDE DEF ab
  <2>2. (ab \o c) \o d = ab \o (c \o d) BY <2>1, ThreeParts, SMTT(40)
  <2> QED BY <2>2 DEF ab
<1> QED BY <1>1, <1>2, <1>3 DEF InParts

FocusWire(wr, v, w, f, end) == wr \o (States(v, f) \o States(w, f) \o end)

OnlyFocusTold(s, wr, z, hd, info) ==
    \E z2 : wr \in Seq(EventType) /\ Leads(s, wr, z2, hd, info) /\ SameButFocus(z, z2)

LEMMA FocusTold ==
    ASSUME NEW s, NEW z, NEW hd, NEW info \in BOOLEAN, NEW wr \in Seq(EventType),
           tracked \subseteq Wins, NEW v, NEW w, NEW f \in hd.activated,
           NEW end \in {Done, <<>>}, Leads(s, wr, z, hd, info)
    PROVE  OnlyFocusTold(s, FocusWire(wr, v, w, f, end), z, hd, info)
<1> DEFINE A == States(v, f)
           B == States(w, f)
           wr1 == wr \o A
           wr2 == wr1 \o B
<1>1. PICK z1 : wr1 \in Seq(EventType) /\ Leads(s, wr1, z1, hd, info) /\ SameButFocus(z, z1)
  BY StatesTold
<1>2. PICK z2 : wr2 \in Seq(EventType) /\ Leads(s, wr2, z2, hd, info) /\ SameButFocus(z1, z2)
  <2> HIDE DEF wr1
  <2> QED BY <1>1, StatesTold
<1>3. wr2 \o end \in Seq(EventType) /\ Leads(s, wr2 \o end, z2, hd, info)
  <2> HIDE DEF wr2
  <2>1. CASE end = Done BY <1>2, <2>1, DoneEmit
  <2>2. CASE end = <<>>
    <3>1. wr2 \o end = wr2 BY <1>2, <2>2
    <3> QED BY <3>1, <1>2
  <2> QED BY <2>1, <2>2
<1>4. /\ A \in Seq(EventType) /\ B \in Seq(EventType) /\ end \in Seq(EventType)
  <2>1. \A u : States(u, f) \in Seq(EventType)
    <3>1. ASSUME NEW u \in Wins PROVE StateOf(u, f) \in EventType
      <4>1. "focused" \in WindowNews /\ "unfocused" \in WindowNews BY DEF WindowNews
      <4> QED BY <4>1, WindowEventsTyped DEF StateOf, OfWindow
    <3> QED BY <3>1 DEF States
  <2>2. Done \in Seq(EventType)
    <3>1. Sign("tops_done") \in EventType BY SignIsEvent DEF IsSign
    <3> QED BY <3>1 DEF Done, Sign
  <2>3. <<>> \in Seq(EventType) OBVIOUS
  <2>4. end \in Seq(EventType) BY <2>2, <2>3
  <2> QED BY <2>1, <2>4
<1> HIDE DEF A, B
<1>5. wr \o (A \o B \o end) = wr2 \o end
  <2>1. InParts(wr, A, B, end) BY <1>4, FourParts
  <2> QED BY <2>1 DEF InParts
<1>6. SameButFocus(z, z2) BY <1>1, <1>2 DEF SameButFocus
<1> QED BY <1>3, <1>5, <1>6 DEF A, B, FocusWire, OnlyFocusTold

\* The focus goes to a window, and the compositor says so of those it keeps up to date.
FocusGoes(w, end) ==
    /\ stage # "done" /\ owed = NothingOwed /\ owed' = NothingOwed /\ w \in shown
    /\ UNCHANGED <<task, has, shown, place, origin, layout, due, tracked, helperVars, stageVars>>
    /\ activated' = w /\ had' = [had EXCEPT !.activated = had.activated \cup {w}]
    /\ wire' = wire \o (States(activated, w) \o States(w, w) \o end)
    /\ unread' \in Seq(WireRequest) /\ BindIsFirst' /\ (Bound' = Bound)

LEMMA FocusGoesHad ==
    ASSUME CosmicInv, NEW w, NEW end, FocusGoes(w, end)
    PROVE  /\ had' \in HadType /\ Grows(had, had') /\ HadInv' /\ w \in had'.activated
           /\ had'.shown = had.shown
<1>1. had \in HadType /\ w \in Wins BY DEF CosmicInv, CosmicTyped, FocusGoes
<1>2. /\ had'.activated = had.activated \cup {w} /\ had'.shown = had.shown
      /\ had'.always = had.always /\ had'.layout = had.layout /\ had'.place = had.place
      /\ had' \in HadType
  BY <1>1 DEF HadType, FocusGoes
<1>3. Grows(had, had') BY <1>2 DEF Grows
<1>4. HadInv' BY <1>2 DEF CosmicInv, HadInv, FocusGoes, Global
<1> QED BY <1>2, <1>3, <1>4

LEMMA FocusGoesKeeps ==
    ASSUME CosmicInv, NEW w, NEW end \in {Done, <<>>}, FocusGoes(w, end),
           Bound \/ end = <<>>
    PROVE  CosmicInv'
<1>1. PICK z : Leads(Here, wire, z, had, has.info) /\ Ending(z) BY EndIsKnown
<1>2. wire \in Seq(EventType) /\ has.info \in BOOLEAN /\ tracked \subseteq Wins
  BY Started DEF CosmicInv, CosmicTyped
<1>3. Grows(had, had') /\ HadInv' /\ had' \in HadType /\ w \in had'.activated
      /\ had'.shown = had.shown
  BY FocusGoesHad
<1>4. Leads(Here, wire, z, had', has.info) BY <1>1, <1>3, StillLeads
<1>5. CASE Bound
  <2>1. PICK z2 : /\ wire' \in Seq(EventType)
                  /\ Leads(Here, wire', z2, had', has.info) /\ SameButFocus(z, z2)
    <3>1. OnlyFocusTold(Here, FocusWire(wire, activated, w, w, end), z, had', has.info)
      <4>1. w \in had'.activated BY <1>3
      <4> QED BY <1>2, <1>4, <4>1, FocusTold
    <3>2. wire' = FocusWire(wire, activated, w, w, end) BY DEF FocusGoes, FocusWire
    <3> QED BY <3>1, <3>2 DEF OnlyFocusTold
  <2>2. /\ OpenIsShown(z) /\ PlacesAreCurrent(z) /\ OriginsAreCurrent(z)
        /\ \A v \in Announced : z.rec[v].listed /\ z.rec[v].open /\ z.rec[v].named
        /\ task.what = "layout" => \A h \in Outs : HeadShows(z.heads[h], layout[h])
    BY <1>1, <1>5, AllAnnounced DEF Ending, FocusGoes
  <2>3. shown \subseteq Wins BY DEF CosmicInv, CosmicTyped
  <2>4. OpenIsShown(z2)' BY <2>1, <2>2 DEF SameButFocus, OpenIsShown, FocusGoes
  <2>5. ShownIsAnnounced(z2)'
    BY <2>1, <2>2, <2>3 DEF SameButFocus, ShownIsAnnounced, Announced, FocusGoes
  <2>6. PlacesAreCurrent(z2)'
    <3>1. shown' = shown /\ tracked' = tracked /\ place' = place BY DEF FocusGoes
    <3>2. \A v \in Wins : z2.rec[v].at = z.rec[v].at BY <2>1 DEF SameButFocus
    <3> QED BY <1>3, <2>2, <3>1, <3>2 DEF PlacesAreCurrent
  <2>7. OriginsAreCurrent(z2)' BY <2>1, <2>2 DEF SameButFocus, OriginsAreCurrent, FocusGoes
  <2>8. HeadsAreCurrent(z2)' BY <2>1, <2>2 DEF SameButFocus, HeadsAreCurrent, FocusGoes
  <2>9. OwedIsCurrent(z2)' BY OwesNothing DEF FocusGoes
  <2>10. NothingIsBound(z2)' BY <1>5 DEF NothingIsBound, FocusGoes
  <2>11. Ending(z2)' BY <2>4, <2>5, <2>6, <2>7, <2>8, <2>9, <2>10 DEF Ending
  <2>12. CosmicTyped' BY <1>3, <2>1 DEF CosmicInv, CosmicTyped, FocusGoes, FocusGoesHad
  <2> QED BY <1>3, <2>1, <2>11, <2>12, CompositorKeeps DEF FocusGoes
<1>6. CASE ~Bound
  <2>1. tracked = {} /\ due = {} BY <1>1, <1>6 DEF Ending, NothingIsBound
  <2>2. wire' = wire
    <3>1. States(activated, w) = <<>> /\ States(w, w) = <<>> BY <2>1 DEF States
    <3>2. <<>> \o <<>> = <<>> OBVIOUS
    <3> QED BY <1>2, <1>6, <3>1, <3>2 DEF FocusGoes
  <2>4. OpenIsShown(z)' BY <1>1 DEF Ending, OpenIsShown, FocusGoes
  <2>5. ShownIsAnnounced(z)' BY <1>6 DEF ShownIsAnnounced, Announced, FocusGoes
  <2>6. PlacesAreCurrent(z)' BY <1>1, <1>3 DEF Ending, PlacesAreCurrent, FocusGoes
  <2>7. OriginsAreCurrent(z)' BY <1>1 DEF Ending, OriginsAreCurrent, FocusGoes
  <2>8. HeadsAreCurrent(z)' BY <1>6 DEF HeadsAreCurrent, FocusGoes
  <2>9. OwedIsCurrent(z)' BY OwesNothing DEF FocusGoes
  <2>10. NothingIsBound(z)' BY <1>1 DEF Ending, NothingIsBound, FocusGoes
  <2>11. Ending(z)' BY <2>4, <2>5, <2>6, <2>7, <2>8, <2>9, <2>10 DEF Ending
  <2>12. CosmicTyped' BY <1>2, <1>3, <2>2 DEF CosmicInv, CosmicTyped, FocusGoes
  <2> QED BY <1>3, <1>4, <2>2, <2>11, <2>12, CompositorKeeps DEF FocusGoes
<1> QED BY <1>5, <1>6

LEMMA ActivateKeeps ==
    ASSUME CosmicInv, Serve, stage # "done", Head(unread).do = "activate"
    PROVE  CosmicInv'
<1> DEFINE w == Head(unread).win
<1>1. /\ unread # <<>> /\ unread' = Tail(unread) /\ owed = NothingOwed
      /\ UNCHANGED <<task, has, shown, place, origin, layout, due, tracked, helperVars, stageVars>>
      /\ \/ /\ w \in shown /\ activated' = w
            /\ had' = [had EXCEPT !.activated = had.activated \cup {w}]
            /\ wire' = wire \o (States(activated, w) \o States(w, w) \o Done) /\ owed' = owed
         \/ UNCHANGED <<activated, owed, wire, had>>
  BY DEF Serve, Emits
<1> HIDE DEF w
<1>2. unread' \in Seq(WireRequest) /\ BindIsFirst' /\ Bound' BY <1>1, TailKeeps
<1>3. Bound BY DEF Bound
<1>4. CASE activated' = w /\ ~UNCHANGED <<activated, owed, wire, had>>
  <2>1. FocusGoes(w, Done) BY <1>1, <1>2, <1>3, <1>4 DEF FocusGoes
  <2>2. Done \in {Done, <<>>} OBVIOUS
  <2> QED BY <1>3, <2>1, <2>2, FocusGoesKeeps
<1>5. CASE UNCHANGED <<activated, owed, wire, had>>
  <2>1. DeskStays BY <1>1, <1>5 DEF DeskStays
  <2>3. PICK z : /\ Leads(Here, wire, z, had, has.info) /\ Ending(z)
    BY EndIsKnown
  <2>5. CosmicTyped' /\ HadInv'
    <3>1. due \subseteq shown /\ tracked \subseteq shown /\ wire \in Seq(EventType)
      BY DEF CosmicInv, CosmicTyped
    <3> QED BY <1>1, <1>2, <1>5, <2>1, <3>1, TypedStays
  <2>6. OpenIsShown(z)' /\ PlacesAreCurrent(z)' /\ OriginsAreCurrent(z)'
    BY <1>1, <1>5, <2>1, <2>3, DeskEnding
  <2>7. ShownIsAnnounced(z)' /\ HeadsAreCurrent(z)'
    BY <1>1, <1>3, <2>1, <2>3, AllAnnounced DEF ShownIsAnnounced, Announced, HeadsAreCurrent, DeskStays
  <2>8. OwedIsCurrent(z)' BY <1>1, <1>5, OwesNothing
  <2>9. NothingIsBound(z)' BY <1>2 DEF NothingIsBound
  <2>10. Ending(z)' BY <2>6, <2>7, <2>8, <2>9 DEF Ending
  <2>11. Leads(Here, wire', z, had', has.info) BY <1>5, <2>3
  <2> QED BY <1>1, <1>2, <1>5, <2>5, <2>10, <2>11, GrowsSelf, CompositorKeeps
<1> QED BY <1>1, <1>4, <1>5

LEMMA ServeKeeps == CosmicInv /\ stage # "done" /\ Serve => CosmicInv'
<1> SUFFICES ASSUME CosmicInv, stage # "done", Serve PROVE CosmicInv' OBVIOUS
<1>1. Head(unread).do \in {"bind", "sync", "handle", "activate"}
  BY TailKeeps DEF Serve, WireRequest
<1> QED BY <1>1, BindKeeps, SyncKeeps, AskedHandleKeeps, ActivateKeeps

LEMMA FrontMovesKeeps ==
    ASSUME CosmicInv, NEW w \in Wins, FrontMoves(w)
    PROVE  CosmicInv'
<1> DEFINE end == IF tracked # {} THEN Done ELSE <<>>
<1>1. unread' \in Seq(WireRequest) /\ BindIsFirst' /\ Bound' = Bound
  BY UnreadKeeps DEF FrontMoves, Changes
<1>2. FocusGoes(w, end) BY <1>1 DEF FocusGoes, FrontMoves, Changes, Emits
<1>3. Bound \/ end = <<>>
  <2>1. ~Bound => tracked = {} BY EndIsKnown DEF Ending, NothingIsBound
  <2> QED BY <2>1
<1>4. end \in {Done, <<>>} OBVIOUS
<1> HIDE DEF end
<1> QED BY <1>2, <1>3, <1>4, FocusGoesKeeps

LEMMA TellHandlesKeeps ==
    ASSUME CosmicInv, stage # "done", TellHandles
    PROVE  CosmicInv'
<1>1. /\ owed = NothingOwed /\ due # {} /\ due' = {} /\ tracked' = tracked \cup due
      /\ owed' = [bursts |-> {HandleEvents(w) : w \in due}, end |-> Done] /\ wire' = wire
      /\ UNCHANGED <<had, unread>> /\ DeskStays
      /\ UNCHANGED <<task, has, helperVars, stageVars>>
  BY DEF TellHandles, Owes, DeskStays
<1>2. unread' \in Seq(WireRequest) /\ BindIsFirst' /\ Bound' = Bound BY <1>1, UnreadKeeps
<1>3. PICK z : /\ Leads(Here, wire, z, had, has.info) /\ Ending(z)
  BY EndIsKnown
<1>4. Bound BY <1>1, <1>3 DEF Ending, NothingIsBound
<1>5. due \subseteq shown /\ tracked \subseteq shown /\ wire \in Seq(EventType)
      /\ (task.what = "layout" => shown = {}) /\ shown \subseteq Wins
  BY DEF CosmicInv, CosmicTyped
<1>6. CosmicTyped' /\ HadInv' BY <1>1, <1>2, <1>5, TypedStays
<1>7. /\ UNCHANGED <<task, has, shown, activated, place, origin, layout, had>>
      /\ tracked \subseteq tracked'
  BY <1>1 DEF DeskStays
<1>8. OpenIsShown(z)' /\ OriginsAreCurrent(z)'
  BY <1>3, <1>7 DEF Ending, OpenIsShown, OriginsAreCurrent
<1>9. PlacesAreCurrent(z)' BY <1>3, <1>7 DEF Ending, PlacesAreCurrent
<1>10. ShownIsAnnounced(z)' /\ HeadsAreCurrent(z)'
  BY <1>1, <1>3, <1>4, <1>7, AllAnnounced DEF ShownIsAnnounced, Announced, HeadsAreCurrent
<1>11. OwedIsCurrent(z)'
  <2>1. task.what # "layout" BY <1>1, <1>5
  <2>2. \A w \in Wins : HandleEvents(w)' = HandleEvents(w)
    BY <1>7 DEF HandleEvents, StateOf
  <2>3. \A b \in owed'.bursts : \E w \in tracked' : b = HandleEvents(w)' BY <1>1, <2>2, <1>7, <1>5
  <2> QED BY <1>1, <1>7, <2>1, <2>3 DEF OwedIsCurrent
<1>12. NothingIsBound(z)' BY <1>2, <1>4 DEF NothingIsBound
<1>13. Ending(z)' BY <1>8, <1>9, <1>10, <1>11, <1>12 DEF Ending
<1>14. Leads(Here, wire', z, had', has.info) BY <1>1, <1>3
<1> QED BY <1>1, <1>2, <1>6, <1>13, <1>14, GrowsSelf, CompositorKeeps

LEMMA ToplevelOpensKeeps ==
    ASSUME CosmicInv, NEW w \in Wins, ToplevelOpens(w)
    PROVE  CosmicInv'
<1>1. /\ stage # "done" /\ owed = NothingOwed /\ owed' = owed /\ unread' = unread
      /\ task.what # "layout" /\ w \notin had.shown /\ shown' = shown \cup {w}
      /\ wire' = wire \o (IF Bound /\ has.info THEN Announces(w) ELSE <<>>)
      /\ had' = [had EXCEPT !.shown = had.shown \cup {w}]
      /\ UNCHANGED <<activated, place, origin, layout, due, tracked>>
      /\ UNCHANGED <<task, has, helperVars, stageVars>>
  BY DEF ToplevelOpens, Changes, Emits
<1>2. unread' \in Seq(WireRequest) /\ BindIsFirst' /\ Bound' = Bound BY <1>1, UnreadKeeps
<1>3. PICK z : /\ Leads(Here, wire, z, had, has.info) /\ Ending(z) /\ z \in Views
  BY EndIsKnown
<1>4. had \in HadType /\ wire \in Seq(EventType) /\ has.info \in BOOLEAN
  BY Started DEF CosmicInv, CosmicTyped
<1>5. /\ had' \in HadType /\ had'.shown = had.shown \cup {w} /\ had'.activated = had.activated
      /\ had'.always = had.always /\ had'.layout = had.layout /\ had'.place = had.place
  BY <1>1, <1>4 DEF HadType
<1>6. Grows(had, had') BY <1>5 DEF Grows
<1>7. HadInv' BY <1>1, <1>5 DEF CosmicInv, HadInv, Global
<1>8. Leads(Here, wire, z, had', has.info) BY <1>3, <1>6, StillLeads
<1>9. \E z2 : /\ wire' \in Seq(EventType) /\ Leads(Here, wire', z2, had', has.info)
              /\ (Bound /\ has.info => z2.rec[w].listed /\ z2.rec[w].open /\ z2.rec[w].named)
              /\ z2.rec[w].at = z.rec[w].at
              /\ SameButRecord(z, z2, w) /\ (~Bound => z2 = z)
  <2>1. CASE Bound /\ has.info
    <3>1. w \in had'.shown BY <1>5
    <3>2. wire' = wire \o Announces(w) BY <1>1, <2>1
    <3>3. \E z2 : /\ wire \o Announces(w) \in Seq(EventType)
                  /\ Leads(Here, wire \o Announces(w), z2, had', has.info)
                  /\ KnownNow(z, z2, w)
      <4>1. MayTell(w, had', has.info) BY <2>1, <3>1 DEF MayTell
      <4> QED BY <1>4, <1>8, <2>1, <4>1, AnnouncesTold
    <3> QED BY <2>1, <3>2, <3>3 DEF KnownNow
  <2>2. CASE ~(Bound /\ has.info)
    <3>1. wire' = wire BY <1>1, <1>4, <2>2
    <3>2. SameButRecord(z, z, w) BY <1>3 DEF SameButRecord
    <3> QED BY <1>4, <1>8, <2>2, <3>1, <3>2
  <2> QED BY <2>1, <2>2
<1>10. PICK z2 : /\ wire' \in Seq(EventType) /\ Leads(Here, wire', z2, had', has.info)
                 /\ (Bound /\ has.info => z2.rec[w].listed /\ z2.rec[w].open /\ z2.rec[w].named)
                 /\ z2.rec[w].at = z.rec[w].at
                 /\ SameButRecord(z, z2, w) /\ (~Bound => z2 = z)
  BY <1>9
<1>11. /\ OpenIsShown(z) /\ PlacesAreCurrent(z) /\ OriginsAreCurrent(z) /\ NothingIsBound(z)
  BY <1>3 DEF Ending
<1>12. CosmicTyped' BY <1>1, <1>2, <1>5, <1>10 DEF CosmicInv, CosmicTyped
<1>13. OpenIsShown(z2)' BY <1>1, <1>10, <1>11 DEF SameButRecord, OpenIsShown
<1>14. ShownIsAnnounced(z2)'
  <2>1. SUFFICES ASSUME Bound, NEW v \in Announced'
                 PROVE  z2.rec[v].listed /\ z2.rec[v].open /\ z2.rec[v].named
    BY <1>2 DEF ShownIsAnnounced, Announced
  <2>0. v \in shown' /\ has.info BY <1>1, <2>1 DEF Announced
  <2>2. CASE v = w BY <1>10, <2>0, <2>1, <2>2
  <2>3. CASE v # w
    <3>1. v \in Announced /\ v \in Wins
      BY <1>1, <2>0, <2>3 DEF Announced, CosmicInv, CosmicTyped
    <3>2. z2.rec[v] = z.rec[v] BY <1>10, <2>3, <3>1 DEF SameButRecord
    <3> QED BY <1>1, <1>3, <2>1, <3>1, <3>2, AllAnnounced
  <2> QED BY <2>2, <2>3
<1>15. PlacesAreCurrent(z2)'
  <2>1. \A v \in Wins : z2.rec[v].at = z.rec[v].at BY <1>10 DEF SameButRecord
  <2>2. \A v \in Wins, o \in Outs : z.rec[v].at[o] # NoWin => v # w
    BY <1>1, <1>11 DEF PlacesAreCurrent
  <2> QED BY <1>1, <1>5, <1>11, <2>1, <2>2 DEF PlacesAreCurrent
<1>16. OriginsAreCurrent(z2)' BY <1>1, <1>10, <1>11 DEF SameButRecord, OriginsAreCurrent
<1>17. HeadsAreCurrent(z2)' BY <1>1 DEF HeadsAreCurrent
<1>18. OwedIsCurrent(z2)' BY <1>1, OwesNothing
<1>19. NothingIsBound(z2)' BY <1>1, <1>2, <1>10, <1>11 DEF NothingIsBound
<1>20. Ending(z2)'
  BY <1>13, <1>14, <1>15, <1>16, <1>17, <1>18, <1>19 DEF Ending
<1> QED BY <1>1, <1>2, <1>6, <1>7, <1>10, <1>12, <1>20, CompositorKeeps

LEMMA ToplevelClosesKeeps ==
    ASSUME CosmicInv, NEW w \in Wins, ToplevelCloses(w)
    PROVE  CosmicInv'
<1>1. /\ stage # "done" /\ owed = NothingOwed /\ owed' = owed /\ unread' = unread
      /\ task.what # "layout" /\ w \in shown /\ shown' = shown \ {w}
      /\ activated' = IF activated = w THEN NoWin ELSE activated
      /\ due' = due \ {w} /\ tracked' = tracked \ {w}
      /\ wire' = wire \o (IF Bound /\ has.info THEN <<Event("closed", w, NoWin, 0)>> ELSE <<>>)
      /\ had' = [had EXCEPT !.activated = had.activated \cup {activated'},
                            !.always = had.always \ {w}]
      /\ UNCHANGED <<place, origin, layout>>
      /\ UNCHANGED <<task, has, helperVars, stageVars>>
  BY DEF ToplevelCloses, Changes, Emits
<1>2. unread' \in Seq(WireRequest) /\ BindIsFirst' /\ Bound' = Bound BY <1>1, UnreadKeeps
<1>3. PICK z : /\ Leads(Here, wire, z, had, has.info) /\ Ending(z) /\ z \in Views
  BY EndIsKnown
<1>4. had \in HadType /\ wire \in Seq(EventType) /\ has.info \in BOOLEAN
      /\ activated \in shown \cup {NoWin} /\ shown \subseteq Wins
  BY Started DEF CosmicInv, CosmicTyped
<1>0. w # NoWin BY CosmicAssumption
<1>5. /\ activated' \in (shown \cup {NoWin}) \ {w}
      /\ had' \in HadType /\ had'.shown = had.shown
      /\ had'.activated = had.activated \cup {activated'}
      /\ had'.always = had.always \ {w} /\ had'.layout = had.layout /\ had'.place = had.place
  <2>1. activated' \in (shown \cup {NoWin}) \ {w} BY <1>0, <1>1, <1>4
  <2>2. activated' \in Wins \cup {NoWin} BY <1>4, <2>1
  <2> QED BY <1>1, <1>4, <2>1, <2>2 DEF HadType
<1>6. Grows(had, had') BY <1>5 DEF Grows
<1>7. HadInv' BY <1>1, <1>5 DEF CosmicInv, HadInv, Global
<1>8. Leads(Here, wire, z, had', has.info) BY <1>3, <1>6, StillLeads
<1>11. /\ OpenIsShown(z) /\ PlacesAreCurrent(z) /\ OriginsAreCurrent(z) /\ NothingIsBound(z)
  BY <1>3 DEF Ending
<1>9. \E z2 : /\ wire' \in Seq(EventType) /\ Leads(Here, wire', z2, had', has.info)
              /\ ~z2.rec[w].open /\ z2.rec[w].at = z.rec[w].at
              /\ SameButRecord(z, z2, w) /\ (~Bound => z2 = z)
  <2>1. CASE Bound /\ has.info
    <3>1. NotOnly(w, had') /\ w \notin had'.always BY <1>5 DEF NotOnly
    <3>2. wire' = wire \o <<Event("closed", w, NoWin, 0)>> BY <1>1, <2>1
    <3> DEFINE e == Event("closed", w, NoWin, 0)
    <3>3. \E z2 : /\ wire \o <<e>> \in Seq(EventType)
                  /\ Leads(Here, wire \o <<e>>, z2, had', has.info)
                  /\ SameButRecord(z, z2, w)
                  /\ ~z2.rec[w].open /\ z2.rec[w].at = z.rec[w].at
      BY <1>4, <1>8, <3>1, ClosedTold
    <3> QED BY <2>1, <3>2, <3>3
  <2>2. CASE ~(Bound /\ has.info)
    <3>1. wire' = wire BY <1>1, <1>4, <2>2
    <3>2. SameButRecord(z, z, w) BY <1>3 DEF SameButRecord
    <3>3. ~z.rec[w].open
      <4>1. RecordIsTrue(z.rec[w], w, z.trips, had, has.info)
        BY <1>3, <1>4, LeadsEnds DEF ViewIsTrue
      <4> QED BY <1>11, <2>2, <4>1 DEF NothingIsBound, NoRecord, RecordIsTrue
    <3> QED BY <1>4, <1>8, <2>2, <3>1, <3>2, <3>3
  <2> QED BY <2>1, <2>2
<1>10. PICK z2 : /\ wire' \in Seq(EventType) /\ Leads(Here, wire', z2, had', has.info)
                 /\ ~z2.rec[w].open /\ z2.rec[w].at = z.rec[w].at
                 /\ SameButRecord(z, z2, w) /\ (~Bound => z2 = z)
  BY <1>9
<1>12. CosmicTyped' BY <1>1, <1>2, <1>5, <1>10 DEF CosmicInv, CosmicTyped
<1>13. OpenIsShown(z2)' BY <1>1, <1>10, <1>11 DEF SameButRecord, OpenIsShown
<1>14. ShownIsAnnounced(z2)'
  <2>1. SUFFICES ASSUME Bound, NEW v \in Announced'
                 PROVE  z2.rec[v].listed /\ z2.rec[v].open /\ z2.rec[v].named
    BY <1>2 DEF ShownIsAnnounced, Announced
  <2>2. v \in Announced /\ v \in Wins /\ v # w BY <1>1, <1>4, <2>1 DEF Announced
  <2>3. z2.rec[v] = z.rec[v] BY <1>10, <2>2 DEF SameButRecord
  <2> QED BY <1>1, <1>3, <2>1, <2>2, <2>3, AllAnnounced
<1>15. PlacesAreCurrent(z2)'
  <2>1. \A v \in Wins : z2.rec[v].at = z.rec[v].at BY <1>10 DEF SameButRecord
  <2> QED BY <1>1, <1>5, <1>11, <2>1 DEF PlacesAreCurrent
<1>16. OriginsAreCurrent(z2)' BY <1>1, <1>10, <1>11 DEF SameButRecord, OriginsAreCurrent
<1>17. HeadsAreCurrent(z2)' BY <1>1 DEF HeadsAreCurrent
<1>18. OwedIsCurrent(z2)' BY <1>1, OwesNothing
<1>19. NothingIsBound(z2)' BY <1>1, <1>2, <1>10, <1>11 DEF NothingIsBound
<1>20. Ending(z2)'
  BY <1>13, <1>14, <1>15, <1>16, <1>17, <1>18, <1>19 DEF Ending
<1> QED BY <1>1, <1>2, <1>6, <1>7, <1>10, <1>12, <1>20, CompositorKeeps

MoveWire(wr, e1, e2) == wr \o (<<e1>> \o <<e2>> \o Done)

\* Two places are set, one after the other.
PlacesSet(z, z2, w, q1, x1, q2, x2) ==
    /\ SameButRecord(z, z2, w)
    /\ z2.rec[w].listed = z.rec[w].listed /\ z2.rec[w].open = z.rec[w].open
    /\ z2.rec[w].named = z.rec[w].named
    /\ \A q \in Outs : z2.rec[w].at[q] = IF q = q2 THEN x2 ELSE IF q = q1 THEN x1
                                         ELSE z.rec[w].at[q]

LEMMA MovesTold ==
    ASSUME NEW s, NEW z, NEW hd, NEW info \in BOOLEAN, NEW wr \in Seq(EventType),
           NEW w \in Wins, NEW q1 \in Outs, NEW q2 \in Outs, NEW x1, NEW x2, NEW e1, NEW e2,
           SaysPlace(e1, w, q1, x1), SaysPlace(e2, w, q2, x2),
           PlaceIsTrue(x1, z.outputs[q1].logical, hd.place[w]),
           PlaceIsTrue(x2, z.outputs[q2].logical, hd.place[w]), Leads(s, wr, z, hd, info)
    PROVE  \E z2 : /\ MoveWire(wr, e1, e2) \in Seq(EventType)
                   /\ Leads(s, MoveWire(wr, e1, e2), z2, hd, info)
                   /\ PlacesSet(z, z2, w, q1, x1, q2, x2)
<1> DEFINE wr1 == Append(wr, e1)
           wr2 == Append(wr1, e2)
<1>1. PICK z1 : wr1 \in Seq(EventType) /\ Leads(s, wr1, z1, hd, info) /\ PlaceSet(z, z1, w, q1, x1)
  BY PlaceTold
<1>2. z1.outputs = z.outputs BY <1>1 DEF PlaceSet, SameButRecord
<1>3. PlaceIsTrue(x2, z1.outputs[q2].logical, hd.place[w]) BY <1>2
<1> HIDE DEF wr1
<1>4. PICK z2 : wr2 \in Seq(EventType) /\ Leads(s, wr2, z2, hd, info) /\ PlaceSet(z1, z2, w, q2, x2)
  BY <1>1, <1>3, PlaceTold
<1> HIDE DEF wr2
<1>5. wr2 \o Done \in Seq(EventType) /\ Leads(s, wr2 \o Done, z2, hd, info)
  BY <1>4, DoneEmit
<1>6. MoveWire(wr, e1, e2) = wr2 \o Done
  <2>1. e1 \in EventType /\ e2 \in EventType BY DEF SaysPlace
  <2>2. Sign("tops_done") \in EventType BY SignIsEvent DEF IsSign
  <2>3. <<e1>> \in Seq(EventType) /\ <<e2>> \in Seq(EventType) /\ Done \in Seq(EventType)
    BY <2>1, <2>2 DEF Done, Sign
  <2>4. InParts(wr, <<e1>>, <<e2>>, Done) BY <2>3, FourParts
  <2>5. wr1 = wr \o <<e1>> BY <2>1, OneMore DEF wr1
  <2>6. wr2 = wr1 \o <<e2>> BY <1>1, <2>1, OneMore DEF wr2
  <2> QED BY <2>4, <2>5, <2>6 DEF InParts, MoveWire
<1>7. PlacesSet(z, z2, w, q1, x1, q2, x2)
  <2>1. z \in Views BY LeadsEnds DEF ViewIsTrue
  <2>2. z.rec[w] \in RecordType /\ z1.rec[w] \in RecordType
    BY <1>1, <2>1 DEF Views, PlaceSet, SameButRecord
  <2>3. /\ z1.rec[w].listed = z.rec[w].listed /\ z1.rec[w].open = z.rec[w].open
        /\ z1.rec[w].named = z.rec[w].named /\ z1.rec[w].at = [z.rec[w].at EXCEPT ![q1] = x1]
    BY <1>1, <2>2 DEF PlaceSet, RecordType
  <2>4. /\ z2.rec[w].listed = z1.rec[w].listed /\ z2.rec[w].open = z1.rec[w].open
        /\ z2.rec[w].named = z1.rec[w].named /\ z2.rec[w].at = [z1.rec[w].at EXCEPT ![q2] = x2]
    BY <1>4, <2>2 DEF PlaceSet, RecordType
  <2>5. z.rec[w].at \in [Outs -> Int \cup {NoWin}] /\ z1.rec[w].at \in [Outs -> Int \cup {NoWin}]
    BY <2>2 DEF RecordType
  <2>6. \A q \in Outs : z2.rec[w].at[q] = IF q = q2 THEN x2 ELSE IF q = q1 THEN x1
                                          ELSE z.rec[w].at[q]
    BY <2>3, <2>4, <2>5
  <2>7. SameButRecord(z, z2, w) BY <1>1, <1>4 DEF PlaceSet, SameButRecord
  <2> QED BY <2>3, <2>4, <2>6, <2>7 DEF PlacesSet
<1> QED BY <1>5, <1>6, <1>7

LEMMA ToplevelMovesKeeps ==
    ASSUME CosmicInv, NEW w \in Wins, NEW o \in Outs, NEW x \in Spots, ToplevelMoves(w, o, x)
    PROVE  CosmicInv'
<1> DEFINE q == place[w].out
           e1 == Event("geometry", w, o, x)
           e2 == Event("output_leave", w, q, 0)
<1>1. /\ stage # "done" /\ owed = NothingOwed /\ owed' = owed /\ unread' = unread
      /\ task.what # "layout" /\ w \in shown /\ q # o
      /\ place' = [place EXCEPT ![w] = [out |-> o, x |-> x]]
      /\ IF w \in tracked THEN \/ wire' = MoveWire(wire, e1, e2)
                               \/ wire' = MoveWire(wire, e2, e1)
         ELSE wire' = wire
      /\ had' = [had EXCEPT !.place =
                   [had.place EXCEPT ![w] = had.place[w] \cup {Global(w, place', origin)}]]
      /\ UNCHANGED <<shown, activated, origin, layout, due, tracked>>
      /\ UNCHANGED <<task, has, helperVars, stageVars>>
  BY DEF ToplevelMoves, Changes, Emits, MoveWire
<1>2. unread' \in Seq(WireRequest) /\ BindIsFirst' /\ Bound' = Bound BY <1>1, UnreadKeeps
<1>3. PICK z : /\ Leads(Here, wire, z, had, has.info) /\ Ending(z) /\ z \in Views
  BY EndIsKnown
<1>4. /\ had \in HadType /\ wire \in Seq(EventType) /\ has.info \in BOOLEAN
      /\ place \in [Wins -> [out : Outs, x : Int]] /\ origin \in [Outs -> Int]
  BY Started DEF CosmicInv, CosmicTyped
<1>5. x \in Int /\ q \in Outs BY <1>4, CosmicAssumption
<1>6. /\ place' \in [Wins -> [out : Outs, x : Int]] /\ place'[w] = [out |-> o, x |-> x]
      /\ \A v \in Wins : v # w => place'[v] = place[v]
  BY <1>1, <1>4, <1>5
<1> DEFINE g == origin[o] + x
<1>7. Global(w, place', origin) = g /\ g \in Int BY <1>4, <1>5, <1>6 DEF Global
<1>8. /\ had' \in HadType /\ had'.shown = had.shown /\ had'.activated = had.activated
      /\ had'.always = had.always /\ had'.layout = had.layout
      /\ had'.place[w] = had.place[w] \cup {g}
      /\ \A v \in Wins : v # w => had'.place[v] = had.place[v]
  <2> HIDE DEF g
  <2>1. had' = [had EXCEPT !.place = [had.place EXCEPT ![w] = had.place[w] \cup {g}]]
    BY <1>1, <1>7
  <2>2. had.place \in [Wins -> SUBSET Int] BY <1>4 DEF HadType
  <2>3. [had.place EXCEPT ![w] = had.place[w] \cup {g}] \in [Wins -> SUBSET Int]
    BY <1>7, <2>2
  <2>4. had'.place = [had.place EXCEPT ![w] = had.place[w] \cup {g}] BY <1>4, <2>1 DEF HadType
  <2>5. /\ had' \in HadType /\ had'.shown = had.shown /\ had'.activated = had.activated
        /\ had'.always = had.always /\ had'.layout = had.layout
    BY <1>4, <2>1, <2>3 DEF HadType
  <2> QED BY <2>2, <2>4, <2>5
<1>9. Grows(had, had') BY <1>8 DEF Grows
<1>10. HadInv'
  <2>1. \A v \in Wins : Global(v, place, origin) \in had.place[v] BY DEF CosmicInv, HadInv
  <2>2. \A v \in Wins : v # w => Global(v, place', origin) = Global(v, place, origin)
    BY <1>6 DEF Global
  <2>3. \A v \in Wins : Global(v, place', origin) \in had'.place[v]
    BY <1>7, <1>8, <2>1, <2>2
  <2>4. origin' = origin BY <1>1
  <2>5. \A v \in Wins : Global(v, place', origin') \in had'.place[v] BY <2>3, <2>4
  <2> QED BY <1>1, <1>8, <2>5 DEF CosmicInv, HadInv
<1>11. Leads(Here, wire, z, had', has.info) BY <1>3, <1>9, StillLeads
<1>12. /\ OpenIsShown(z) /\ PlacesAreCurrent(z) /\ OriginsAreCurrent(z) /\ NothingIsBound(z)
  BY <1>3 DEF Ending
<1>13. \E z2 : /\ wire' \in Seq(EventType) /\ Leads(Here, wire', z2, had', has.info)
               /\ SameButRecord(z, z2, w) /\ z2.rec[w].listed = z.rec[w].listed
               /\ z2.rec[w].open = z.rec[w].open /\ z2.rec[w].named = z.rec[w].named
               /\ \A p \in Outs : z2.rec[w].at[p] # NoWin =>
                                      p = o /\ z2.rec[w].at[p] = x /\ w \in tracked
               /\ (w \notin tracked => z2 = z)
  <2>1. CASE w \notin tracked
    <3>1. SameButRecord(z, z, w) BY <1>3 DEF SameButRecord
    <3>2. \A p \in Outs : z.rec[w].at[p] = NoWin BY <1>1, <1>12, <2>1 DEF PlacesAreCurrent
    <3> QED BY <1>1, <1>4, <1>11, <2>1, <3>1, <3>2
  <2>2. CASE w \in tracked
    <3>1. SaysPlace(e1, w, o, x) /\ SaysPlace(e2, w, q, NoWin) BY <1>5, PlaceEvents
    <3>2. PlaceIsTrue(x, z.outputs[o].logical, had'.place[w])
      <4>1. z.outputs[o].logical # NoWin => z.outputs[o].logical = origin[o]
        BY <1>12 DEF OriginsAreCurrent
      <4> QED BY <1>8, <4>1 DEF PlaceIsTrue
    <3>3. PlaceIsTrue(NoWin, z.outputs[q].logical, had'.place[w]) BY DEF PlaceIsTrue
    <3>4. \A p \in Outs : p # q => z.rec[w].at[p] = NoWin BY <1>12 DEF PlacesAreCurrent
    <3>5. CASE wire' = MoveWire(wire, e1, e2)
      <4> HIDE DEF e1, e2, q
      <4>1. PICK z2 : /\ MoveWire(wire, e1, e2) \in Seq(EventType)
                      /\ Leads(Here, MoveWire(wire, e1, e2), z2, had', has.info)
                      /\ PlacesSet(z, z2, w, o, x, q, NoWin)
        BY <1>4, <1>5, <1>11, <3>1, <3>2, <3>3, MovesTold
      <4> QED BY <1>1, <2>2, <3>4, <3>5, <4>1 DEF PlacesSet
    <3>6. CASE wire' = MoveWire(wire, e2, e1)
      <4> HIDE DEF e1, e2, q
      <4>1. PICK z2 : /\ MoveWire(wire, e2, e1) \in Seq(EventType)
                      /\ Leads(Here, MoveWire(wire, e2, e1), z2, had', has.info)
                      /\ PlacesSet(z, z2, w, q, NoWin, o, x)
        BY <1>4, <1>5, <1>11, <3>1, <3>2, <3>3, MovesTold
      <4> QED BY <1>1, <2>2, <3>4, <3>6, <4>1 DEF PlacesSet
    <3> QED BY <1>1, <2>2, <3>5, <3>6
  <2> QED BY <2>1, <2>2
<1> HIDE DEF q, e1, e2, g
<1>14. PICK z2 : /\ wire' \in Seq(EventType) /\ Leads(Here, wire', z2, had', has.info)
                 /\ SameButRecord(z, z2, w) /\ z2.rec[w].listed = z.rec[w].listed
                 /\ z2.rec[w].open = z.rec[w].open /\ z2.rec[w].named = z.rec[w].named
                 /\ \A p \in Outs : z2.rec[w].at[p] # NoWin =>
                                        p = o /\ z2.rec[w].at[p] = x /\ w \in tracked
                 /\ (w \notin tracked => z2 = z)
  BY <1>13
<1>15. CosmicTyped' BY <1>1, <1>2, <1>6, <1>8, <1>14 DEF CosmicInv, CosmicTyped
<1>16. OpenIsShown(z2)' BY <1>1, <1>12, <1>14 DEF SameButRecord, OpenIsShown
<1>17. ShownIsAnnounced(z2)'
  <2>1. SUFFICES ASSUME Bound, NEW v \in Announced
                 PROVE  z2.rec[v].listed /\ z2.rec[v].open /\ z2.rec[v].named
    BY <1>1, <1>2 DEF ShownIsAnnounced, Announced
  <2>2. v \in Wins BY <2>1 DEF Announced, CosmicInv, CosmicTyped
  <2>3. z.rec[v].listed /\ z.rec[v].open /\ z.rec[v].named BY <1>1, <1>3, <2>1, AllAnnounced
  <2> QED BY <1>14, <2>2, <2>3 DEF SameButRecord
<1>18. PlacesAreCurrent(z2)'
  <2>1. SUFFICES ASSUME NEW v \in Wins, NEW p \in Outs, z2.rec[v].at[p] # NoWin
                 PROVE  /\ v \in had.shown /\ (v \in shown => v \in tracked)
                        /\ place'[v].out = p /\ place'[v].x = z2.rec[v].at[p]
    BY <1>1, <1>8 DEF PlacesAreCurrent
  <2>2. CASE v = w
    <3>1. w \in had.shown BY <1>1 DEF CosmicInv, HadInv
    <3>2. p = o /\ z2.rec[w].at[p] = x /\ w \in tracked BY <1>14, <2>1, <2>2
    <3> QED BY <1>6, <2>2, <3>1, <3>2
  <2>3. CASE v # w
    <3>1. z2.rec[v] = z.rec[v] BY <1>14, <2>3 DEF SameButRecord
    <3> QED BY <1>6, <1>12, <2>1, <2>3, <3>1 DEF PlacesAreCurrent
  <2> QED BY <2>2, <2>3
<1>19. OriginsAreCurrent(z2)' BY <1>1, <1>12, <1>14 DEF SameButRecord, OriginsAreCurrent
<1>20. HeadsAreCurrent(z2)' BY <1>1 DEF HeadsAreCurrent
<1>21. OwedIsCurrent(z2)' BY <1>1, OwesNothing
<1>22. NothingIsBound(z2)' BY <1>1, <1>2, <1>12, <1>14 DEF NothingIsBound
<1>23. Ending(z2)'
  BY <1>16, <1>17, <1>18, <1>19, <1>20, <1>21, <1>22 DEF Ending
<1> QED BY <1>1, <1>2, <1>9, <1>10, <1>14, <1>15, <1>23, CompositorKeeps

LEMMA OutputMovesKeeps ==
    ASSUME CosmicInv, NEW o \in Outs, NEW x \in Spots, OutputMoves(o, x)
    PROVE  CosmicInv'
<1>1. /\ stage # "done" /\ owed = NothingOwed /\ owed' = owed /\ unread' = unread
      /\ task.what # "layout" /\ origin' = [origin EXCEPT ![o] = x]
      /\ wire' = wire \o (IF Bound THEN Positions(o, x) ELSE <<>>)
      /\ had' = [had EXCEPT !.place =
                   [w \in Wins |-> had.place[w] \cup {Global(w, place, origin')}]]
      /\ UNCHANGED <<shown, activated, place, layout, due, tracked>>
      /\ UNCHANGED <<task, has, helperVars, stageVars>>
  BY DEF OutputMoves, Changes, Emits
<1>2. unread' \in Seq(WireRequest) /\ BindIsFirst' /\ Bound' = Bound BY <1>1, UnreadKeeps
<1>3. PICK z : /\ Leads(Here, wire, z, had, has.info) /\ Ending(z) /\ z \in Views
  BY EndIsKnown
<1>4. /\ had \in HadType /\ wire \in Seq(EventType) /\ has.info \in BOOLEAN
      /\ place \in [Wins -> [out : Outs, x : Int]] /\ origin \in [Outs -> Int]
  BY Started DEF CosmicInv, CosmicTyped
<1>5. x \in Int BY CosmicAssumption
<1>6. /\ origin' \in [Outs -> Int] /\ origin'[o] = x
      /\ \A p \in Outs : p # o => origin'[p] = origin[p]
  BY <1>1, <1>4, <1>5
<1>7. \A w \in Wins : Global(w, place, origin') \in Int BY <1>4, <1>6 DEF Global
<1>8. /\ had' \in HadType /\ had'.shown = had.shown /\ had'.activated = had.activated
      /\ had'.always = had.always /\ had'.layout = had.layout
      /\ \A w \in Wins : had'.place[w] = had.place[w] \cup {Global(w, place, origin')}
  <2> DEFINE pl == [w \in Wins |-> had.place[w] \cup {Global(w, place, origin')}]
  <2>1. had.place \in [Wins -> SUBSET Int] BY <1>4 DEF HadType
  <2>2. pl \in [Wins -> SUBSET Int] BY <1>7, <2>1
  <2>3. \A w \in Wins : pl[w] = had.place[w] \cup {Global(w, place, origin')} OBVIOUS
  <2>4. had' = [had EXCEPT !.place = pl] BY <1>1
  <2> HIDE DEF pl
  <2>5. /\ had' \in HadType /\ had'.shown = had.shown /\ had'.activated = had.activated
        /\ had'.always = had.always /\ had'.layout = had.layout /\ had'.place = pl
    BY <1>4, <2>2, <2>4 DEF HadType
  <2> QED BY <2>3, <2>5
<1>9. Grows(had, had') BY <1>8 DEF Grows
<1>10. HadInv'
  <2>1. \A v \in Wins : Global(v, place, origin') \in had'.place[v] BY <1>8
  <2>2. place' = place BY <1>1
  <2>3. \A v \in Wins : Global(v, place', origin') \in had'.place[v] BY <2>1, <2>2
  <2> QED BY <1>1, <1>8, <2>3 DEF CosmicInv, HadInv
<1>11. Leads(Here, wire, z, had', has.info) BY <1>3, <1>9, StillLeads
<1>12. /\ OpenIsShown(z) /\ PlacesAreCurrent(z) /\ OriginsAreCurrent(z) /\ NothingIsBound(z)
  BY <1>3 DEF Ending
<1>13. \E z2 : /\ wire' \in Seq(EventType) /\ Leads(Here, wire', z2, had', has.info)
               /\ SameButOutput(z, z2, o)
               /\ (z2.outputs[o].logical # NoWin => has.xdg /\ z2.outputs[o].logical = x)
               /\ (~Bound => z2 = z)
  <2>1. CASE Bound
    <3>1. wire' = wire \o Positions(o, x) BY <1>1, <2>1
    <3>2. OriginFits(z, o, x, had')
      <4>1. ASSUME NEW w \in Wins, z.rec[w].at[o] # NoWin
            PROVE  x + z.rec[w].at[o] \in had'.place[w]
        <5>1. place[w].out = o /\ place[w].x = z.rec[w].at[o]
          BY <1>12, <4>1 DEF PlacesAreCurrent
        <5>2. Global(w, place, origin') = x + z.rec[w].at[o] BY <1>6, <5>1 DEF Global
        <5> QED BY <1>8, <5>2
      <4> QED BY <4>1 DEF OriginFits, PlaceIsTrue
    <3>3. \E z2 : /\ wire \o Positions(o, x) \in Seq(EventType)
                  /\ Leads(Here, wire \o Positions(o, x), z2, had', has.info)
                  /\ SameButOutput(z, z2, o)
                  /\ z2.outputs[o].logical = IF has.xdg THEN x ELSE z.outputs[o].logical
      BY <1>4, <1>5, <1>11, <3>2, PositionsTold
    <3>4. ~has.xdg => z.outputs[o].logical = NoWin BY <1>12 DEF OriginsAreCurrent
    <3> QED BY <2>1, <3>1, <3>3, <3>4
  <2>2. CASE ~Bound
    <3>1. wire' = wire BY <1>1, <1>4, <2>2
    <3>2. SameButOutput(z, z, o) BY <1>3 DEF SameButOutput
    <3>3. z.outputs[o].logical = NoWin BY <1>12, <2>2 DEF NothingIsBound
    <3> QED BY <1>4, <1>11, <2>2, <3>1, <3>2, <3>3
  <2> QED BY <2>1, <2>2
<1>14. PICK z2 : /\ wire' \in Seq(EventType) /\ Leads(Here, wire', z2, had', has.info)
                 /\ SameButOutput(z, z2, o)
                 /\ (z2.outputs[o].logical # NoWin => has.xdg /\ z2.outputs[o].logical = x)
                 /\ (~Bound => z2 = z)
  BY <1>13
<1>15. CosmicTyped' BY <1>1, <1>2, <1>6, <1>8, <1>14 DEF CosmicInv, CosmicTyped
<1>16. z2.rec = z.rec /\ z2.heads = z.heads BY <1>14 DEF SameButOutput
<1>17. OpenIsShown(z2)' BY <1>1, <1>12, <1>16 DEF OpenIsShown
<1>18. ShownIsAnnounced(z2)'
  BY <1>1, <1>2, <1>3, <1>16, AllAnnounced DEF ShownIsAnnounced, Announced
<1>19. PlacesAreCurrent(z2)'
  <2>1. had'.shown = had.shown /\ tracked' = tracked /\ shown' = shown /\ place' = place
    BY <1>1, <1>8
  <2> QED BY <1>12, <1>16, <2>1 DEF PlacesAreCurrent
<1>20. OriginsAreCurrent(z2)'
  <2>1. has' = has BY <1>1
  <2>2. ASSUME NEW p \in Outs, z2.outputs[p].logical # NoWin
        PROVE  has.xdg /\ z2.outputs[p].logical = origin'[p]
    <3>1. CASE p = o BY <1>6, <1>14, <2>2, <3>1
    <3>2. CASE p # o
      <4>1. z2.outputs[p] = z.outputs[p] BY <1>14, <3>2 DEF SameButOutput
      <4> QED BY <1>6, <1>12, <2>2, <3>2, <4>1 DEF OriginsAreCurrent
    <3> QED BY <3>1, <3>2
  <2> QED BY <2>1, <2>2 DEF OriginsAreCurrent
<1>21. HeadsAreCurrent(z2)' BY <1>1 DEF HeadsAreCurrent
<1>22. OwedIsCurrent(z2)' BY <1>1, OwesNothing
<1>23. NothingIsBound(z2)' BY <1>1, <1>2, <1>12, <1>14 DEF NothingIsBound
<1>24. Ending(z2)'
  BY <1>17, <1>18, <1>19, <1>20, <1>21, <1>22, <1>23 DEF Ending
<1> QED BY <1>1, <1>2, <1>9, <1>10, <1>14, <1>15, <1>24, CompositorKeeps

LEMMA LayoutChangesKeeps ==
    ASSUME CosmicInv, NEW l \in Layouts, LayoutChanges(l)
    PROVE  CosmicInv'
<1> DEFINE Rearranged == {o \in Outs : l[o] # layout[o] /\ (l[o].there \/ layout[o].there)}
           HeadChange(h) ==
             IF layout[h].there /\ ~l[h].there THEN <<Event("head_over", NoWin, h, 0)>>
             ELSE IF l[h].there /\ ~layout[h].there
                  THEN NewHead(h, l) ELSE HeadEvents(h, l)
<1>1. /\ stage # "done" /\ owed = NothingOwed /\ unread' = unread
      /\ task.what = "layout" /\ layout' = l /\ wire' = wire
      /\ IF Bound THEN owed' = [bursts |-> {HeadChange(h) : h \in Rearranged}, end |-> LayoutDone]
         ELSE owed' = owed
      /\ had' = [had EXCEPT !.layout = had.layout \cup {l}]
      /\ UNCHANGED <<shown, activated, place, origin, due, tracked>>
      /\ UNCHANGED <<task, has, helperVars, stageVars>>
  BY DEF LayoutChanges, Changes, Owes
<1>2. unread' \in Seq(WireRequest) /\ BindIsFirst' /\ Bound' = Bound BY <1>1, UnreadKeeps
<1>3. PICK z : /\ Leads(Here, wire, z, had, has.info) /\ Ending(z) /\ z \in Views
  BY EndIsKnown
<1>4. /\ had \in HadType /\ wire \in Seq(EventType) /\ layout \in [Outs -> MonitorType]
      /\ l \in [Outs -> MonitorType]
  BY <1>1, CosmicAssumption DEF CosmicInv, CosmicTyped, MonitorType
<1>5. /\ had' \in HadType /\ had'.shown = had.shown /\ had'.activated = had.activated
      /\ had'.always = had.always /\ had'.layout = had.layout \cup {l}
      /\ had'.place = had.place
  BY <1>1, <1>4 DEF HadType
<1>6. Grows(had, had') BY <1>5 DEF Grows
<1>7. HadInv' BY <1>1, <1>5 DEF CosmicInv, HadInv, Global
<1>8. Leads(Here, wire', z, had', has.info) BY <1>1, <1>3, <1>6, StillLeads
<1>9. CosmicTyped' BY <1>1, <1>2, <1>4, <1>5 DEF CosmicInv, CosmicTyped
<1>10. /\ OpenIsShown(z) /\ PlacesAreCurrent(z) /\ OriginsAreCurrent(z) /\ NothingIsBound(z)
  BY <1>3 DEF Ending
<1>11. OpenIsShown(z)' /\ OriginsAreCurrent(z)'
  BY <1>1, <1>10 DEF OpenIsShown, OriginsAreCurrent
<1>12. PlacesAreCurrent(z)' BY <1>1, <1>5, <1>10 DEF PlacesAreCurrent
<1>13. ShownIsAnnounced(z)'
  <2>1. shown = {} BY <1>1 DEF CosmicInv, CosmicTyped
  <2> QED BY <1>1, <2>1 DEF ShownIsAnnounced, Announced
<1>14. ASSUME Bound, NEW h \in Outs PROVE HeadShows(z.heads[h], layout[h])
  BY <1>1, <1>3, <1>14, AllAnnounced
<1>15. ASSUME Bound, NEW h \in Rearranged PROVE HeadBurst(HeadChange(h), h, z.heads[h], l)
  <2>1. HeadShows(z.heads[h], layout[h]) BY <1>14, <1>15
  <2>2. CASE layout[h].there /\ ~l[h].there BY <2>2 DEF HeadBurst
  <2>3. CASE l[h].there /\ ~layout[h].there BY <2>3 DEF HeadBurst
  <2>4. CASE layout[h].there /\ l[h].there
    <3>1. z.heads[h].known /\ ~z.heads[h].over BY <2>1, <2>4 DEF HeadShows
    <3>2. HeadChange(h) = HeadEvents(h, l) BY <2>4
    <3> HIDE DEF HeadChange
    <3> QED BY <2>4, <3>1, <3>2 DEF HeadBurst
  <2> QED BY <2>2, <2>3, <2>4
<1> HIDE DEF HeadChange
<1>16. HeadsAreCurrent(z)'
  <2>1. SUFFICES ASSUME Bound, NEW h \in Outs
                 PROVE  \/ HeadShows(z.heads[h], l[h])
                        \/ \E b \in owed'.bursts : HeadBurst(b, h, z.heads[h], l)
    BY <1>1, <1>2 DEF HeadsAreCurrent
  <2>2. HeadShows(z.heads[h], layout[h]) BY <1>14, <2>1
  <2>3. CASE h \in Rearranged
    <3>1. HeadChange(h) \in owed'.bursts BY <1>1, <2>1, <2>3
    <3> QED BY <1>15, <2>1, <2>3, <3>1
  <2>4. CASE h \notin Rearranged
    <3>1. CASE l[h] = layout[h] BY <2>2, <3>1
    <3>2. CASE ~l[h].there /\ ~layout[h].there BY <1>4, <2>2, <3>2 DEF HeadShows, MonitorType
    <3> QED BY <2>4, <3>1, <3>2
  <2> QED BY <2>3, <2>4
<1>17. OwedIsCurrent(z)'
  <2>1. CASE Bound
    <3>1. \A b \in owed'.bursts : \E h \in Outs : HeadBurst(b, h, z.heads[h], l)
      BY <1>1, <1>15, <2>1
    <3> QED BY <1>1, <2>1, <3>1 DEF OwedIsCurrent, LayoutDone
  <2>2. CASE ~Bound BY <1>1, <2>2, OwesNothing
  <2> QED BY <2>1, <2>2
<1>18. NothingIsBound(z)' BY <1>1, <1>2, <1>10 DEF NothingIsBound
<1>19. Ending(z)' BY <1>11, <1>12, <1>13, <1>16, <1>17, <1>18 DEF Ending
<1> QED BY <1>1, <1>2, <1>6, <1>7, <1>8, <1>9, <1>19, CompositorKeeps

\* A burst is about one window, or one head.

LEMMA AnnouncesOne ==
    ASSUME NEW v, NEW w, Announces(v) = Announces(w)
    PROVE  v = w
<1>1. Announces(v)[1] = Event("toplevel", v, NoWin, 0) BY DEF Announces
<1>2. Announces(w)[1] = Event("toplevel", w, NoWin, 0) BY DEF Announces
<1>3. Event("toplevel", v, NoWin, 0).win = v /\ Event("toplevel", w, NoWin, 0).win = w
  BY DEF Event
<1> QED BY <1>1, <1>2, <1>3

LEMMA FirstOf ==
    ASSUME NEW S, NEW a \in S, NEW t \in Seq(S)
    PROVE  (<<a>> \o t)[1] = a
  OBVIOUS

LEMMA HeadEventsOne ==
    ASSUME NEW h \in Outs, NEW l \in [Outs -> MonitorType]
    PROVE  /\ HeadEvents(h, l) \in Seq(EventType) /\ HeadEvents(h, l)[1].out = h
           /\ NewHead(h, l)[1].out = h
<1>1. \A k \in HeadNews, x \in Int : OfOutput(Event(k, NoWin, h, x), h)
  BY HeadEventsTyped
<1>2. /\ {"head", "enabled", "disabled", "mode", "position"} \subseteq HeadNews /\ 0 \in Int
      /\ l[h].mode \in Int /\ l[h].x \in Int
  BY DEF HeadNews, MonitorType
<1> DEFINE e0 == Event(IF l[h].on THEN "enabled" ELSE "disabled", NoWin, h, 0)
           e1 == Event("head", NoWin, h, 0)
           t == IF l[h].on THEN <<Event("mode", NoWin, h, l[h].mode),
                                  Event("position", NoWin, h, l[h].x)>> ELSE <<>>
<1>3. /\ OfOutput(e0, h) /\ OfOutput(e1, h)
      /\ OfOutput(Event("mode", NoWin, h, l[h].mode), h)
      /\ OfOutput(Event("position", NoWin, h, l[h].x), h)
  BY <1>1, <1>2
<1>4. t \in Seq(EventType) BY <1>3 DEF OfOutput
<1>5. HeadEvents(h, l) = <<e0>> \o t BY DEF HeadEvents
<1>6. NewHead(h, l) = <<e1>> \o HeadEvents(h, l) BY DEF NewHead
<1> HIDE DEF e0, e1, t
<1>7. HeadEvents(h, l)[1] = e0 BY <1>3, <1>4, <1>5, FirstOf DEF OfOutput
<1>8. HeadEvents(h, l) \in Seq(EventType) BY <1>3, <1>4, <1>5 DEF OfOutput
<1>9. NewHead(h, l)[1] = e1 BY <1>3, <1>6, <1>8, FirstOf DEF OfOutput
<1> QED BY <1>3, <1>7, <1>8, <1>9 DEF OfOutput

LEMMA HeadBurstOne ==
    ASSUME NEW h \in Outs, NEW l \in [Outs -> MonitorType], NEW b, NEW s, HeadBurst(b, h, s, l)
    PROVE  b[1].out = h
<1>1. HeadEvents(h, l)[1].out = h /\ NewHead(h, l)[1].out = h BY HeadEventsOne
<1>2. <<Event("head_over", NoWin, h, 0)>>[1].out = h BY DEF Event
<1> QED BY <1>1, <1>2 DEF HeadBurst

\* The compositor sends one of the bursts it owes, or what ends them.
SendsBurst(b) ==
    /\ stage # "done" /\ b \in owed.bursts /\ wire' = wire \o b
    /\ owed' = [owed EXCEPT !.bursts = owed.bursts \ {b}]
    /\ UNCHANGED <<task, has, cosmicDeskVars, unread, helperVars, stageVars>>

LEMMA BurstOwed ==
    ASSUME NEW z, OwedIsCurrent(z), NEW b, SendsBurst(b)
    PROVE  /\ owed'.bursts = owed.bursts \ {b} /\ owed'.end = owed.end
           /\ owed' = [bursts |-> owed'.bursts, end |-> owed'.end]
<1>1. owed = [bursts |-> owed.bursts, end |-> owed.end] BY DEF OwedIsCurrent
<1> DEFINE B == owed.bursts
           n == owed.end
<1>2. owed = [bursts |-> B, end |-> n] BY <1>1
<1>3. owed' = [owed EXCEPT !.bursts = B \ {b}] BY DEF SendsBurst
<1> HIDE DEF B, n
<1>4. owed' = [bursts |-> B \ {b}, end |-> n] BY <1>2, <1>3
<1> QED BY <1>4 DEF B, n

LEMMA BurstBound ==
    ASSUME NEW z, Ending(z), NEW b, SendsBurst(b)
    PROVE  Bound
<1>1. owed # NothingOwed BY DEF SendsBurst, NothingOwed
<1> QED BY <1>1 DEF Ending, NothingIsBound

\* What a burst leaves is owed as before, and the desktop is as it was.
LEMMA BurstKeeps ==
    ASSUME CosmicInv, NEW b, SendsBurst(b), NEW z2, wire' \in Seq(EventType),
           Leads(Here, wire', z2, had, has.info),
           OpenIsShown(z2), PlacesAreCurrent(z2), OriginsAreCurrent(z2), ShownIsAnnounced(z2)',
           HeadsAreCurrent(z2)', OwedIsCurrent(z2)', Bound
    PROVE  CosmicInv'
<1>1. unread' = unread /\ UNCHANGED <<task, has, helperVars, stageVars>> /\ stage # "done"
      /\ DeskStays /\ UNCHANGED <<due, tracked, had>>
  BY DEF SendsBurst, DeskStays, cosmicDeskVars
<1>2. unread' \in Seq(WireRequest) /\ BindIsFirst' /\ Bound' = Bound BY <1>1, UnreadKeeps
<1>3. CosmicTyped' /\ HadInv'
  <2>1. due \subseteq shown /\ tracked \subseteq shown BY DEF CosmicInv, CosmicTyped
  <2> QED BY <1>1, <1>2, <2>1, TypedStays
<1>4. OpenIsShown(z2)' /\ PlacesAreCurrent(z2)' /\ OriginsAreCurrent(z2)'
  BY <1>1 DEF DeskStays, OpenIsShown, PlacesAreCurrent, OriginsAreCurrent
<1>5. NothingIsBound(z2)' BY <1>2 DEF NothingIsBound
<1>6. Ending(z2)' BY <1>4, <1>5 DEF Ending
<1>7. Leads(Here, wire', z2, had', has.info) /\ Grows(had, had') BY <1>1, GrowsSelf
<1> QED BY <1>1, <1>2, <1>3, <1>6, <1>7, CompositorKeeps

\* The bursts but one, of windows and outputs.
LEMMA OtherBursts ==
    ASSUME CosmicInv, NEW z, Ending(z), NEW b, SendsBurst(b), task.what # "layout", NEW z2
    PROVE  OwedIsCurrent(z2)' /\ HeadsAreCurrent(z2)'
<1>1. /\ owed'.bursts = owed.bursts \ {b} /\ owed'.end = owed.end
      /\ owed' = [bursts |-> owed'.bursts, end |-> owed'.end]
  BY BurstOwed DEF Ending
<1>2. UNCHANGED <<task, has, shown, activated, place, origin, layout, tracked>>
  BY DEF SendsBurst, cosmicDeskVars
<1>3. \A o \in Outs : NewOutput(o)' = NewOutput(o) BY <1>2 DEF NewOutput, Positions
<1>4. \A w \in Wins : HandleEvents(w)' = HandleEvents(w) BY <1>2 DEF HandleEvents, StateOf
<1>5. tracked \subseteq Wins BY DEF CosmicInv, CosmicTyped
<1>6. \A c \in owed'.bursts : \/ \E o \in Outs : c = NewOutput(o)'
                              \/ \E w \in Announced' : c = Announces(w)
                              \/ \E w \in tracked' : c = HandleEvents(w)'
  BY <1>1, <1>2, <1>3, <1>4, <1>5 DEF Ending, OwedIsCurrent, Announced
<1>7. owed'.end \in {<<>>, Done} BY <1>1 DEF Ending, OwedIsCurrent
<1>8. OwedIsCurrent(z2)' BY <1>1, <1>2, <1>6, <1>7 DEF OwedIsCurrent
<1>9. HeadsAreCurrent(z2)' BY <1>2 DEF HeadsAreCurrent
<1> QED BY <1>8, <1>9

LEMMA SendsNewOutput ==
    ASSUME CosmicInv, NEW z, Leads(Here, wire, z, had, has.info), Ending(z),
           task.what # "layout", NEW o \in Outs, SendsBurst(NewOutput(o)),
           \A w \in Announced : NewOutput(o) # Announces(w)
    PROVE  CosmicInv'
<1> DEFINE b == NewOutput(o)
<1>1. /\ wire \in Seq(EventType) /\ has.info \in BOOLEAN /\ origin[o] \in Int
      /\ shown \subseteq Wins
  BY Started DEF CosmicInv, CosmicTyped
<1>2. /\ OpenIsShown(z) /\ PlacesAreCurrent(z) /\ OriginsAreCurrent(z) /\ ShownIsAnnounced(z)
      /\ OwedIsCurrent(z)
  BY DEF Ending
<1>3. OriginFits(z, o, origin[o], had)
  <2>1. ASSUME NEW w \in Wins, z.rec[w].at[o] # NoWin
        PROVE  origin[o] + z.rec[w].at[o] \in had.place[w]
    <3>1. place[w].out = o /\ place[w].x = z.rec[w].at[o] BY <1>2, <2>1 DEF PlacesAreCurrent
    <3>2. Global(w, place, origin) \in had.place[w] BY DEF CosmicInv, HadInv
    <3> QED BY <3>1, <3>2 DEF Global
  <2> QED BY <2>1 DEF OriginFits, PlaceIsTrue
<1>4. PICK z2 : /\ wire \o NewOutput(o) \in Seq(EventType)
                /\ Leads(Here, wire \o NewOutput(o), z2, had, has.info)
                /\ OriginTold(z, z2, o)
  BY <1>1, <1>3, NewOutputTold
<1> HIDE DEF b
<1>5. SendsBurst(b) /\ wire' = wire \o b BY DEF b, SendsBurst
<1>6. z2.rec = z.rec BY <1>4 DEF OriginTold, SameButOutput
<1>7. OpenIsShown(z2) /\ PlacesAreCurrent(z2)
  BY <1>2, <1>6 DEF OpenIsShown, PlacesAreCurrent
<1>8. OriginsAreCurrent(z2)
  <2>1. ASSUME NEW p \in Outs, z2.outputs[p].logical # NoWin
        PROVE  has.xdg /\ z2.outputs[p].logical = origin[p]
    <3>1. CASE p = o BY <1>2, <1>4, <2>1, <3>1 DEF OriginsAreCurrent, OriginTold
    <3>2. CASE p # o
      <4>1. z2.outputs[p] = z.outputs[p] BY <1>4, <3>2 DEF OriginTold, SameButOutput
      <4> QED BY <1>2, <2>1, <4>1 DEF OriginsAreCurrent
    <3> QED BY <3>1, <3>2
  <2> QED BY <2>1 DEF OriginsAreCurrent
<1>9. Bound BY <1>5, BurstBound
<1>10. ShownIsAnnounced(z2)'
  <2>1. owed'.bursts = owed.bursts \ {b} /\ Announced' = Announced
    BY <1>2, <1>5, BurstOwed DEF SendsBurst, cosmicDeskVars, Announced
  <2>2. \A w \in Announced : \/ z2.rec[w].listed /\ z2.rec[w].open /\ z2.rec[w].named
                             \/ Announces(w) \in owed'.bursts
    BY <1>2, <1>6, <1>9, <2>1 DEF ShownIsAnnounced, Announced, b
  <2> QED BY <2>1, <2>2 DEF ShownIsAnnounced, Announced
<1>11. OwedIsCurrent(z2)' /\ HeadsAreCurrent(z2)' BY <1>5, OtherBursts
<1>12. Leads(Here, wire', z2, had, has.info) /\ wire' \in Seq(EventType) BY <1>4, <1>5 DEF b
<1> QED BY <1>5, <1>7, <1>8, <1>9, <1>10, <1>11, <1>12, BurstKeeps

LEMMA SendsAnnounces ==
    ASSUME CosmicInv, NEW z, Leads(Here, wire, z, had, has.info), Ending(z),
           task.what # "layout", NEW w \in Announced, SendsBurst(Announces(w))
    PROVE  CosmicInv'
<1> DEFINE b == Announces(w)
<1>1. /\ wire \in Seq(EventType) /\ has.info \in BOOLEAN /\ shown \subseteq Wins /\ w \in Wins
      /\ w \in had.shown /\ w \in shown /\ has.info
  BY Started DEF CosmicInv, CosmicTyped, HadInv, Announced
<1>2. /\ OpenIsShown(z) /\ PlacesAreCurrent(z) /\ OriginsAreCurrent(z) /\ ShownIsAnnounced(z)
      /\ OwedIsCurrent(z)
  BY DEF Ending
<1>4. PICK z2 : /\ wire \o Announces(w) \in Seq(EventType)
                /\ Leads(Here, wire \o Announces(w), z2, had, has.info)
                /\ KnownNow(z, z2, w)
  <2>1. MayTell(w, had, has.info) BY <1>1 DEF MayTell
  <2> QED BY <1>1, <2>1, AnnouncesTold
<1> HIDE DEF b
<1>5. SendsBurst(b) /\ wire' = wire \o b BY DEF b, SendsBurst
<1>6. /\ z2.outputs = z.outputs /\ \A v \in Wins : z2.rec[v].at = z.rec[v].at
      /\ \A v \in Wins : v # w => z2.rec[v] = z.rec[v]
  BY <1>4 DEF KnownNow, SameButRecord
<1>7. OpenIsShown(z2) /\ PlacesAreCurrent(z2) /\ OriginsAreCurrent(z2)
  BY <1>1, <1>2, <1>6 DEF OpenIsShown, PlacesAreCurrent, OriginsAreCurrent
<1>9. Bound BY <1>5, BurstBound
<1>10. ShownIsAnnounced(z2)'
  <2>1. owed'.bursts = owed.bursts \ {b} /\ Announced' = Announced
    BY <1>2, <1>5, BurstOwed DEF SendsBurst, cosmicDeskVars, Announced
  <2>2. ASSUME NEW v \in Announced
        PROVE  \/ z2.rec[v].listed /\ z2.rec[v].open /\ z2.rec[v].named
               \/ Announces(v) \in owed'.bursts
    <3>1. CASE v = w BY <1>4, <3>1 DEF KnownNow
    <3>2. CASE v # w
      <4>1. Announces(v) # b BY <3>2, AnnouncesOne DEF b
      <4> QED BY <1>1, <1>2, <1>6, <1>9, <2>1, <3>2, <4>1 DEF ShownIsAnnounced, Announced
    <3> QED BY <3>1, <3>2
  <2> QED BY <2>1, <2>2 DEF ShownIsAnnounced, Announced
<1>11. OwedIsCurrent(z2)' /\ HeadsAreCurrent(z2)' BY <1>5, OtherBursts
<1>12. Leads(Here, wire', z2, had, has.info) /\ wire' \in Seq(EventType) BY <1>4, <1>5 DEF b
<1> QED BY <1>5, <1>7, <1>9, <1>10, <1>11, <1>12, BurstKeeps

LEMMA SendsHandleEvents ==
    ASSUME CosmicInv, NEW z, Leads(Here, wire, z, had, has.info), Ending(z),
           task.what # "layout", NEW w \in tracked, SendsBurst(HandleEvents(w)),
           \A v \in Announced : HandleEvents(w) # Announces(v)
    PROVE  CosmicInv'
<1> DEFINE b == HandleEvents(w)
           q == place[w].out
           x == place[w].x
<1>1. /\ wire \in Seq(EventType) /\ has.info \in BOOLEAN /\ shown \subseteq Wins /\ w \in Wins
      /\ w \in shown /\ shown \subseteq had.shown /\ q \in Outs /\ x \in Int
      /\ activated \in had.activated
  BY Started DEF CosmicInv, CosmicTyped, HadInv
<1>2. /\ OpenIsShown(z) /\ PlacesAreCurrent(z) /\ OriginsAreCurrent(z) /\ ShownIsAnnounced(z)
      /\ OwedIsCurrent(z) /\ z \in Views
  <2>1. ViewIsTrue(z, had, has.info) BY <1>1, LeadsEnds
  <2> QED BY <2>1 DEF Ending, ViewIsTrue
<1>3. PlaceIsTrue(x, z.outputs[q].logical, had.place[w])
  <2>1. z.outputs[q].logical # NoWin => z.outputs[q].logical = origin[q]
    BY <1>1, <1>2 DEF OriginsAreCurrent
  <2>2. Global(w, place, origin) \in had.place[w] BY <1>1 DEF CosmicInv, HadInv
  <2> QED BY <2>1, <2>2 DEF Global, PlaceIsTrue
<1>4. \E z1, z2 : /\ wire \o b \in Seq(EventType)
                  /\ Leads(Here, wire \o b, z2, had, has.info)
                  /\ SameButFocus(z, z1) /\ PlaceSet(z1, z2, w, q, x)
  BY <1>1, <1>3, HandleEventsTold
<1> HIDE DEF b, q, x
<1>5. PICK z1, z2 : /\ wire \o b \in Seq(EventType)
                    /\ Leads(Here, wire \o b, z2, had, has.info)
                    /\ SameButFocus(z, z1) /\ PlaceSet(z1, z2, w, q, x)
  BY <1>4
<1>6. SendsBurst(b) /\ wire' = wire \o b BY DEF b, SendsBurst
<1>7. /\ z2.outputs = z.outputs
      /\ \A v \in Wins : /\ z2.rec[v].listed = z.rec[v].listed /\ z2.rec[v].open = z.rec[v].open
                         /\ z2.rec[v].named = z.rec[v].named
                         /\ v # w => z2.rec[v].at = z.rec[v].at
      /\ \A p \in Outs : z2.rec[w].at[p] = IF p = q THEN x ELSE z.rec[w].at[p]
  <2>1. z1.rec[w] \in RecordType BY <1>1, <1>5 DEF SameButFocus, Views
  <2>2. z1.rec[w].at \in [Outs -> Int \cup {NoWin}] BY <2>1 DEF RecordType
  <2>3. /\ z2.rec[w].listed = z1.rec[w].listed /\ z2.rec[w].open = z1.rec[w].open
        /\ z2.rec[w].named = z1.rec[w].named /\ z2.rec[w].at = [z1.rec[w].at EXCEPT ![q] = x]
    BY <1>5, <2>1 DEF PlaceSet, RecordType
  <2>4. \A p \in Outs : z2.rec[w].at[p] = IF p = q THEN x ELSE z1.rec[w].at[p]
    BY <2>2, <2>3
  <2>5. z2.outputs = z1.outputs /\ \A v \in Wins : v # w => z2.rec[v] = z1.rec[v]
    BY <1>5 DEF PlaceSet, SameButRecord
  <2>6. /\ z1.outputs = z.outputs
        /\ \A v \in Wins : /\ z1.rec[v].listed = z.rec[v].listed /\ z1.rec[v].open = z.rec[v].open
                           /\ z1.rec[v].named = z.rec[v].named /\ z1.rec[v].at = z.rec[v].at
    BY <1>5 DEF SameButFocus
  <2> QED BY <1>1, <2>3, <2>4, <2>5, <2>6
<1>8. OpenIsShown(z2) /\ OriginsAreCurrent(z2)
  BY <1>2, <1>7 DEF OpenIsShown, OriginsAreCurrent
<1>9. PlacesAreCurrent(z2)
  <2>1. SUFFICES ASSUME NEW v \in Wins, NEW p \in Outs, z2.rec[v].at[p] # NoWin
                 PROVE  /\ v \in had.shown /\ (v \in shown => v \in tracked)
                        /\ place[v].out = p /\ place[v].x = z2.rec[v].at[p]
    BY DEF PlacesAreCurrent
  <2>2. CASE v = w /\ p = q BY <1>1, <1>7, <2>2 DEF q, x
  <2>3. CASE v = w /\ p # q BY <1>2, <1>7, <2>1, <2>3 DEF PlacesAreCurrent
  <2>4. CASE v # w BY <1>2, <1>7, <2>1, <2>4 DEF PlacesAreCurrent
  <2> QED BY <2>2, <2>3, <2>4
<1>10. Bound BY <1>6, BurstBound
<1>11. ShownIsAnnounced(z2)'
  <2>1. owed'.bursts = owed.bursts \ {b} /\ Announced' = Announced
    BY <1>2, <1>6, BurstOwed DEF SendsBurst, cosmicDeskVars, Announced
  <2>2. \A v \in Announced : \/ z2.rec[v].listed /\ z2.rec[v].open /\ z2.rec[v].named
                             \/ Announces(v) \in owed'.bursts
    BY <1>1, <1>2, <1>7, <1>10, <2>1 DEF ShownIsAnnounced, Announced, b
  <2> QED BY <2>1, <2>2 DEF ShownIsAnnounced, Announced
<1>12. OwedIsCurrent(z2)' /\ HeadsAreCurrent(z2)' BY <1>6, OtherBursts
<1>13. Leads(Here, wire', z2, had, has.info) /\ wire' \in Seq(EventType) BY <1>5, <1>6
<1> QED BY <1>6, <1>8, <1>9, <1>10, <1>11, <1>12, <1>13, BurstKeeps

LEMMA SendsHead ==
    ASSUME CosmicInv, NEW z, Leads(Here, wire, z, had, has.info), Ending(z),
           task.what = "layout", NEW b, SendsBurst(b), NEW h \in Outs,
           HeadBurst(b, h, z.heads[h], layout)
    PROVE  CosmicInv'
<1>1. /\ wire \in Seq(EventType) /\ has.info \in BOOLEAN /\ layout \in [Outs -> MonitorType]
      /\ shown = {}
  BY Started DEF CosmicInv, CosmicTyped
<1>2. /\ OpenIsShown(z) /\ PlacesAreCurrent(z) /\ OriginsAreCurrent(z) /\ HeadsAreCurrent(z)
      /\ OwedIsCurrent(z)
  BY DEF Ending
<1>3. PICK z2 : /\ wire \o b \in Seq(EventType)
                /\ Leads(Here, wire \o b, z2, had, has.info)
                /\ SameButHead(z, z2, h) /\ HeadShows(z2.heads[h], layout[h])
  BY <1>1, HeadBurstTold
<1>4. wire' = wire \o b BY DEF SendsBurst
<1>5. z2.rec = z.rec /\ z2.outputs = z.outputs /\ \A g \in Outs : g # h => z2.heads[g] = z.heads[g]
  BY <1>3 DEF SameButHead
<1>6. OpenIsShown(z2) /\ PlacesAreCurrent(z2) /\ OriginsAreCurrent(z2)
  BY <1>2, <1>5 DEF OpenIsShown, PlacesAreCurrent, OriginsAreCurrent
<1>7. Bound BY BurstBound
<1>8. /\ owed'.bursts = owed.bursts \ {b} /\ owed'.end = owed.end
      /\ owed' = [bursts |-> owed'.bursts, end |-> owed'.end]
  BY <1>2, BurstOwed
<1>9. task' = task /\ shown' = shown /\ layout' = layout /\ unread' = unread
  BY DEF SendsBurst, cosmicDeskVars
<1>10. ShownIsAnnounced(z2)' BY <1>1, <1>9 DEF ShownIsAnnounced, Announced
<1>11. ASSUME NEW g \in Outs
       PROVE  \/ HeadShows(z2.heads[g], layout[g])
              \/ \E c \in owed'.bursts : HeadBurst(c, g, z2.heads[g], layout)
  <2>1. CASE g = h BY <1>3, <2>1
  <2>2. CASE g # h
    <3>1. z2.heads[g] = z.heads[g] BY <1>5, <2>2
    <3>2. CASE HeadShows(z.heads[g], layout[g]) BY <3>1, <3>2
    <3>3. ASSUME NEW c \in owed.bursts, HeadBurst(c, g, z.heads[g], layout)
          PROVE  c \in owed'.bursts
      <4>1. c[1].out = g /\ b[1].out = h BY <1>1, <3>3, HeadBurstOne
      <4> QED BY <1>8, <2>2, <4>1
    <3>4. \/ HeadShows(z.heads[g], layout[g])
          \/ \E c \in owed.bursts : HeadBurst(c, g, z.heads[g], layout)
      BY <1>2, <1>7 DEF HeadsAreCurrent
    <3> QED BY <3>1, <3>3, <3>4
  <2> QED BY <2>1, <2>2
<1>12. HeadsAreCurrent(z2)' BY <1>9, <1>11 DEF HeadsAreCurrent
<1>13. ASSUME NEW c \in owed'.bursts
       PROVE  \E g \in Outs : HeadBurst(c, g, z2.heads[g], layout)
  <2>1. PICK g \in Outs : HeadBurst(c, g, z.heads[g], layout) BY <1>2, <1>8 DEF OwedIsCurrent
  <2>2. CASE g # h
    <3>1. z2.heads[g] = z.heads[g] BY <1>5, <2>2
    <3> QED BY <2>1, <3>1
  <2>3. CASE g = h
    <3>1. layout[h].there => z2.heads[h].known /\ ~z2.heads[h].over BY <1>3 DEF HeadShows
    <3>2. HeadBurst(c, h, z2.heads[h], layout) BY <2>1, <2>3, <3>1 DEF HeadBurst
    <3> QED BY <3>2
  <2> QED BY <2>2, <2>3
<1>14. owed'.end \in {<<>>, LayoutDone} BY <1>2, <1>8 DEF OwedIsCurrent
<1>15. OwedIsCurrent(z2)' BY <1>8, <1>9, <1>13, <1>14 DEF OwedIsCurrent
<1>16. Leads(Here, wire', z2, had, has.info) /\ wire' \in Seq(EventType) BY <1>3, <1>4
<1> QED BY <1>6, <1>7, <1>10, <1>12, <1>15, <1>16, BurstKeeps

LEMMA SendsBurstKeeps ==
    ASSUME CosmicInv, NEW b, SendsBurst(b)
    PROVE  CosmicInv'
<1>1. PICK z : Leads(Here, wire, z, had, has.info) /\ Ending(z) BY EndIsKnown
<1>2. b \in owed.bursts BY DEF SendsBurst
<1>3. CASE task.what = "layout"
  <2>1. PICK h \in Outs : HeadBurst(b, h, z.heads[h], layout)
    BY <1>1, <1>2, <1>3 DEF Ending, OwedIsCurrent
  <2> QED BY <1>1, <1>3, <2>1, SendsHead
<1>4. CASE task.what # "layout"
  <2>1. \/ \E o \in Outs : b = NewOutput(o)
        \/ \E w \in Announced : b = Announces(w)
        \/ \E w \in tracked : b = HandleEvents(w)
    BY <1>1, <1>2, <1>4 DEF Ending, OwedIsCurrent
  <2>2. CASE \E w \in Announced : b = Announces(w) BY <1>1, <1>4, <2>2, SendsAnnounces
  <2>3. CASE ~(\E w \in Announced : b = Announces(w)) /\ \E o \in Outs : b = NewOutput(o)
    BY <1>1, <1>4, <2>3, SendsNewOutput
  <2>4. CASE ~(\E w \in Announced : b = Announces(w)) /\ \E w \in tracked : b = HandleEvents(w)
    BY <1>1, <1>4, <2>4, SendsHandleEvents
  <2> QED BY <2>1, <2>2, <2>3, <2>4
<1> QED BY <1>3, <1>4

\* When all bursts are sent, their end.
LEMMA SendsEndKeeps ==
    ASSUME CosmicInv, stage # "done", owed.bursts = {}, owed.end # <<>>,
           wire' = wire \o owed.end, owed' = NothingOwed,
           UNCHANGED <<task, has, cosmicDeskVars, unread, helperVars, stageVars>>
    PROVE  CosmicInv'
<1>1. PICK z : Leads(Here, wire, z, had, has.info) /\ Ending(z) BY EndIsKnown
<1>2. wire \in Seq(EventType) /\ has.info \in BOOLEAN BY Started DEF CosmicInv, CosmicTyped
<1>3. Bound
  <2>1. owed # NothingOwed BY DEF NothingOwed
  <2> QED BY <1>1, <2>1 DEF Ending, NothingIsBound
<1>4. /\ OpenIsShown(z) /\ PlacesAreCurrent(z) /\ OriginsAreCurrent(z)
      /\ \A w \in Announced : z.rec[w].listed /\ z.rec[w].open /\ z.rec[w].named
      /\ task.what = "layout" => \A h \in Outs : HeadShows(z.heads[h], layout[h])
      /\ owed.end = IF task.what = "layout" THEN LayoutDone ELSE Done
  BY <1>1, <1>3 DEF Ending, ShownIsAnnounced, Announced, HeadsAreCurrent, OwedIsCurrent
<1>5. \E z2 : /\ wire' \in Seq(EventType) /\ Leads(Here, wire', z2, had, has.info)
              /\ z2.rec = z.rec /\ z2.outputs = z.outputs /\ z2.heads = z.heads
  <2>1. CASE task.what = "layout"
    <3>1. LayoutShows(z.heads, had.layout)
      <4>1. layout \in had.layout BY <2>1 DEF CosmicInv, CosmicTyped
      <4> QED BY <1>4, <2>1, <4>1 DEF LayoutShows
    <3> DEFINE y == View(z.rec, z.outputs, z.heads, TRUE, z.trips)
    <3>2. wire \o LayoutDone \in Seq(EventType) /\ Leads(Here, wire \o LayoutDone, y, had, has.info)
      BY <1>1, <1>2, <3>1, LayoutDoneEmit
    <3>3. y.rec = z.rec /\ y.outputs = z.outputs /\ y.heads = z.heads BY DEF View
    <3> HIDE DEF y
    <3> QED BY <1>4, <2>1, <3>2, <3>3
  <2>2. CASE task.what # "layout"
    <3>1. wire \o Done \in Seq(EventType) /\ Leads(Here, wire \o Done, z, had, has.info)
      BY <1>1, <1>2, DoneEmit
    <3> QED BY <1>4, <2>2, <3>1
  <2> QED BY <2>1, <2>2
<1>6. PICK z2 : /\ wire' \in Seq(EventType) /\ Leads(Here, wire', z2, had, has.info)
                /\ z2.rec = z.rec /\ z2.outputs = z.outputs /\ z2.heads = z.heads
  BY <1>5
<1>7. DeskStays /\ UNCHANGED <<due, tracked, had>> /\ unread' = unread
  BY DEF DeskStays, cosmicDeskVars
<1>8. unread' \in Seq(WireRequest) /\ BindIsFirst' /\ Bound' = Bound BY <1>7, UnreadKeeps
<1>9. CosmicTyped' /\ HadInv'
  <2>1. due \subseteq shown /\ tracked \subseteq shown BY DEF CosmicInv, CosmicTyped
  <2> QED BY <1>6, <1>7, <1>8, <2>1, TypedStays
<1>10. OpenIsShown(z2)' /\ PlacesAreCurrent(z2)' /\ OriginsAreCurrent(z2)'
  BY <1>4, <1>6, <1>7 DEF DeskStays, OpenIsShown, PlacesAreCurrent, OriginsAreCurrent
<1>11. ShownIsAnnounced(z2)' /\ HeadsAreCurrent(z2)'
  BY <1>4, <1>6, <1>7 DEF DeskStays, ShownIsAnnounced, Announced, HeadsAreCurrent
<1>12. OwedIsCurrent(z2)' BY OwesNothing
<1>13. NothingIsBound(z2)' BY <1>3, <1>8 DEF NothingIsBound
<1>14. Ending(z2)' BY <1>10, <1>11, <1>12, <1>13 DEF Ending
<1>15. Leads(Here, wire', z2, had', has.info) /\ Grows(had, had') BY <1>6, <1>7, GrowsSelf
<1> QED BY <1>8, <1>9, <1>14, <1>15, CompositorKeeps

LEMMA SendsOwedKeeps == CosmicInv /\ stage # "done" /\ SendsOwed => CosmicInv'
<1> SUFFICES ASSUME CosmicInv, stage # "done", SendsOwed PROVE CosmicInv' OBVIOUS
<1>1. CASE \E b \in owed.bursts : /\ wire' = wire \o b
                                  /\ owed' = [owed EXCEPT !.bursts = owed.bursts \ {b}]
  <2>1. PICK b \in owed.bursts : /\ wire' = wire \o b
                                 /\ owed' = [owed EXCEPT !.bursts = owed.bursts \ {b}]
    BY <1>1
  <2>2. SendsBurst(b) BY <2>1 DEF SendsOwed, SendsBurst
  <2> QED BY <2>2, SendsBurstKeeps
<1>2. CASE owed.bursts = {} /\ owed.end # <<>> /\ wire' = wire \o owed.end /\ owed' = NothingOwed
  BY <1>2, SendsEndKeeps DEF SendsOwed
<1> QED BY <1>1, <1>2 DEF SendsOwed

LEMMA CompositorStepKeeps == CosmicInv /\ stage # "done" /\ CompositorStep => CosmicInv'
  BY ServeKeeps, SendsOwedKeeps, TellHandlesKeeps, ToplevelOpensKeeps, ToplevelClosesKeeps,
     FrontMovesKeeps, ToplevelMovesKeeps, OutputMovesKeeps, LayoutChangesKeeps
     DEF CompositorStep

-----------------------------------------------------------------------------
\* The beginning.

LEMMA CosmicStarts == CosmicInit => CosmicInv
<1> SUFFICES ASSUME CosmicInit PROVE CosmicInv OBVIOUS
<1> USE DEF CosmicInit
<1>1. /\ task \in Tasks /\ has \in [info : BOOLEAN, xdg : BOOLEAN, manage : BOOLEAN]
      /\ place \in [Wins -> [out : Outs, x : Int]] /\ origin \in [Outs -> Int]
      /\ shown \subseteq Wins /\ activated \in shown \cup {NoWin}
  BY CosmicAssumption
<1>2. task.what = "layout" => shown = {} /\ layout \in [Outs -> MonitorType]
  BY CosmicAssumption DEF MonitorType
<1>3. layout \in [Outs -> MonitorType] \cup {NoWin} BY <1>2
<1>4. /\ owed = NothingOwed /\ wire = <<>> /\ due = {} /\ tracked = {}
      /\ unread = <<[do |-> "bind", win |-> NoWin], [do |-> "sync", win |-> NoWin]>>
      /\ rec = [w \in Wins |-> NoRecord]
      /\ outputs = [o \in Outs |-> [logical |-> NoWin, done |-> FALSE]]
      /\ heads = [h \in Outs |-> NoHead] /\ ready = FALSE
      /\ stage = "sync" /\ trips = 0 /\ helperSays = NothingSaid
      /\ had = [activated |-> {activated}, place |-> [w \in Wins |-> {Global(w, place, origin)}],
                layout |-> {layout}, shown |-> shown, always |-> shown]
  BY DEF CosmicBegins
<1>5. \A w \in Wins : Global(w, place, origin) \in Int BY <1>1 DEF Global
<1>6. had \in HadType
  <2>1. [w \in Wins |-> {Global(w, place, origin)}] \in [Wins -> SUBSET Int] BY <1>5
  <2>2. activated \in Wins \cup {NoWin} BY <1>1
  <2> QED BY <1>1, <1>3, <1>4, <2>1, <2>2 DEF HadType
<1>7. HadInv BY <1>4 DEF HadInv
<1>8. /\ unread \in Seq(WireRequest) /\ unread # <<>> /\ Head(unread).do = "bind"
      /\ Len(unread) = 2 /\ unread[1].do = "bind" /\ unread[2].do = "sync"
  BY <1>4 DEF WireRequest
<1>9. BindIsFirst BY <1>8 DEF BindIsFirst
<1>10. ~Bound BY <1>8 DEF Bound
<1>11. wire \in Seq(EventType) BY <1>4
<1>12. CosmicTyped BY <1>1, <1>2, <1>4, <1>6, <1>8, <1>11 DEF CosmicTyped
<1>13. /\ Here \in Views /\ Here.rec = rec /\ Here.outputs = outputs /\ Here.heads = heads
       /\ Here.ready = FALSE /\ Here.trips = 0
  <2>1. NoRecord \in RecordType BY DEF NoRecord, RecordType
  <2>2. NoHead \in HeadType BY DEF NoHead, HeadType
  <2>3. [logical |-> NoWin, done |-> FALSE] \in OutputType BY DEF OutputType
  <2>4. rec \in [Wins -> RecordType] BY <1>4, <2>1
  <2>5. heads \in [Outs -> HeadType] BY <1>4, <2>2
  <2>6. outputs \in [Outs -> OutputType] BY <1>4, <2>3
  <2> QED BY <1>4, <2>4, <2>5, <2>6 DEF Here, Views
<1>14. /\ \A w \in Wins : rec[w] = NoRecord /\ \A o \in Outs : rec[w].at[o] = NoWin
       /\ \A o \in Outs : outputs[o].logical = NoWin /\ heads[o] = NoHead
  BY <1>4 DEF NoRecord
<1>15. ViewIsTrue(Here, had, has.info)
  <2>1. \A w \in Wins : RecordIsTrue(rec[w], w, 0, had, has.info)
    BY <1>14 DEF RecordIsTrue, NoRecord
  <2>2. \A w \in Wins, o \in Outs :
           PlaceIsTrue(rec[w].at[o], outputs[o].logical, had.place[w])
    BY <1>14 DEF PlaceIsTrue
  <2> QED BY <1>13, <2>1, <2>2 DEF ViewIsTrue
<1>16. Leads(Here, wire, Here, had, has.info) BY <1>4, <1>15, LeadsHere
<1>17. Ending(Here)
  <2>1. OpenIsShown(Here) BY <1>13, <1>14 DEF OpenIsShown, NoRecord
  <2>2. ShownIsAnnounced(Here) BY <1>10 DEF ShownIsAnnounced, Announced
  <2>3. PlacesAreCurrent(Here) BY <1>13, <1>14 DEF PlacesAreCurrent
  <2>4. OriginsAreCurrent(Here) BY <1>13, <1>14 DEF OriginsAreCurrent
  <2>5. HeadsAreCurrent(Here) BY <1>10 DEF HeadsAreCurrent
  <2>6. OwedIsCurrent(Here) BY <1>4 DEF OwedIsCurrent, NothingOwed
  <2>7. NothingIsBound(Here) BY <1>4, <1>13, <1>14 DEF NothingIsBound
  <2> QED BY <2>1, <2>2, <2>3, <2>4, <2>5, <2>6, <2>7 DEF Ending
<1>18. EndsCurrent BY <1>16, <1>17 DEF EndsCurrent
<1>19. StageInv BY <1>4 DEF StageInv
<1>20. HelperIsTrue
  <2>1. helperSays.kind = "nothing" BY <1>4 DEF NothingSaid
  <2> QED BY <2>1 DEF HelperIsTrue, ListingIsTrue, ActivationIsTrue, LayoutIsWhole
<1> QED BY <1>7, <1>9, <1>12, <1>18, <1>19, <1>20 DEF CosmicInv

LEMMA CosmicStutters == CosmicInv /\ UNCHANGED cosmicVars => CosmicInv'
<1> SUFFICES ASSUME CosmicInv, UNCHANGED cosmicVars PROVE CosmicInv' OBVIOUS
<1>1. /\ UNCHANGED <<task, has, cosmicDeskVars, owed>> /\ wire' = wire /\ unread' = unread
      /\ UNCHANGED <<rec, outputs, heads, ready, stage, trips, helperSays>>
  BY DEF cosmicVars, helperVars, stageVars
<1>2. unread' \in Seq(WireRequest) /\ BindIsFirst' /\ Bound' = Bound BY <1>1, UnreadKeeps
<1>3. CosmicTyped' /\ HadInv' /\ BindIsFirst' /\ EndsCurrent'
  <2>1. wire \in Seq(EventType) BY DEF CosmicInv, CosmicTyped
  <2>2. Here' = Here BY <1>1 DEF Here
  <2> QED BY <1>1, <1>2, <2>1, <2>2, HelperKeeps
<1>4. task' = task /\ has' = has /\ had' = had BY <1>1 DEF cosmicDeskVars
<1>5. StageInv' BY <1>1, <1>4 DEF CosmicInv, StageInv, NotOnly
<1>6. HelperIsTrue'
  BY <1>1, <1>4 DEF CosmicInv, HelperIsTrue, ListingIsTrue, ActivationIsTrue, LayoutIsWhole
<1> QED BY <1>3, <1>5, <1>6 DEF CosmicInv

\* What the COSMIC helper says of the windows, of the focus and of the monitors was so at some
\* time while it looked, however its requests, the bursts of the compositor and the changes of
\* the desktop come in between: for any windows, outputs, arrangements and number of changes.
THEOREM HelperStaysTrue == CosmicSpec => []HelperIsTrue
<1>1. CosmicInv /\ [CosmicNext]_cosmicVars => CosmicInv'
  BY HelperStepKeeps, CompositorStepKeeps, CosmicStutters DEF CosmicNext
<1>2. CosmicInv => HelperIsTrue BY DEF CosmicInv
<1> QED BY CosmicStarts, <1>1, <1>2, PTL DEF CosmicSpec
=============================================================================
