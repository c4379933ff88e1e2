------------------------------- MODULE KdeClipboard -------------------------------
(***************************************************************************)
(* type_text through the clipboard on Plasma (server.rs): the user's       *)
(* clipboard is read, replaced by the text, pasted by a key chord and put  *)
(* back.  Each step is a call to Klipper with a time limit, and a call     *)
(* that timed out is still on its way.                                     *)
(*                                                                         *)
(* A paste runs in a task that no cancellation stops.  Klipper and the     *)
(* application that pastes are external: Klipper takes its messages in the *)
(* order of the bus, the application reads the clipboard some time after   *)
(* the chord.                                                              *)
(***************************************************************************)
EXTENDS Integers, Sequences

CONSTANTS
    Pastes,    \* type_text calls on the clipboard route
    ServerOf,  \* ServerOf[p]: the process that runs p
    MaxCopies, \* bound on what the user copies
    Faults,    \* "timeout", "refused", "chord", "slow" (application), "copy" (while a paste runs), "exit"
    NoText     \* nothing pasted

ASSUME ClipboardAssumption ==
    /\ MaxCopies \in Nat
    /\ Pastes \cap Nat = {} /\ NoText \notin Pastes \cup Nat

VARIABLES
    stage,     \* state of each paste
    previous,  \* what it read
    sent,      \* how many times it sent its text to the application
    warned,    \* it was told that the user's clipboard may not be back
    klipper,   \* messages Klipper has not taken
    clipboard, \* what Klipper holds: a copy of the user or the text of a paste
    copied,    \* the last thing the user copied
    pasting,   \* the application has seen the chord and not read the clipboard
    pasted,    \* what it read
    disturbed  \* a paste met what the code does not protect it from

pasteVars == <<previous, sent, warned>>
desktopVars == <<clipboard, copied, pasting, pasted>>
clipVars == <<stage, pasteVars, klipper, desktopVars, disturbed>>

Contents == 0..MaxCopies \cup Pastes
Calling == {"reading", "setting", "undoing", "restoring"}
KlipperCalls == [by : Pastes, step : Calling]

\* The locks of a server are free: the input and the clipboard lock cover a whole paste.
PasteOver(p) == stage[p] \in {"idle", "done"}

\* Types, and that a server runs one paste at a time.
ClipTypeOK ==
    /\ stage \in [Pastes -> Calling \cup {"idle", "read", "ambiguous", "set", "settling", "typing", "done"}]
    /\ previous \in [Pastes -> Contents]
    /\ sent \in [Pastes -> Nat] /\ warned \in [Pastes -> BOOLEAN]
    /\ klipper \in Seq(KlipperCalls)
    /\ clipboard \in Contents /\ copied \in 0..MaxCopies
    /\ pasting \in [Pastes -> BOOLEAN] /\ pasted \in [Pastes -> Contents \cup {NoText}]
    /\ disturbed \in BOOLEAN
    /\ \A p, q \in Pastes : ServerOf[p] = ServerOf[q] /\ ~PasteOver(p) /\ ~PasteOver(q) => p = q

ClipInit ==
    /\ stage = [p \in Pastes |-> "idle"]
    /\ previous = [p \in Pastes |-> 0]
    /\ sent = [p \in Pastes |-> 0] /\ warned = [p \in Pastes |-> FALSE]
    /\ klipper = <<>> /\ clipboard = 0 /\ copied = 0
    /\ pasting = [p \in Pastes |-> FALSE] /\ pasted = [p \in Pastes |-> NoText]
    /\ disturbed = FALSE

-----------------------------------------------------------------------------
Enter(p, s) == stage' = [stage EXCEPT ![p] = s]

AskKlipper(p, s) ==
    /\ Enter(p, s)
    /\ klipper' = Append(klipper, [by |-> p, step |-> s])

Value(m) == IF m.step = "setting" THEN m.by ELSE previous[m.by]

\* Mutant: the clipboard lock is taken after the contents are read.
BeginPasteUnlocked(p) ==
    /\ stage[p] = "idle"
    /\ AskKlipper(p, "reading")
    /\ disturbed' = (disturbed \/ \E q \in Pastes : ~PasteOver(q))
    /\ UNCHANGED <<pasteVars, desktopVars>>

\* Both locks of the server are taken, then the clipboard is asked for.
BeginPaste(p) ==
    /\ stage[p] = "idle"
    /\ \A q \in Pastes : ServerOf[q] = ServerOf[p] => PasteOver(q)
    /\ AskKlipper(p, "reading")
    /\ disturbed' = (disturbed \/ \E q \in Pastes : ~PasteOver(q))
    /\ UNCHANGED <<pasteVars, desktopVars>>

\* An answered call: what the paste does next.
OnAnswer(s) == CASE s = "reading" -> "read"
                 [] s = "setting" -> "set"
                 [] OTHER -> "done"

\* Mutant: a write that timed out is taken for one that worked.
OnFailureHopeful(s) == CASE s = "reading" -> "typing"
                      [] s = "setting" -> "set"
                      [] OTHER -> "done"

\* A failed call.  A read has changed nothing, so the text is typed by ydotool; a write
\* may land yet, so it is taken back and the text is not typed.
OnFailure(s) == CASE s = "reading" -> "typing"
               [] s = "setting" -> "ambiguous"
               [] OTHER -> "done"

Warns(p) == warned' = [warned EXCEPT ![p] = @ \/ stage[p] \in {"undoing", "restoring"}]

\* KDE_CLIPBOARD_DBUS_TIMEOUT passes; the message stays on its way.
CallTimesOut(p) ==
    /\ "timeout" \in Faults /\ stage[p] \in Calling
    /\ Enter(p, OnFailure(stage[p]))
    /\ Warns(p)
    /\ UNCHANGED <<previous, sent, klipper, desktopVars, disturbed>>

SetText(p) ==
    /\ stage[p] = "read"
    /\ AskKlipper(p, "setting")
    /\ UNCHANGED <<pasteVars, desktopVars, disturbed>>

\* Mutant: after a failed write the clipboard is left as it is.
UndoNothing(p) ==
    /\ stage[p] = "ambiguous"
    /\ Enter(p, "done")
    /\ UNCHANGED <<pasteVars, klipper, desktopVars, disturbed>>

\* replace_kde_clipboard puts the previous contents back.
Undo(p) ==
    /\ stage[p] = "ambiguous"
    /\ AskKlipper(p, "undoing")
    /\ UNCHANGED <<pasteVars, desktopVars, disturbed>>

\* Mutant: a chord that failed lets the text be typed by ydotool.
AfterChordRetyped(landed) == IF landed THEN {"settling", "typing"} ELSE {"typing"}

\* Whatever became of the chord, the clipboard is restored after the delay, and an
\* error there does not fall back.
AfterChord(landed) == {"settling"}

\* press_keycode_chord, which may fail before or after the keys have landed.
Chord(p) ==
    /\ stage[p] = "set"
    /\ \E landed \in {TRUE} \cup (IF "chord" \in Faults THEN {FALSE} ELSE {}) :
          /\ \E s \in AfterChord(landed) : Enter(p, s)
          /\ pasting' = [pasting EXCEPT ![p] = landed]
          /\ sent' = [sent EXCEPT ![p] = IF landed THEN @ + 1 ELSE @]
    /\ UNCHANGED <<previous, warned, klipper, clipboard, copied, pasted, disturbed>>

\* kde_clipboard_restore_delay is long enough unless the application is slow.
Restore(p) ==
    /\ stage[p] = "settling" /\ (pasting[p] => "slow" \in Faults)
    /\ AskKlipper(p, "restoring")
    /\ disturbed' = (disturbed \/ pasting[p])
    /\ UNCHANGED <<pasteVars, desktopVars>>

\* The clipboard lock is returned; the text is typed under the input lock.
TypeInstead(p) ==
    /\ stage[p] = "typing"
    /\ Enter(p, "done")
    /\ sent' \in {sent, [sent EXCEPT ![p] = @ + 1]}
    /\ UNCHANGED <<previous, warned, klipper, desktopVars, disturbed>>

\* The host closes stdin or signals the server: the runtime drops the task.
ServerExits(s) ==
    /\ "exit" \in Faults
    /\ \E p \in Pastes : ServerOf[p] = s /\ ~PasteOver(p)
    /\ stage' = [p \in Pastes |-> IF ServerOf[p] = s THEN "done" ELSE stage[p]]
    /\ disturbed' = TRUE
    /\ UNCHANGED <<pasteVars, klipper, desktopVars>>

-----------------------------------------------------------------------------
(* The desktop.                                                            *)

KlipperServes ==
    /\ klipper # <<>>
    /\ klipper' = Tail(klipper)
    /\ LET m == Head(klipper)
           awaited == stage[m.by] = m.step
       IN  /\ clipboard' = IF m.step = "reading" THEN clipboard ELSE Value(m)
           /\ stage' = [stage EXCEPT ![m.by] = IF awaited THEN OnAnswer(m.step) ELSE @]
           /\ previous' = [previous EXCEPT ![m.by] =
                              IF awaited /\ m.step = "reading" THEN clipboard ELSE @]
    /\ UNCHANGED <<sent, warned, copied, pasting, pasted, disturbed>>

KlipperRefuses ==
    /\ "refused" \in Faults /\ klipper # <<>>
    /\ klipper' = Tail(klipper)
    /\ LET m == Head(klipper) IN
          IF stage[m.by] = m.step
          THEN Enter(m.by, OnFailure(m.step)) /\ Warns(m.by)
          ELSE UNCHANGED <<stage, warned>>
    /\ UNCHANGED <<previous, sent, desktopVars, disturbed>>

ApplicationReads(p) ==
    /\ pasting[p]
    /\ pasting' = [pasting EXCEPT ![p] = FALSE]
    /\ pasted' = [pasted EXCEPT ![p] = clipboard]
    /\ UNCHANGED <<stage, pasteVars, klipper, clipboard, copied, disturbed>>

UserCopies ==
    /\ copied < MaxCopies
    /\ "copy" \in Faults \/ \A p \in Pastes : PasteOver(p)
    /\ copied' = copied + 1 /\ clipboard' = copied + 1
    /\ disturbed' = (disturbed \/ \E p \in Pastes : ~PasteOver(p))
    /\ UNCHANGED <<stage, pasteVars, klipper, pasting, pasted>>

-----------------------------------------------------------------------------
PasteStep(p) ==
    CallTimesOut(p) \/ SetText(p) \/ Undo(p) \/ Chord(p) \/ Restore(p) \/ TypeInstead(p) \/ ApplicationReads(p)

ClipNext ==
    \/ \E p \in Pastes : BeginPaste(p) \/ PasteStep(p)
    \/ \E p \in Pastes : ServerExits(ServerOf[p])
    \/ KlipperServes \/ KlipperRefuses \/ UserCopies

ClipSpec == ClipInit /\ [][ClipNext]_clipVars

\* Every wait of a paste has a limit: the calls to Klipper, the chord, the delay.
ClipFairness == \A p \in Pastes : WF_clipVars(PasteStep(p))

-----------------------------------------------------------------------------
\* A text is sent once at most, by the chord or by ydotool, whatever times out, and the
\* application that pastes for a call gets that call's text, not what the user or an
\* earlier call had on the clipboard and not what a late write left there, unless the
\* application is slower than the delay, the user copies meanwhile, two servers paste
\* at once or one exits (replace_kde_clipboard, can_fallback_to_ydotool).
PastesItsText ==
    \A p \in Pastes : sent[p] <= 1 /\ (pasted[p] \in {NoText, p} \/ disturbed)

\* Unless that happened the user's clipboard comes back, or a call is told that it could
\* not be put back: a paste never stays on the clipboard for good.
ClipboardComesBack ==
    clipboard \in Pastes => <>(clipboard = copied \/ disturbed \/ \E p \in Pastes : warned[p])

\* The right text is pasted once, and the clipboard is as it was.
PastesAndRestores == [](PastesItsText /\ ClipboardComesBack)
=============================================================================
