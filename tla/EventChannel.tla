------------------------------ MODULE EventChannel ------------------------------
(***************************************************************************)
(* What a channel for input events promises to the operation that sends on *)
(* it.  One event is asked for at a time.  Only an event that somebody     *)
(* waits for is taken, only the event that was taken is sent, and an       *)
(* answer says what happened: "ok" is a sent event, "refused" one that was *)
(* not and will not be, "unknown" either.                                  *)
(***************************************************************************)
CONSTANTS Events, None

VARIABLES asked, taken, sent, answer

Answers == {"ok", "refused", "unknown"}

Init ==
    /\ asked = None /\ taken = None /\ sent = {}
    /\ answer = [e \in Events |-> "none"]

Ask(e) ==
    /\ asked = None /\ answer[e] = "none"
    /\ asked' = e
    /\ UNCHANGED <<taken, sent, answer>>

Take ==
    /\ taken = None /\ asked # None /\ asked \notin sent
    /\ taken' = asked
    /\ UNCHANGED <<asked, sent, answer>>

Emit ==
    /\ taken # None /\ taken \notin sent
    /\ sent' = sent \cup {taken}
    /\ UNCHANGED <<asked, taken, answer>>

Drop ==
    /\ taken' = None
    /\ UNCHANGED <<asked, sent, answer>>

\* An event that is given up may still be in the channel's hand: its answer is "unknown".
Answer(a) ==
    /\ asked # None
    /\ taken' \in {taken, None}
    /\ a = "ok" => asked \in sent
    /\ a = "refused" => asked \notin sent /\ taken' # asked
    /\ answer' = [answer EXCEPT ![asked] = a]
    /\ asked' = None
    /\ UNCHANGED sent

Next ==
    \/ \E e \in Events : Ask(e)
    \/ Take \/ Emit \/ Drop
    \/ \E a \in Answers : Answer(a)

Spec == Init /\ [][Next]_<<asked, taken, sent, answer>>
=============================================================================
