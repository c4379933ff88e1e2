---------------------------- MODULE HyprlandKeys ----------------------------
(***************************************************************************)
(* Background keys on Hyprland (backends/hyprland.rs, hyprland_input.rs).  *)
(* Each press is a down and an up event; a request to the compositor's     *)
(* socket carries the events of a chunk of presses, in order, and is       *)
(* answered with one word for each.  A request may be cut short, refused   *)
(* in part or answered too late, and a key that stays down repeats.        *)
(***************************************************************************)
EXTENDS Naturals, Sequences, FiniteSets

CONSTANTS
    KeyPresses,      \* the presses a text or a chord is made of
    Texts,           \* sequences of presses
    Unmapped,        \* presses with no key on the unshifted level of a US layout
    PressesPerBatch

ASSUME HyprAssumption ==
    /\ Unmapped \subseteq KeyPresses
    /\ Texts \subseteq Seq(KeyPresses) \ {<<>>}
    /\ PressesPerBatch \in Nat \ {0}

VARIABLES
    presses,   \* what is to be sent
    sending,   \* how far the call is, and in the end what it answered
    requests,  \* requests the compositor has not handled, in the order of connection
    heard,     \* the reply, if it has come: for each event whether the answer is "ok"
    open,      \* the target window is there
    held,      \* keys that are down in it
    typed      \* presses the window has seen

hyprVars == <<presses, sending, requests, heard, open, held, typed>>

NoReply == <<>>

HyprInit ==
    /\ presses \in Texts
    /\ sending = [at |-> "map", delivered |-> 0, more |-> 0, release |-> {}, said |-> FALSE]
    /\ requests = <<>>
    /\ heard = NoReply
    /\ open = TRUE
    /\ held = {}
    /\ typed = 0

(***************************************************************************)
(* The compositor.                                                         *)
(***************************************************************************)

\* The keys that are down after the events of which ok tells those that took effect.
After(events, ok, before) ==
    {k \in KeyPresses :
        LET of == {i \in DOMAIN events : ok[i] /\ events[i].key = k}
        IN IF of = {} THEN k \in before
           ELSE \E i \in of : events[i].state = "down" /\ \A j \in of : j <= i}

\* A request is handled, whole or in part, and answered, whole or in part, if the call
\* still waits.
Handle ==
    /\ requests # <<>>
    /\ requests' = Tail(requests)
    /\ LET events == Head(requests).events
       IN \E ok \in [DOMAIN events -> BOOLEAN] :
            /\ open \/ \A i \in DOMAIN ok : ~ok[i]
            /\ held' = After(events, ok, held)
            /\ typed' = typed + Cardinality({i \in DOMAIN ok : ok[i] /\ events[i].state = "down"})
            /\ IF Len(requests) = 1 /\ sending.at = Head(requests).for
               THEN \E n \in 0..Len(events) : heard' = <<SubSeq(ok, 1, n)>>
               ELSE UNCHANGED heard
    /\ UNCHANGED <<presses, sending, open>>

WindowCloses ==
    /\ open
    /\ open' = FALSE
    /\ held' = {}
    /\ UNCHANGED <<presses, sending, requests, heard, typed>>

(***************************************************************************)
(* send_key_events                                                         *)
(***************************************************************************)

Chunk ==
    LET from == sending.delivered
    IN SubSeq(presses, from + 1,
              IF from + PressesPerBatch < Len(presses) THEN from + PressesPerBatch
              ELSE Len(presses))

DownUp(chunk) ==
    [i \in 1..2 * Len(chunk) |->
        [key |-> chunk[(i + 1) \div 2], state |-> IF i % 2 = 1 THEN "down" ELSE "up"]]

Sends(events, at) ==
    /\ requests' = Append(requests, [events |-> events, for |-> at])
    /\ heard' = NoReply
    /\ sending' = [sending EXCEPT !.at = at]

\* text_to_key_presses, chord_to_key_press and the check of the keymap: all of the text
\* is mapped for a US layout, or none of it is sent.
MapPresses ==
    /\ sending.at = "map"
    /\ \/ /\ \A i \in DOMAIN presses : presses[i] \notin Unmapped
          /\ sending' = [sending EXCEPT !.at = "connect"]
       \/ sending' = [sending EXCEPT !.at = "answered"]
    /\ UNCHANGED <<presses, requests, heard, open, held, typed>>

\* The socket is there, or the call ends with what was delivered.
Connect ==
    /\ sending.at = "connect"
    /\ \/ Sends(DownUp(Chunk), "exchange")
       \/ sending' = [sending EXCEPT !.at = "answered"] /\ UNCHANGED <<requests, heard>>
    /\ UNCHANGED <<presses, open, held, typed>>

\* Mutant: only the last press of the chunk is released.
HeldLast(chunk) == {chunk[Len(chunk)]}

\* held_after_batch, when the outcome is not known
HeldAfter(chunk) == {chunk[i] : i \in DOMAIN chunk}

Release(keys, delivered, more) ==
    sending' = [sending EXCEPT !.at = IF keys = {} THEN "answered" ELSE "release",
                    !.delivered = delivered, !.more = more, !.release = keys]

\* No reply: a timeout, or the connection broke.
ExchangeFails ==
    /\ sending.at = "exchange" /\ heard = NoReply
    /\ Release(HeldAfter(Chunk), sending.delivered, Len(Chunk))
    /\ UNCHANGED <<presses, requests, heard, open, held, typed>>

\* The words before the first that is not "ok".
Accepted(reply) ==
    CHOOSE n \in 0..Len(reply) :
        /\ \A i \in 1..n : reply[i]
        /\ n < Len(reply) => ~reply[n + 1]

\* One word for each event, and nothing was done after the first refusal.
Exact(reply) ==
    /\ Len(reply) = 2 * Len(Chunk)
    /\ \A i \in DOMAIN reply : i > Accepted(reply) => ~reply[i]

ReadReply ==
    /\ sending.at = "exchange" /\ heard # NoReply
    /\ LET n == Accepted(heard[1])
           done == sending.delivered + n \div 2
       IN IF ~Exact(heard[1]) THEN Release(HeldAfter(Chunk), sending.delivered, Len(Chunk))
          ELSE IF n < Len(heard[1])
          THEN Release(IF n % 2 = 1 THEN {Chunk[(n + 1) \div 2]} ELSE {}, done, n % 2)
          ELSE sending' = [sending EXCEPT !.delivered = done,
                               !.at = IF done = Len(presses) THEN "answered" ELSE "connect"]
    /\ UNCHANGED <<presses, requests, heard, open, held, typed>>

\* release_held_keys: an up event for each; the answer says when that failed as well.
SendRelease ==
    /\ sending.at = "release"
    /\ \/ \E events \in {e \in [1..Cardinality(sending.release) ->
                                [key : sending.release, state : {"up"}]] :
                          {e[i].key : i \in DOMAIN e} = sending.release} :
            Sends(events, "releasing")
       \/ sending' = [sending EXCEPT !.at = "answered", !.said = TRUE]
          /\ UNCHANGED <<requests, heard>>
    /\ UNCHANGED <<presses, open, held, typed>>

ReleasedAll(reply) == Len(reply) = Cardinality(sending.release) /\ \A i \in DOMAIN reply : reply[i]

ReadRelease ==
    /\ sending.at = "releasing"
    /\ sending' = [sending EXCEPT !.at = "answered",
                       !.said = heard = NoReply \/ ~ReleasedAll(heard[1])]
    /\ UNCHANGED <<presses, requests, heard, open, held, typed>>

HyprNext ==
    \/ Handle \/ WindowCloses
    \/ MapPresses \/ Connect \/ ExchangeFails \/ ReadReply \/ SendRelease \/ ReadRelease

HyprSpec == HyprInit /\ [][HyprNext]_hyprVars

(***************************************************************************)
(* Properties                                                              *)
(***************************************************************************)

\* Once the compositor has handled what it was sent, the answer is true of the target: a
\* key stays down only if it says so, and the presses the window has seen are between
\* those it counts as delivered and those it says may have arrived as well ("says how
\* many did, so the caller does not resend them").
HyprAnswerIsTrue ==
    sending.at = "answered" /\ requests = <<>> =>
        /\ held # {} => sending.said
        /\ typed \in sending.delivered..sending.delivered + sending.more
=============================================================================
