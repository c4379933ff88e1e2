--------------------------- MODULE ExclusiveInput ---------------------------
(***************************************************************************)
(* What the input operation lock promises to the desktop: tool calls own   *)
(* the pointer and the keyboard one at a time, and hand them on with       *)
(* nothing pressed.                                                        *)
(***************************************************************************)
CONSTANTS Calls,     \* the tool calls
          Controls,  \* buttons and keys
          None       \* nobody

VARIABLES owner,     \* the call that owns pointer and keyboard, or None
          down       \* the controls that are pressed

Init == owner = None /\ down = {}

Begin(c) ==
    /\ owner = None /\ down = {}
    /\ owner' = c
    /\ UNCHANGED down

Act(c) ==
    /\ owner = c
    /\ down' \in SUBSET Controls
    /\ UNCHANGED owner

\* Releasing the last control and giving the ownership up may be one step.
End(c) ==
    /\ owner = c
    /\ owner' = None
    /\ down' = {}

Next == \E c \in Calls : Begin(c) \/ Act(c) \/ End(c)

Spec == Init /\ [][Next]_<<owner, down>>
=============================================================================
