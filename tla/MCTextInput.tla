------------------------------ MODULE MCTextInput ------------------------------
(***************************************************************************)
(* Instances for TLC of the two ways text is sent that wait for another    *)
(* party: the libei sender, with a keyboard session's devices, one with    *)
(* both of its interfaces and one with a single interface; and the paste   *)
(* on Plasma.  They share nothing, so a behaviour is that of one of them   *)
(* while the other rests in its initial state.                             *)
(***************************************************************************)
EXTENDS EisInput, KdeClipboard

CONSTANTS e1, e2, e3, d1, d2, p1, p2, p3

VARIABLE part  \* what a behaviour is about

\* The keysyms of e1 and e3 need the text interface, the keycode of e2 the other.
TwoReach == [e \in Events |-> Devices \cap (IF e = e2 THEN {d1, d2} ELSE {d1})]
TwoNeeded == {{d1}, Devices}

\* The second paste of a server, or one of another.
TwoServers == [p \in Pastes |-> IF p = p3 THEN "second" ELSE "first"]

textVars == <<part, vars, clipVars>>
TextInit == part \in {"eis", "turns", "apart"} /\ Init /\ ClipInit
TextNext ==
    /\ part' = part
    /\ \/ part = "eis" /\ Next /\ UNCHANGED clipVars
       \/ part = "turns" /\ ClipNext /\ stage'[p3] = "idle" /\ UNCHANGED vars
       \/ part = "apart" /\ ClipNext /\ stage'[p2] = "idle" /\ UNCHANGED vars
TextSpec ==
    /\ TextInit /\ [][TextNext]_textVars
    /\ WF_vars(part = "eis" /\ WorkerStep)
    /\ ClipFairness
=============================================================================
