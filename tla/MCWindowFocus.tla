---------------------------- MODULE MCWindowFocus ----------------------------
(* Instances of WindowFocus for TLC. *)
EXTENDS WindowFocus

CONSTANTS c1, c2, w1, w2

\* c1 asks for a window by its id, c2 for an application.
ByIdAndApp == [c \in Callers |->
    IF c = c1 THEN [by |-> "window_id", window |-> w1] ELSE [by |-> "app_id", window |-> w2]]
OneApp == [w \in Windows |-> "app"]
=============================================================================
