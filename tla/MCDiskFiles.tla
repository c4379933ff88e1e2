----------------------------- MODULE MCDiskFiles -----------------------------
(***************************************************************************)
(* Instances for TLC of what the program keeps on disk: restore tokens,    *)
(* screenshots and spilled trees.  They share no file, so a behaviour is   *)
(* that of one of them while the others rest in their initial states.      *)
(***************************************************************************)
EXTENDS RestoreToken, ScreenFiles, SpillDirectory

CONSTANTS a, b, pic, doc, i1, i2

VARIABLE part  \* the store a behaviour is about

\* The ladder of a desktop, and one that asks no portal.
Ladders == [c \in Captures |->
    IF c = a THEN <<"shell", "snapshot", "x11", "cli">> ELSE <<"cli">>]

diskVars == <<part, vars, screenVars, spillVars>>
DiskInit ==
    /\ part \in {"token", "screenshot", "spill"}
    /\ Init /\ ScreenInit /\ SpillInit
    /\ part # "screenshot" => \A p \in Paths : files[p] = NoFile
DiskNext ==
    /\ part' = part
    /\ \/ part = "token" /\ Next /\ UNCHANGED <<screenVars, spillVars>>
       \/ part = "screenshot" /\ ScreenNext /\ UNCHANGED <<vars, spillVars>>
       \/ part = "spill" /\ SpillNext /\ UNCHANGED <<vars, screenVars>>
DiskSpec == DiskInit /\ [][DiskNext]_diskVars /\ ScreenFairness
=============================================================================
