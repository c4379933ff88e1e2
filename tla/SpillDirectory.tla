--------------------------- MODULE SpillDirectory ---------------------------
(***************************************************************************)
(* The directory of spilled trees (tree_spill.rs), which the servers of a  *)
(* user share.  A file is named for its server, by pid and start time, and *)
(* for its place in the server's sequence.  SnapshotCache says when a      *)
(* server spills and removes; here any server may do either at any time,   *)
(* be killed, and have its pid taken by the next.                          *)
(***************************************************************************)
EXTENDS Naturals

CONSTANTS
    Servers,   \* each stands for the start time of one process
    Pids,
    NoPid,     \* a server that does not run
    MaxSpills  \* bound on the files a server writes

ASSUME SpillAssumption == NoPid \notin Pids /\ MaxSpills \in Nat

VARIABLES
    pid,      \* pid of each server while it runs
    started,  \* servers that have been started
    spills,   \* files: owner's start time and pid, place in the sequence
    aged,     \* those of them that are more than an hour old
    current,  \* TreeSpiller::current, 0 for none
    sequence, \* TreeSpiller::sequence
    writing   \* servers in the middle of a file

spillVars == <<pid, started, spills, aged, current, sequence, writing>>

Spill(s, n) == [start |-> s, pid |-> pid[s], seq |-> n]

SpillInit ==
    /\ pid = [s \in Servers |-> NoPid]
    /\ started = {}
    /\ spills = {} /\ aged = {}
    /\ current = [s \in Servers |-> 0]
    /\ sequence = [s \in Servers |-> 0]
    /\ writing = {}

Running(s) == pid[s] # NoPid

\* Mutant: a pid that runs is enough.
AliveByPid(f, s, pids) == \E t \in Servers : pids[t] = f.pid

\* process_start: the pid runs, and since the time in the name.
Alive(f, s, pids) == f.start = s \/ pids[f.start] = f.pid

\* What sweep leaves, run by s.
Swept(s, pids) == {f \in spills : f \notin aged /\ Alive(f, s, pids)}

Keep(files) == spills' = files /\ aged' = aged \cap files

\* Server start: the leftovers of others are swept.
StartServer(s) ==
    /\ s \notin started
    /\ \E p \in Pids \ {pid[t] : t \in Servers} : pid' = [pid EXCEPT ![s] = p]
    /\ started' = started \cup {s}
    /\ Keep(Swept(s, pid'))
    /\ UNCHANGED <<current, sequence, writing>>

\* write: sweep, then create the next file of the sequence.
BeginSpill(s) ==
    /\ Running(s) /\ s \notin writing
    /\ sequence[s] < MaxSpills
    /\ sequence' = [sequence EXCEPT ![s] = @ + 1]
    /\ Keep(Swept(s, pid) \cup {Spill(s, sequence[s] + 1)})
    /\ writing' = writing \cup {s}
    /\ UNCHANGED <<pid, started, current>>

\* The file is whole and replaces the one before it.
EndSpill(s) ==
    /\ s \in writing
    /\ current' = [current EXCEPT ![s] = sequence[s]]
    /\ Keep(spills \ {Spill(s, current[s])})
    /\ writing' = writing \ {s}
    /\ UNCHANGED <<pid, started, sequence>>

\* A write fails: the directory keeps the file before it.
SpillFails(s) ==
    /\ s \in writing
    /\ Keep(spills \ {Spill(s, sequence[s])})
    /\ writing' = writing \ {s}
    /\ UNCHANGED <<pid, started, current, sequence>>

\* remove_current
RemoveCurrent(s) ==
    /\ Running(s) /\ s \notin writing /\ current[s] # 0
    /\ Keep(spills \ {Spill(s, current[s])})
    /\ current' = [current EXCEPT ![s] = 0]
    /\ UNCHANGED <<pid, started, sequence, writing>>

\* stdin is closed, SIGTERM or SIGINT: the file goes with the server.
Exit(s) ==
    /\ Running(s) /\ s \notin writing
    /\ Keep(spills \ {Spill(s, current[s])})
    /\ current' = [current EXCEPT ![s] = 0]
    /\ pid' = [pid EXCEPT ![s] = NoPid]
    /\ UNCHANGED <<started, sequence, writing>>

\* SIGKILL, a crash or a power cut.
Kill(s) ==
    /\ Running(s)
    /\ pid' = [pid EXCEPT ![s] = NoPid]
    /\ writing' = writing \ {s}
    /\ UNCHANGED <<started, spills, aged, current, sequence>>

HourPasses ==
    /\ aged' = spills
    /\ UNCHANGED <<pid, started, spills, current, sequence, writing>>

SpillNext ==
    \/ \E s \in Servers :
        StartServer(s) \/ BeginSpill(s) \/ EndSpill(s) \/ SpillFails(s) \/ RemoveCurrent(s)
          \/ Exit(s) \/ Kill(s)
    \/ HourPasses

SpillSpec == SpillInit /\ [][SpillNext]_spillVars

\* Servers share the directory without losing each other's trees: the file a running
\* server names to its host stays until that server replaces or removes it, or it is an
\* hour old.  And what killed servers left goes as soon as anyone spills, also when their
\* pids run again.
SweepIsExact ==
    [][/\ \A s \in Servers :
            Running(s) /\ current[s] # 0 /\ Spill(s, current[s]) \in spills \ (spills' \cup aged)
              => current'[s] # current[s]
       /\ sequence' # sequence => \A f \in spills' : pid'[f.start] = f.pid]_spillVars
=============================================================================
