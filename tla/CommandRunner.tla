---------------------------- MODULE CommandRunner ----------------------------
(***************************************************************************)
(* Programs the server runs (command_runner.rs): hyprctl, gdbus, wtype,    *)
(* xdotool, ydotool, the shell of run_shell and others.  Each leads a      *)
(* process group of its own, in which it may start helpers that go on      *)
(* after it.  A run ends with the output, or the whole group is killed: at *)
(* a time limit, a failure, or when its call is dropped.  The kernel may   *)
(* give the number of a group to another program once its leader has been  *)
(* waited for and its helpers are gone.                                    *)
(***************************************************************************)
EXTENDS Naturals

CONSTANTS
    Runs,
    Blocking,    \* those that hold a thread and cannot be dropped
    MaxBusy      \* TEXT_FILE_BUSY_RETRIES

ASSUME RunnerAssumption == Blocking \subseteq Runs /\ MaxBusy \in Nat

VARIABLES
    run,      \* each run: the step of its supervisor, and what the caller has been told
    leader,   \* the program: "none", "running", "exited" or "reaped"
    helper,   \* whether it has started a program that still runs
    pipes,    \* which of the two hold its output open
    reused,   \* the group's number belongs to someone else
    harmed    \* someone else was killed

runnerVars == <<run, leader, helper, pipes, reused, harmed>>
programVars == <<leader, helper, pipes, reused, harmed>>

RunnerInit ==
    /\ run = [r \in Runs |-> [at |-> "idle", busy |-> 0, told |-> "nothing"]]
    /\ leader = [r \in Runs |-> "none"]
    /\ helper = [r \in Runs |-> FALSE]
    /\ pipes = [r \in Runs |-> {}]
    /\ reused = [r \in Runs |-> FALSE]
    /\ harmed = FALSE

(***************************************************************************)
(* The program and the kernel.                                             *)
(***************************************************************************)

StartHelper(r) ==
    /\ leader[r] = "running"
    /\ helper' = [helper EXCEPT ![r] = TRUE]
    /\ \E holds \in SUBSET {"helper"} :
        pipes' = [pipes EXCEPT ![r] = (@ \ {"helper"}) \cup (IF "leader" \in @ THEN holds ELSE {})]
    /\ UNCHANGED <<run, leader, reused, harmed>>

CloseOutput(r) ==
    /\ \E p \in pipes[r] : pipes' = [pipes EXCEPT ![r] = @ \ {p}]
    /\ UNCHANGED <<run, leader, helper, reused, harmed>>

LeaderExits(r) ==
    /\ leader[r] = "running"
    /\ leader' = [leader EXCEPT ![r] = "exited"]
    /\ pipes' = [pipes EXCEPT ![r] = @ \ {"leader"}]
    /\ UNCHANGED <<run, helper, reused, harmed>>

HelperExits(r) ==
    /\ helper[r]
    /\ helper' = [helper EXCEPT ![r] = FALSE]
    /\ pipes' = [pipes EXCEPT ![r] = @ \ {"helper"}]
    /\ UNCHANGED <<run, leader, reused, harmed>>

\* A process that has been waited for leaves its number free, as does a group without
\* processes.
ReuseNumber(r) ==
    /\ leader[r] = "reaped" /\ ~helper[r]
    /\ reused' = [reused EXCEPT ![r] = TRUE]
    /\ UNCHANGED <<run, leader, helper, pipes, harmed>>

(***************************************************************************)
(* The supervisor.                                                         *)
(***************************************************************************)

Over == {"finished", "ended"}
AtStep(r, at) == run[r].at = at
Moves(r, at) == run' = [run EXCEPT ![r].at = at]
Tells(r, at, what) ==
    run' = [run EXCEPT ![r].at = at,
                       ![r].told = IF @ = "dropped" THEN @ ELSE what]

\* kill(-pgid, SIGKILL)
KillGroup(r) ==
    /\ leader' = [leader EXCEPT ![r] = IF @ = "running" THEN "exited" ELSE @]
    /\ helper' = [helper EXCEPT ![r] = FALSE]
    /\ pipes' = [pipes EXCEPT ![r] = {}]
    /\ harmed' = (harmed \/ reused[r])
    /\ UNCHANGED reused

StartRun(r) == AtStep(r, "idle") /\ Moves(r, "spawning") /\ UNCHANGED programVars

\* process_group(0): the program leads a group of its own.  While its file is being
\* replaced the start is tried again.
Spawn(r) ==
    /\ AtStep(r, "spawning")
    /\ \/ /\ Moves(r, "reading")
          /\ leader' = [leader EXCEPT ![r] = "running"]
          /\ pipes' = [pipes EXCEPT ![r] = {"leader"}]
          /\ UNCHANGED <<helper, reused, harmed>>
       \/ /\ run[r].busy < MaxBusy
          /\ run' = [run EXCEPT ![r].busy = @ + 1]
          /\ UNCHANGED programVars
       \/ Tells(r, "ended", "unstarted") /\ UNCHANGED programVars

\* Mutant: the program is waited for while its output is read.
ReadToEndExited(r) ==
    /\ AtStep(r, "reading") /\ leader[r] = "exited"
    /\ leader' = [leader EXCEPT ![r] = "reaped"]
    /\ UNCHANGED <<run, helper, pipes, reused, harmed>>

\* The input is written and both outputs are read until nobody holds them open: only
\* then is the program waited for, so that the number of its group stays its own.
ReadToEnd(r) ==
    /\ AtStep(r, "reading") /\ pipes[r] = {}
    /\ Moves(r, "waiting")
    /\ UNCHANGED programVars

WaitForExit(r) ==
    /\ AtStep(r, "waiting") /\ leader[r] = "exited"
    /\ leader' = [leader EXCEPT ![r] = "reaped"]
    /\ Tells(r, "finished", "output")
    /\ UNCHANGED <<helper, pipes, reused, harmed>>

\* Mutant: the time limit is for the output only.
GiveUpReading(r) ==
    /\ AtStep(r, "reading")
    /\ Moves(r, "killing")
    /\ UNCHANGED programVars

\* The time limit, too much output, a failed read or write.
GiveUpRun(r) ==
    /\ run[r].at \in {"reading", "waiting"}
    /\ Moves(r, "killing")
    /\ UNCHANGED programVars

\* The future is dropped.  CancelOnDrop tells the supervisor, a task of its own.
DropRun(r) ==
    /\ r \notin Blocking /\ run[r].told = "nothing" /\ run[r].at \notin {"idle"} \cup Over
    /\ run' = [run EXCEPT ![r].told = "dropped", ![r].at = IF @ = "spawning" THEN "ended" ELSE @]
    /\ UNCHANGED programVars

HearDrop(r) ==
    /\ run[r].told = "dropped" /\ run[r].at \in {"reading", "waiting"}
    /\ Moves(r, "killing")
    /\ UNCHANGED programVars

\* terminate_command, terminate_blocking_process
Terminate(r) ==
    /\ AtStep(r, "killing")
    /\ Moves(r, "reaping")
    /\ KillGroup(r)

\* The process is waited for, a second at most.
Reap(r) ==
    /\ AtStep(r, "reaping")
    /\ leader' \in {[leader EXCEPT ![r] = IF @ = "exited" THEN "reaped" ELSE @], leader}
    /\ Tells(r, "ended", "error")
    /\ UNCHANGED <<helper, pipes, reused, harmed>>

RunnerStep(r) ==
    Spawn(r) \/ ReadToEnd(r) \/ WaitForExit(r) \/ GiveUpRun(r) \/ HearDrop(r) \/ Terminate(r)
      \/ Reap(r)

RunnerNext ==
    \E r \in Runs :
        \/ StartHelper(r) \/ CloseOutput(r) \/ LeaderExits(r) \/ HelperExits(r)
        \/ ReuseNumber(r) \/ StartRun(r) \/ RunnerStep(r) \/ DropRun(r)

\* Tasks and threads run, and time passes; programs need not do anything.
RunnerFairness == \A r \in Runs : WF_runnerVars(RunnerStep(r))
RunnerSpec == RunnerInit /\ [][RunnerNext]_runnerVars
RunnerFairSpec == RunnerSpec /\ RunnerFairness

(***************************************************************************)
(* Properties                                                              *)
(***************************************************************************)

\* No signal reaches a group that has taken the number of a run's group, and a run that
\* ends without its output leaves nothing of its group running: neither a helper the
\* program started nor, after a dropped call, a chord half typed.
KillsItsOwn ==
    /\ ~harmed
    /\ \A r \in Runs :
        AtStep(r, "ended") => ~helper[r] /\ leader[r] # "running"

\* Every run ends, whatever its program does: also when it never exits, or left a helper
\* with its output open.
CommandEnds == \A r \in Runs : AtStep(r, "spawning") => <>(run[r].at \in Over)

\* A run ends, with all that is its own and nothing else.
RunEndsWhole == [](KillsItsOwn /\ CommandEnds)
=============================================================================
