--------------------------- MODULE DiagnosticsCache ---------------------------
(***************************************************************************)
(* The cache of the desktop diagnostics report (diagnostics_cache.rs) with *)
(* the callers it serves: get_app_state reads it, setup tools and failed   *)
(* actions invalidate it.                                                  *)
(*                                                                         *)
(* A report is abstracted to the version of the desktop it describes and   *)
(* the time it was read.  The probe runs on a blocking thread while other  *)
(* calls run, so an invalidation can fall between any two of its steps.    *)
(***************************************************************************)
EXTENDS Integers, Sequences

CONSTANTS
    Callers,      \* slots of concurrent report_and_probed calls
    TTL,          \* DIAGNOSTICS_TTL
    MaxClock,     \* bound on the monotonic clock
    MaxVersion,   \* bound on changes of the desktop
    MaxGeneration,\* bound on invalidations
    None

ASSUME DiagnosticsAssumption ==
    /\ TTL \in Nat \ {0}
    /\ MaxClock \in Nat /\ MaxVersion \in Nat /\ MaxGeneration \in Nat
    /\ None \notin Callers

VARIABLES
    clock,       \* Instant::now()
    version,     \* counts the changes of the desktop the probes can see
    settled,     \* version when the last setup tool returned
    setup,       \* whether a setup tool has changed the desktop and not returned yet
    generation,  \* DiagnosticsCache::generation
    entry,       \* the value inside DiagnosticsCache::entry
    holder,      \* the caller that holds the entry mutex, or None
    waiting,     \* callers waiting for it, first come first served
    pc,          \* state of each call
    refresh,     \* its argument
    floor,       \* settled when the call was made
    seen,        \* the generation and the time it read under the mutex
    reading,     \* what its probe has read of the desktop, if anything yet
    answer       \* what it returned

mutexVars == <<holder, waiting>>
callVars  == <<pc, refresh, floor, seen, reading, answer>>
worldVars == <<clock, version, settled, setup>>
vars == <<worldVars, generation, entry, mutexVars, callVars>>

Reports == [version : Nat, readAt : Nat]
Entries == [report : Reports, generation : Nat, computedAt : Nat]
NoReport == [version |-> 0, readAt |-> 0]
NotSeen  == [generation |-> 0, now |-> 0]
NoAnswer == [report |-> NoReport, probed |-> FALSE, at |-> 0]

\* Types; generations and versions never go below zero.
TypeOK ==
    /\ clock \in Nat /\ version \in Nat /\ settled \in Nat
    /\ setup \in BOOLEAN
    /\ generation \in Nat
    /\ entry \in Entries \cup {None}
    /\ holder \in Callers \cup {None}
    /\ waiting \in Seq(Callers)
    /\ pc \in [Callers -> {"idle", "waiting", "probing", "read", "returned"}]
    /\ refresh \in [Callers -> BOOLEAN]
    /\ floor \in [Callers -> Nat]
    /\ seen \in [Callers -> [generation : Nat, now : Nat]]
    /\ reading \in [Callers -> Reports]
    /\ answer \in [Callers -> [report : Reports, probed : BOOLEAN, at : Nat]]

Init ==
    /\ clock = 0 /\ version = 0 /\ settled = 0 /\ setup = FALSE
    /\ generation = 0
    /\ entry = None
    /\ holder = None /\ waiting = <<>>
    /\ pc = [c \in Callers |-> "idle"]
    /\ refresh = [c \in Callers |-> FALSE]
    /\ floor = [c \in Callers |-> 0]
    /\ seen = [c \in Callers |-> NotSeen]
    /\ reading = [c \in Callers |-> NoReport]
    /\ answer = [c \in Callers |-> NoAnswer]

-----------------------------------------------------------------------------
(* report_and_probed.                                                      *)

Call(c) ==
    /\ pc[c] = "idle"
    /\ pc' = [pc EXCEPT ![c] = "waiting"]
    /\ waiting' = Append(waiting, c)
    /\ \E r \in BOOLEAN : refresh' = [refresh EXCEPT ![c] = r]
    /\ floor' = [floor EXCEPT ![c] = settled]
    /\ UNCHANGED <<worldVars, generation, entry, holder, seen, reading, answer>>

\* Entry::is_fresh
IsFresh(e, gen, now) == e.generation = gen /\ now - e.computedAt < TTL

Hit(c) == ~refresh[c] /\ entry # None /\ IsFresh(entry, generation, clock)

\* entry.lock().await: a fair mutex.  What follows up to the next await is one step.
Lock(c) ==
    /\ pc[c] = "waiting" /\ holder = None
    /\ waiting # <<>> /\ Head(waiting) = c
    /\ waiting' = Tail(waiting)

ReturnCached(c) ==
    /\ Lock(c) /\ Hit(c)
    /\ answer' = [answer EXCEPT ![c] =
                    [report |-> entry.report, probed |-> FALSE, at |-> clock]]
    /\ pc' = [pc EXCEPT ![c] = "returned"]
    /\ UNCHANGED <<worldVars, generation, entry, holder, refresh, floor, seen, reading>>

\* The mutex stays locked across the probe, so that callers share one run.
StartProbe(c) ==
    /\ Lock(c) /\ ~Hit(c)
    /\ holder' = c
    /\ seen' = [seen EXCEPT ![c] = [generation |-> generation, now |-> clock]]
    /\ pc' = [pc EXCEPT ![c] = "probing"]
    /\ UNCHANGED <<worldVars, generation, entry, refresh, floor, reading, answer>>

\* doctor_report, on a blocking thread: it reads the desktop at some moment of its run.
ProbeReads(c) ==
    /\ pc[c] = "probing"
    /\ reading' = [reading EXCEPT ![c] = [version |-> version, readAt |-> clock]]
    /\ pc' = [pc EXCEPT ![c] = "read"]
    /\ UNCHANGED <<worldVars, generation, entry, mutexVars, refresh, floor, seen, answer>>

\* Mutant: the generation is read after the probe.
EntryOfNow(c) == [report     |-> reading[c],
                  generation |-> generation,
                  computedAt |-> seen[c].now]

\* Mutant: the entry's age is counted from the end of the probe.
EntryAgedFromNow(c) == [report     |-> reading[c],
                        generation |-> seen[c].generation,
                        computedAt |-> clock]

\* The entry carries the generation and the time from before the probe.
NewEntry(c) == [report     |-> reading[c],
                generation |-> seen[c].generation,
                computedAt |-> seen[c].now]

StoreReport(c) ==
    /\ pc[c] = "read"
    /\ entry' = NewEntry(c)
    /\ answer' = [answer EXCEPT ![c] =
                    [report |-> reading[c], probed |-> TRUE, at |-> seen[c].now]]
    /\ pc' = [pc EXCEPT ![c] = "returned"]
    /\ holder' = None
    /\ UNCHANGED <<worldVars, generation, waiting, refresh, floor, seen, reading>>

\* The call is over and its future is gone.
Gone(c) ==
    /\ pc' = [pc EXCEPT ![c] = "idle"]
    /\ refresh' = [refresh EXCEPT ![c] = FALSE]
    /\ floor' = [floor EXCEPT ![c] = 0]
    /\ seen' = [seen EXCEPT ![c] = NotSeen]
    /\ reading' = [reading EXCEPT ![c] = NoReport]
    /\ answer' = [answer EXCEPT ![c] = NoAnswer]

Forget(c) ==
    /\ pc[c] = "returned"
    /\ Gone(c)
    /\ UNCHANGED <<worldVars, generation, entry, mutexVars>>

\* The client cancels the call while it waits for the mutex ...
CancelWaiting(c) ==
    /\ pc[c] = "waiting"
    /\ \E i \in DOMAIN waiting :
          /\ waiting[i] = c
          /\ waiting' = SubSeq(waiting, 1, i - 1) \o SubSeq(waiting, i + 1, Len(waiting))
    /\ Gone(c)
    /\ UNCHANGED <<worldVars, generation, entry, holder>>

\* ... or while its probe runs: the probe goes on, but nobody stores what it finds.
CancelProbing(c) ==
    /\ pc[c] \in {"probing", "read"}
    /\ holder' = None
    /\ Gone(c)
    /\ UNCHANGED <<worldVars, generation, entry, waiting>>

-----------------------------------------------------------------------------
(* The other callers, and the desktop.                                     *)

\* Mutant: invalidation counts down.
InvalidateDown ==
    /\ generation < MaxGeneration
    /\ generation' = generation - 1
    /\ UNCHANGED <<worldVars, entry, mutexVars, callVars>>

\* A failed list_apps, list_windows or focused_window, or an observation that
\* contradicts the report.
Invalidate ==
    /\ generation < MaxGeneration
    /\ generation' = generation + 1
    /\ UNCHANGED <<worldVars, entry, mutexVars, callVars>>

\* setup_accessibility and setup_window_targeting change the desktop, which takes a
\* while, and invalidate before they return.
SetupChanges ==
    /\ version < MaxVersion
    /\ setup' = TRUE
    /\ version' = version + 1
    /\ UNCHANGED <<clock, settled, generation, entry, mutexVars, callVars>>

SetupReturns ==
    /\ setup
    /\ setup' = FALSE
    /\ settled' = version
    /\ generation' = generation + 1
    /\ UNCHANGED <<clock, version, entry, mutexVars, callVars>>

\* A person changes the desktop.
DesktopChanges ==
    /\ version < MaxVersion
    /\ version' = version + 1
    /\ UNCHANGED <<clock, settled, setup, generation, entry, mutexVars, callVars>>

Tick ==
    /\ clock < MaxClock
    /\ clock' = clock + 1
    /\ UNCHANGED <<version, settled, setup, generation, entry, mutexVars, callVars>>

-----------------------------------------------------------------------------
Serve(c) ==
    ReturnCached(c) \/ StartProbe(c) \/ ProbeReads(c) \/ StoreReport(c)

Next ==
    \/ \E c \in Callers :
          Call(c) \/ Serve(c) \/ Forget(c) \/ CancelWaiting(c) \/ CancelProbing(c)
    \/ Invalidate \/ SetupChanges \/ SetupReturns \/ DesktopChanges \/ Tick

Spec == Init /\ [][Next]_vars

-----------------------------------------------------------------------------
\* A call made after a setup tool returned never answers with a report read before
\* the setup, whoever was probing when the setup ran and whoever stored what it found.
SetupIsVisible ==
    \A c \in Callers : pc[c] = "returned" => answer[c].report.version >= floor[c]

\* A reused report is never older than the TTL when it is handed out, counted from
\* the moment the desktop was read and not from the moment the probe finished.
ReuseWithinTTL ==
    \A c \in Callers :
        pc[c] = "returned" /\ ~answer[c].probed
            => answer[c].at - answer[c].report.readAt < TTL

\* What a call is told of the desktop is neither from before a setup nor past its time.
ReportIsCurrent == SetupIsVisible /\ ReuseWithinTTL
=============================================================================
