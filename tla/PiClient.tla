------------------------------ MODULE PiClient ------------------------------
(***************************************************************************)
(* The Pi extension (pi/extension): a tool call finds the server's binary, *)
(* downloading it on first use, and talks to one server process through an *)
(* MCP client that connects when it is needed and again after the process  *)
(* has ended.  Pi runs the calls one after another, but a cancelled call   *)
(* leaves what it waited for running, and the session may end at any time. *)
(***************************************************************************)
EXTENDS Naturals, FiniteSets

CONSTANTS
    PiCalls,     \* tool calls
    MaxProcs,    \* bound on the server processes
    MaxClients,  \* bound on the clients
    MaxEnds      \* bound on the sessions that end

ASSUME PiAssumption == MaxProcs \in Nat /\ MaxClients \in Nat \ {0} /\ MaxEnds \in Nat

VARIABLES
    binaries,     \* [package, path, fits]: the binaries there are, and whether that on PATH fits
    session,  \* session_shutdowns so far
    launch,   \* [binary, fallback, failed]: which binary, whether for want of a better one
    fetching,  \* a download is under way
    client,   \* the session's client, 0 if none
    conn,     \* of each client: its binary, its process, the connect under way
    proc,     \* of each process: who started it, and how far it is
    pi        \* the calls

piVars == <<binaries, session, launch, fetching, client, conn, proc, pi>>

Clients == 1..MaxClients
Procs == 1..MaxProcs
NoConn == [binary |-> "none", session |-> 0, process |-> 0, connecting |-> 0, closed |-> FALSE]
NoProc == [of |-> 0, at |-> "unused", verdict |-> "pending"]
NoPi == [at |-> "idle", session |-> 0, client |-> 0, process |-> 0, aborted |-> FALSE,
         sent |-> 0, hadPackage |-> FALSE, answer |-> "none"]
NoLaunch == [binary |-> "none", fallback |-> FALSE, failed |-> FALSE]

PiSteps == {"idle", "dropping", "installing", "ensure", "reconnect", "waiting", "request", "done"}

PiTypeOK ==
    /\ binaries \in [package : BOOLEAN, path : BOOLEAN, fits : BOOLEAN, canInstall : BOOLEAN]
    /\ session \in 0..MaxEnds /\ fetching \in BOOLEAN
    /\ launch \in [binary : {"none", "package", "path"}, fallback : BOOLEAN, failed : BOOLEAN]
    /\ client \in 0..MaxClients
    /\ conn \in [Clients -> [binary : {"none", "package", "path"}, session : 0..MaxEnds,
                             process : 0..MaxProcs, connecting : 0..MaxProcs,
                             closed : BOOLEAN]]
    /\ proc \in [Procs -> [of : 0..MaxClients, at : {"unused", "live", "closing", "gone"},
                           verdict : {"pending", "ok", "failed"}]]
    /\ pi \in [PiCalls -> [at : PiSteps, session : 0..MaxEnds, client : 0..MaxClients,
                           process : 0..MaxProcs, aborted : BOOLEAN, sent : 0..2,
                           hadPackage : BOOLEAN,
                           answer : {"none", "ok", "error", "told", "raw"}]]

PiInit ==
    /\ binaries \in [package : BOOLEAN, path : BOOLEAN, fits : BOOLEAN, canInstall : BOOLEAN]
    /\ session = 0 /\ launch = NoLaunch /\ fetching = FALSE
    /\ client = 0
    /\ conn = [c \in Clients |-> NoConn]
    /\ proc = [p \in Procs |-> NoProc]
    /\ pi = [k \in PiCalls |-> NoPi]

SetPi(k, r) == pi' = [pi EXCEPT ![k] = r]
\* A cancelled call has answered already; what it waited for ends without it.
Ends(k, answer) ==
    SetPi(k, [pi[k] EXCEPT !.at = "done", !.answer = IF @ = "none" THEN answer ELSE @])

(***************************************************************************)
(* Closing a client and its process.                                       *)
(***************************************************************************)

\* resetConnection: the client forgets its process, which is then ended.
Reset(cs, ps, c) ==
    LET p == cs[c].process IN
    [conn |-> [cs EXCEPT ![c].process = 0],
     proc |-> IF p # 0 /\ ps[p].at = "live" THEN [ps EXCEPT ![p].at = "closing"] ELSE ps]

\* Mutant: a client that is closed does not remember it.
CloseForgets(c) ==
    IF c = 0 THEN UNCHANGED <<conn, proc>>
    ELSE LET r == Reset(conn, proc, c) IN conn' = r.conn /\ proc' = r.proc

\* close: a connect under way is awaited and finds the client closed.
Close(c) ==
    IF c = 0 THEN UNCHANGED <<conn, proc>>
    ELSE LET r == Reset(conn, proc, c) IN
         conn' = [r.conn EXCEPT ![c].closed = TRUE, ![c].connecting = 0] /\ proc' = r.proc

ClosedWhole(c) == \A p \in Procs : proc[p].of = c => proc[p].at \in {"unused", "gone"}

(***************************************************************************)
(* Which binary: resolveLaunch, getClient.                                 *)
(***************************************************************************)
Local == IF binaries.package THEN "package" ELSE "none"

\* resolveLaunch, once there is nothing to wait for.
Resolved(failed) ==
    LET found == IF Local # "none" THEN Local ELSE IF binaries.path THEN "path" ELSE "none"
    IN [binary |-> found, failed |-> failed, fallback |-> found = "path" /\ failed]

\* Mutant: a call that finds its session over goes on.
GoOnAnyway(k, l) == TRUE

\* getClient goes on in its own session only.
GoOn(k, l) == pi[k].session = session

\* The rest of getClient with what was found: a client that came up meanwhile, or a new one.
Obtain(k, l) ==
    /\ launch' = IF l.binary = "none" THEN [launch EXCEPT !.fallback = l.fallback, !.failed = l.failed]
                 ELSE l
    /\ IF ~GoOn(k, l) \/ (client = 0 /\ l.binary = "none")
       THEN Ends(k, "raw") /\ UNCHANGED <<client, conn>>
       ELSE \E c \in Clients :
            /\ IF client # 0 THEN c = client /\ UNCHANGED <<client, conn>>
               ELSE /\ conn[c].binary = "none" /\ \A d \in Clients : d < c => conn[d].binary # "none"
                    /\ client' = c
                    /\ conn' = [conn EXCEPT ![c].binary = l.binary, ![c].session = pi[k].session]
            /\ IF pi[k].answer # "none" THEN Ends(k, "raw")
               ELSE SetPi(k, [pi[k] EXCEPT !.at = "ensure", !.client = c])

Await(k, at) == SetPi(k, [pi[k] EXCEPT !.at = at])

\* From the look for a client to the first wait.
Seek(k) ==
    IF client # 0
    THEN /\ IF pi[k].answer # "none" THEN Ends(k, "raw")
            ELSE SetPi(k, [pi[k] EXCEPT !.at = "ensure", !.client = client])
         /\ UNCHANGED <<launch, fetching, client, conn>>
    ELSE IF launch.binary = "none" /\ Local = "none" /\ binaries.canInstall
    THEN /\ fetching' = TRUE
         /\ Await(k, "installing")
         /\ UNCHANGED <<launch, client, conn>>
    ELSE /\ Obtain(k, IF launch.binary # "none" THEN launch ELSE Resolved(launch.failed))
         /\ UNCHANGED fetching

\* Pi runs the tools one after the other: executionMode is sequential.
Free(k) == pi[k].at = "idle" /\ \A j \in PiCalls \ {k} : pi[j].at = "idle" \/ pi[j].answer # "none"

\* Mutant: a fallback is kept although the package's binary is there.
StartsKeeping(k) ==
    /\ pi[k].at = "idle" /\ client # 0 /\ Free(k)
    /\ SetPi(k, [NoPi EXCEPT !.at = "ensure", !.session = session, !.client = client,
                             !.hadPackage = binaries.package /\ launch.fallback])
    /\ UNCHANGED <<binaries, session, launch, fetching, client, conn, proc>>

\* The package's binary has appeared since a fallback was chosen: dropClient.
StartsByDropping(k) ==
    /\ Free(k) /\ launch.fallback /\ binaries.package
    /\ client' = 0 /\ launch' = [NoLaunch EXCEPT !.failed = launch.failed]
    /\ Close(client)
    /\ SetPi(k, [NoPi EXCEPT !.at = "dropping", !.session = session, !.client = client,
                             !.hadPackage = TRUE])
    /\ UNCHANGED <<binaries, session, fetching>>

\* The call begins; what it looks for is looked for at its next step.
StartsPi(k) ==
    /\ Free(k) /\ ~(launch.fallback /\ binaries.package)
    /\ SetPi(k, [NoPi EXCEPT !.at = "dropping", !.session = session, !.hadPackage = binaries.package])
    /\ UNCHANGED <<binaries, session, launch, fetching, client, conn, proc>>

Dropped(k) ==
    /\ pi[k].at = "dropping"
    /\ pi[k].client = 0 \/ ClosedWhole(pi[k].client)
    /\ Seek(k)
    /\ UNCHANGED <<binaries, session, proc>>

\* The download is over, for every call that waits for it.
Installed(k) ==
    /\ pi[k].at = "installing" /\ ~fetching
    /\ Obtain(k, Resolved(launch.failed))
    /\ UNCHANGED <<binaries, session, fetching, proc>>

InstallEnds ==
    /\ fetching /\ fetching' = FALSE
    /\ \E ok \in BOOLEAN :
        /\ binaries' = [binaries EXCEPT !.package = @ \/ ok]
        /\ launch' = [launch EXCEPT !.failed = ~ok]
    /\ UNCHANGED <<session, client, conn, proc, pi>>

(***************************************************************************)
(* ComputerUseMcpClient                                                    *)
(***************************************************************************)

\* Mutant: a connect that others wait for is not shared.
ConnectingAlone(c) == 0

\* The connect under way that a caller joins.
Connecting(c) == conn[c].connecting

\* connect spawns the next process, or joins.
JoinConnect(k, c) ==
    IF Connecting(c) # 0
    THEN /\ SetPi(k, [pi[k] EXCEPT !.at = "waiting", !.process = conn[c].connecting])
         /\ UNCHANGED <<conn, proc>>
    ELSE \E p \in Procs :
         /\ proc[p].at = "unused" /\ \A q \in Procs : q < p => proc[q].at # "unused"
         /\ proc' = [proc EXCEPT ![p] = [of |-> c, at |-> "live", verdict |-> "pending"]]
         /\ conn' = [conn EXCEPT ![c].connecting = p]
         /\ SetPi(k, [pi[k] EXCEPT !.at = "waiting", !.process = p])

Send(k, p) == SetPi(k, [pi[k] EXCEPT !.at = "request", !.process = p, !.sent = @ + 1])

\* ensureConnected: a process that has ended is put aside first.
Ensure(k) ==
    LET c == pi[k].client
        p == conn[c].process IN
    /\ pi[k].at = "ensure"
    /\ IF conn[c].closed THEN Ends(k, "raw") /\ UNCHANGED <<conn, proc>>
       ELSE IF p # 0 /\ proc[p].at = "live" THEN Send(k, p) /\ UNCHANGED <<conn, proc>>
       ELSE IF p # 0
       THEN /\ conn' = [conn EXCEPT ![c].process = 0]
            /\ Await(k, "reconnect")
            /\ UNCHANGED proc
       ELSE JoinConnect(k, c)
    /\ UNCHANGED <<binaries, session, launch, fetching, client>>

Reconnect(k) ==
    /\ pi[k].at = "reconnect"
    /\ JoinConnect(k, pi[k].client)
    /\ UNCHANGED <<binaries, session, launch, fetching, client>>

\* Mutant: a connect that ends after the session keeps its process.
MayStayAlways(c) == TRUE

\* The client was not closed while it connected.
MayStay(c) == ~conn[c].closed

\* The server answers, is of the right version and has the tools of the catalog.
ConnectEnds(p) ==
    LET c == proc[p].of IN
    /\ c # 0 /\ proc[p].verdict = "pending"
    /\ \E ok \in BOOLEAN :
        /\ ok => proc[p].at = "live" /\ MayStay(c) /\ (conn[c].binary = "package" \/ binaries.fits)
        /\ proc' = [proc EXCEPT ![p].verdict = IF ok THEN "ok" ELSE "failed",
                                ![p].at = IF ~ok /\ @ = "live" THEN "closing" ELSE @]
        /\ conn' = [conn EXCEPT ![c].process = IF ok THEN p ELSE @,
                                ![c].connecting = IF @ = p THEN 0 ELSE @]
    /\ UNCHANGED <<binaries, session, launch, fetching, client, pi>>

\* The wait is over: the request is sent, or the call fails without one.
Connected(k) ==
    LET c == pi[k].client
        p == pi[k].process IN
    /\ pi[k].at = "waiting" /\ proc[p].verdict # "pending"
    /\ IF proc[p].verdict = "ok" /\ conn[c].process # 0
       THEN Send(k, conn[c].process) /\ UNCHANGED <<launch, client, conn, proc>>
       ELSE /\ Ends(k, "raw")
            /\ IF launch.fallback /\ client = c
               THEN client' = 0 /\ launch' = [NoLaunch EXCEPT !.failed = launch.failed] /\ Close(c)
               ELSE UNCHANGED <<launch, client, conn, proc>>
    /\ UNCHANGED <<binaries, session, fetching>>

\* A request that was answered; an error ends the fallback.
Answered(k) ==
    /\ pi[k].at = "request" /\ proc[pi[k].process].at = "live"
    /\ \E a \in {"ok", "error"} : Ends(k, a)
    /\ UNCHANGED <<binaries, session, launch, fetching, client, conn, proc>>

\* Mutant: only a call that was cancelled is told that its request may have been done.
ToldWhenCancelled(c, late) == FALSE

\* handleRequestFailure: whether the caller is told that the request may have been done.
\* The client's process has ended, or the time of the request is over.
Told(c, late) == late \/ (conn[c].process # 0 /\ proc[conn[c].process].at # "live")

\* The request gets no answer: the process has ended, or REQUEST_TIMEOUT.
Unanswered(k) ==
    LET c == pi[k].client
        lost == proc[pi[k].process].at # "live" IN
    /\ pi[k].at = "request"
    /\ \E late \in BOOLEAN :
        /\ late \/ lost
        /\ Ends(k, IF Told(c, late) THEN "told" ELSE "raw")
        /\ IF launch.fallback /\ client = c
           THEN client' = 0 /\ launch' = [NoLaunch EXCEPT !.failed = launch.failed] /\ Close(c)
           ELSE /\ UNCHANGED <<launch, client>>
                /\ IF conn[c].process # 0 /\ proc[conn[c].process].at # "live"
                   THEN conn' = [conn EXCEPT ![c].process = 0] /\ UNCHANGED proc
                   ELSE UNCHANGED <<conn, proc>>
    /\ UNCHANGED <<binaries, session, fetching>>

\* The user cancels: the call answers at once, a download or a connect goes on.
AbortPi(k) ==
    /\ pi[k].at # "idle" /\ pi[k].answer = "none"
    /\ SetPi(k, [pi[k] EXCEPT !.aborted = TRUE,
                    !.answer = IF pi[k].at = "request" THEN "told" ELSE "raw",
                    !.at = IF @ \in {"dropping", "installing"} THEN @ ELSE "done"])
    /\ UNCHANGED <<binaries, session, launch, fetching, client, conn, proc>>

(***************************************************************************)
(* Pi, and the processes.                                                  *)
(***************************************************************************)

\* session_shutdown
SessionOver ==
    /\ session < MaxEnds /\ session' = session + 1
    /\ client' = 0
    /\ Close(client)
    /\ UNCHANGED <<binaries, launch, fetching, pi>>

\* A process ends by itself, at any time, or after its client closed it.
ProcessEnds(p) ==
    /\ proc[p].at \in {"live", "closing"}
    /\ proc' = [proc EXCEPT ![p].at = "gone"]
    /\ UNCHANGED <<binaries, session, launch, fetching, client, conn, pi>>

\* A process that its client closed is killed in the end.
Kill(p) == proc[p].at = "closing" /\ ProcessEnds(p)

\* The package's binary is put there by something else, as npm or another Pi.
PackageAppears ==
    /\ ~binaries.package /\ binaries' = [binaries EXCEPT !.package = TRUE]
    /\ UNCHANGED <<session, launch, fetching, client, conn, proc, pi>>

CallStep(k) ==
    \/ StartsByDropping(k) \/ StartsPi(k) \/ Dropped(k) \/ Installed(k)
    \/ Ensure(k) \/ Reconnect(k) \/ Connected(k) \/ Answered(k) \/ Unanswered(k)

PiNext ==
    \/ \E k \in PiCalls : CallStep(k) \/ AbortPi(k)
    \/ \E p \in Procs : ConnectEnds(p) \/ ProcessEnds(p)
    \/ InstallEnds \/ SessionOver \/ PackageAppears

PiSpec == PiInit /\ [][PiNext]_piVars

\* Requests, connects and downloads have time limits; a closed process is killed.
PiFairness ==
    /\ \A k \in PiCalls : WF_piVars(CallStep(k) /\ pi[k].at # "idle")
    /\ \A p \in Procs : WF_piVars(ConnectEnds(p) \/ Kill(p))
    /\ WF_piVars(InstallEnds)
-----------------------------------------------------------------------------
\* Every server that runs is one its session's client holds or connects, or one that is
\* being closed, whenever the session ends and whatever a cancelled call left running ("a
\* download that outlives the session never starts a server nothing would close").
NoServerIsForgotten ==
    \A p \in Procs : proc[p].at = "live" =>
        LET c == proc[p].of IN
        /\ \/ conn[c].process = p
           \/ proc[p].verdict = "pending" /\ (conn[c].connecting = p \/ conn[c].closed)
        /\ (c = client /\ conn[c].session = session) \/ conn[c].closed

\* A request is sent once; a call whose request was sent and not answered says that it
\* may have been done, unless the session ended with it ("without a confirmed result and
\* was not replayed").
UncertainIsTold ==
    \A k \in PiCalls :
        /\ pi[k].sent <= 1
        /\ (pi[k].answer = "raw" /\ pi[k].sent = 1) => conn[pi[k].client].closed

\* A call that begins with the package's binary there does not run a fallback.
FallbackIsLeft ==
    \A k \in PiCalls : (pi[k].at = "request" /\ pi[k].hadPackage) => ~launch.fallback

\* Once a session is over its servers end.
ServersEnd == \A c \in Clients : conn[c].closed => <>ClosedWhole(c)

\* Every server the extension started is held by its session or ends.
NoServerStays == [](NoServerIsForgotten /\ ServersEnd)

\* What a call runs, and what it says of it.
CallsAreTold == UncertainIsTold /\ FallbackIsLeft
=============================================================================
