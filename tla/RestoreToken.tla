----------------------------- MODULE RestoreToken -----------------------------
(***************************************************************************)
(* The restore token of one device kind (remote_desktop.rs): a file that   *)
(* server processes share, replaced under a lock file around the portal's  *)
(* SelectDevices and Start.                                                *)
(*                                                                         *)
(* A slot of Starts is one start of a portal session with persistence on,  *)
(* of any process: flock belongs to the open file, so two starts exclude   *)
(* each other within a process as well.  Tokens are numbered in the order  *)
(* in which the portal issues them; 0 is no token.                         *)
(***************************************************************************)
EXTENDS Integers

CONSTANTS
    Starts,    \* slots of concurrent session starts
    MaxIssued, \* bound on the tokens the portal issues
    Faults,    \* "lost": a start ends after Start was sent; "store": a failed write
    None       \* nobody

ASSUME RestoreAssumption ==
    /\ MaxIssued \in Nat
    /\ None \notin Starts

VARIABLES
    lock,      \* the start that holds the lock file, or None
    file,      \* the token file
    pc,        \* state of each start
    mine,      \* RestorePermit::restore_token
    given,     \* the token of the Start response, or the one to commit
    granted,   \* whether the response grants a usable session
    issued,    \* the last token the portal issued
    used,      \* tokens the portal has restored a session from
    revoked,   \* tokens up to this one are no longer honoured
    abandoned, \* tokens of requests whose start is gone, still with the portal
    unusable,  \* tokens of grants without a pointer, a keyboard or a monitor
    mishap     \* a start was lost behind Start, or a write failed

storeVars  == <<lock, file>>
startVars  == <<mine, given, granted>>
portalVars == <<issued, used, revoked, abandoned, unusable>>
vars == <<storeVars, pc, startVars, portalVars, mishap>>

Tokens == 0..MaxIssued
Answered == {"answered", "measuring", "committing"}
Permitted == {"selecting", "starting"} \cup Answered

\* Types, and that the lock file is locked only by a start that holds a permit.
TypeOK ==
    /\ lock \in Starts \cup {None}
    /\ \A s \in Starts : lock = s => pc[s] \in Permitted
    /\ file \in Tokens
    /\ pc \in [Starts -> {"idle", "claiming"} \cup Permitted]
    /\ mine \in [Starts -> Tokens]
    /\ given \in [Starts -> Tokens]
    /\ granted \in [Starts -> BOOLEAN]
    /\ issued \in Tokens /\ revoked \in Tokens
    /\ used \subseteq Tokens /\ abandoned \subseteq Tokens /\ unusable \subseteq Tokens
    /\ mishap \in BOOLEAN

Init ==
    /\ lock = None /\ file = 0
    /\ pc = [s \in Starts |-> "idle"]
    /\ mine = [s \in Starts |-> 0]
    /\ given = [s \in Starts |-> 0]
    /\ granted = [s \in Starts |-> FALSE]
    /\ issued = 0 /\ revoked = 0
    /\ used = {} /\ abandoned = {} /\ unusable = {} /\ mishap = FALSE

-----------------------------------------------------------------------------
\* Mutant: the lock outlives the permit.
EndKeepingLock(s) ==
    /\ pc' = [pc EXCEPT ![s] = "idle"]
    /\ mine' = [mine EXCEPT ![s] = 0]
    /\ given' = [given EXCEPT ![s] = 0]
    /\ granted' = [granted EXCEPT ![s] = FALSE]
    /\ UNCHANGED lock

\* The start is over: it drops its permit, and the lock with it.
End(s) ==
    /\ pc' = [pc EXCEPT ![s] = "idle"]
    /\ mine' = [mine EXCEPT ![s] = 0]
    /\ given' = [given EXCEPT ![s] = 0]
    /\ granted' = [granted EXCEPT ![s] = FALSE]
    /\ lock' = IF lock = s THEN None ELSE lock

Begin(s) ==
    /\ pc[s] = "idle"
    /\ pc' = [pc EXCEPT ![s] = "claiming"]
    /\ UNCHANGED <<storeVars, startVars, portalVars, mishap>>

\* RestorePermit::acquire: the lock, then the token.  A token file that is not
\* private, or not a token, is removed.
Claim(s) ==
    /\ pc[s] = "claiming" /\ lock = None
    /\ lock' = s
    /\ file' \in {file, 0}
    /\ mine' = [mine EXCEPT ![s] = file']
    /\ pc' = [pc EXCEPT ![s] = "selecting"]
    /\ UNCHANGED <<given, granted, portalVars, mishap>>

\* RESTORE_LOCK_WAIT passes or the store cannot be opened: the session starts
\* without persistence and leaves the store alone.  Also a start that is cancelled here.
GoWithout(s) ==
    /\ pc[s] = "claiming"
    /\ End(s)
    /\ UNCHANGED <<file, portalVars, mishap>>

\* Mutant: the lock is held for the read only.
SelectUnlocked(s) ==
    /\ pc[s] = "selecting"
    /\ pc' = [pc EXCEPT ![s] = "starting"]
    /\ lock' = None
    /\ UNCHANGED <<file, startVars, portalVars, mishap>>

\* SelectDevices names the token; Start follows.
Select(s) ==
    /\ pc[s] = "selecting"
    /\ pc' = [pc EXCEPT ![s] = "starting"]
    /\ UNCHANGED <<storeVars, startVars, portalVars, mishap>>

\* A failed or cancelled start that the portal has not been asked for.
SelectFails(s) ==
    /\ pc[s] = "selecting"
    /\ End(s)
    /\ UNCHANGED <<file, portalVars, mishap>>

\* Start is answered with an error: consent denied, and nothing restored.
Denied(s) ==
    /\ pc[s] = "starting"
    /\ End(s)
    /\ UNCHANGED <<file, portalVars, mishap>>

\* Mutant: the token of a grant that is of no use is kept.
KeepAny(s) == given[s]

\* restore_token_to_keep
TokenToKeep(s) == IF granted[s] THEN given[s] ELSE 0

\* The Start response.  A keyboard session and a useless grant commit at once; a
\* pointer session first looks at the monitors and connects to EIS.
Receive(s) ==
    /\ pc[s] = "answered"
    /\ given' = [given EXCEPT ![s] = TokenToKeep(s)]
    /\ \/ pc' = [pc EXCEPT ![s] = "committing"]
       \/ granted[s] /\ pc' = [pc EXCEPT ![s] = "measuring"]
    /\ UNCHANGED <<storeVars, mine, granted, portalVars, mishap>>

\* Measured, or EIS failed: each branch commits.
Measured(s) ==
    /\ pc[s] = "measuring"
    /\ pc' = [pc EXCEPT ![s] = "committing"]
    /\ UNCHANGED <<storeVars, startVars, portalVars, mishap>>

\* Mutant: a response without a token leaves the file alone.
CommitIfGiven(s) ==
    /\ pc[s] = "committing"
    /\ file' = IF given[s] = 0 THEN file ELSE given[s]
    /\ End(s)
    /\ UNCHANGED <<portalVars, mishap>>

\* RestorePermit::commit, on a blocking thread that no cancellation stops: rename
\* over the file, or remove it, then let the lock go.
Commit(s) ==
    /\ pc[s] = "committing"
    /\ file' = given[s]
    /\ End(s)
    /\ UNCHANGED <<portalVars, mishap>>

\* The temporary file cannot be written or renamed, or the file turns out not to
\* be private and is removed.
CommitFails(s) ==
    /\ "store" \in Faults /\ pc[s] = "committing"
    /\ file' \in {file, 0}
    /\ mishap' = TRUE
    /\ End(s)
    /\ UNCHANGED portalVars

\* Cancelled, killed or timed out after Start was sent: no branch of the start
\* touches the file.  The portal may still act on the request.
Lost(s) ==
    /\ "lost" \in Faults /\ pc[s] \in {"starting", "answered", "measuring"}
    /\ abandoned' = IF pc[s] = "starting" THEN abandoned \cup {mine[s]} ELSE abandoned
    /\ mishap' = TRUE
    /\ End(s)
    /\ UNCHANGED <<file, issued, used, revoked, unusable>>

\* The process is killed before the rename.
Killed(s) ==
    /\ "lost" \in Faults /\ pc[s] = "committing"
    /\ mishap' = TRUE
    /\ End(s)
    /\ UNCHANGED <<file, portalVars>>

-----------------------------------------------------------------------------
(* The portal: it restores from a token once, and issues another.          *)

Restores(t) == used' = used \cup ({t} \ {0})

\* A session is granted, with a token unless the person declines to be remembered.
Grant(s) ==
    /\ pc[s] = "starting"
    /\ Restores(mine[s])
    /\ \E usable \in BOOLEAN, remember \in BOOLEAN :
          /\ remember => issued < MaxIssued
          /\ issued' = IF remember THEN issued + 1 ELSE issued
          /\ given' = [given EXCEPT ![s] = IF remember THEN issued + 1 ELSE 0]
          /\ granted' = [granted EXCEPT ![s] = usable]
          /\ unusable' = IF remember /\ ~usable THEN unusable \cup {issued + 1} ELSE unusable
    /\ pc' = [pc EXCEPT ![s] = "answered"]
    /\ UNCHANGED <<storeVars, mine, revoked, abandoned, mishap>>

GrantToNobody(t) ==
    /\ t \in abandoned
    /\ abandoned' = abandoned \ {t}
    /\ Restores(t)
    /\ UNCHANGED <<storeVars, pc, startVars, issued, revoked, unusable, mishap>>

Revoke ==
    /\ revoked < issued
    /\ revoked' = issued
    /\ UNCHANGED <<storeVars, pc, startVars, issued, used, abandoned, unusable, mishap>>

-----------------------------------------------------------------------------
Next ==
    \/ \E s \in Starts :
          \/ Begin(s) \/ Claim(s) \/ GoWithout(s)
          \/ Select(s) \/ SelectFails(s) \/ Denied(s)
          \/ Receive(s) \/ Measured(s) \/ Commit(s) \/ CommitFails(s)
          \/ Lost(s) \/ Killed(s) \/ Grant(s)
    \/ \E t \in Tokens : GrantToNobody(t)
    \/ Revoke

Spec == Init /\ [][Next]_vars

-----------------------------------------------------------------------------
\* Whatever fails and whoever is killed, a token never replaces one the portal
\* issued after it: the last grant's token is not overwritten by a slower start.
NewerReplaces == [][file' # 0 => file' >= file]_vars

\* "A grant with no pointer or no monitors must not be restored": its token never
\* gets into the file, so the next process asks again instead of failing again.
UnusableForgotten == file \notin unusable

\* Unless a start is lost behind Start or a write fails, the token the next process
\* finds has not been used: nobody reads it between its use and its replacement.
FileUnused == lock = None /\ ~mishap => file \notin used
=============================================================================
