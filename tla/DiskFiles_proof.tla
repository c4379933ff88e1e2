--------------------------- MODULE DiskFiles_proof ---------------------------
(***************************************************************************)
(* What the program keeps on disk, for any number of processes, captures   *)
(* and servers: the tokens in the store, the user's files beside the       *)
(* screenshots, and the spilled trees of servers that share a directory.   *)
(***************************************************************************)
EXTENDS RestoreToken, ScreenFiles, SpillDirectory, TLAPS

(***************************************************************************)
(* RestoreToken.  The order of the tokens in the store, and whose tokens   *)
(* are used.                                                               *)
(*                                                                         *)
(* A token is newer than the file because its start has held the lock      *)
(* since before the portal issued it (Exclusive, Newer): nobody else can   *)
(* have written in between.  For the same reason the token it takes to the *)
(* portal is still the one in the file (MineIsFile).                       *)
(***************************************************************************)

Exclusive == \A s \in Starts : pc[s] \in Permitted => lock = s

Newer ==
    /\ file <= issued
    /\ \A s \in Starts :
          pc[s] \in Answered => given[s] <= issued /\ (given[s] # 0 => file < given[s])

UnusableKnown ==
    /\ unusable \subseteq 1..issued
    /\ file \notin unusable
    /\ \A s \in Starts :
          pc[s] \in Answered /\ (granted[s] \/ pc[s] # "answered")
              => given[s] \notin unusable

IInv == TypeOK /\ Exclusive /\ Newer /\ UnusableKnown

(* An empty store and no start satisfy the invariant. *)
LEMMA InitIInv == Init => IInv
  <1> SUFFICES ASSUME Init PROVE IInv
    OBVIOUS
  <1> USE RestoreAssumption DEF Init, Tokens, Permitted, Answered
  <1>1. TypeOK
    <2>1. mishap \in BOOLEAN
      OBVIOUS
    <2> QED
      BY <2>1 DEF TypeOK
  <1>2. Exclusive /\ Newer /\ UnusableKnown
    BY DEF Exclusive, Newer, UnusableKnown
  <1> QED
    BY <1>1, <1>2 DEF IInv

(* A start that ends, leaving the file as it was or without its old token, keeps *)
(* the invariant: the other starts are as they were.                             *)
LEMMA EndKeeps ==
    ASSUME IInv, NEW s \in Starts, End(s), pc[s] # "idle",
           \/ file' = file
           \/ lock = s /\ file' = 0
           \/ pc[s] = "committing" /\ file' = given[s],
           abandoned' \subseteq Tokens, mishap' \in BOOLEAN,
           UNCHANGED <<issued, used, revoked, unusable>>
    PROVE  IInv'
  <1> USE RestoreAssumption DEF IInv, Tokens, Permitted, Answered
  <1>1. TypeOK'
    BY DEF TypeOK, End, Exclusive
  <1>2. Exclusive'
    BY DEF TypeOK, End, Exclusive
  <1>3. \A t \in Starts : t # s => pc'[t] = pc[t] /\ given'[t] = given[t] /\ granted'[t] = granted[t]
    BY DEF TypeOK, End
  <1>4. pc'[s] = "idle"
    BY DEF TypeOK, End
  <1>5. file' # file => \A t \in Starts : t # s => pc[t] \notin Permitted
    BY DEF Exclusive
  <1>6. Newer'
    BY <1>3, <1>4, <1>5 DEF TypeOK, Newer
  <1>7. UnusableKnown'
    BY <1>3, <1>4, <1>5 DEF TypeOK, UnusableKnown
  <1> QED
    BY <1>1, <1>2, <1>6, <1>7

(* Every step keeps the invariant. *)
LEMMA StepIInv == IInv /\ [Next]_vars => IInv'
  <1> SUFFICES ASSUME IInv, [Next]_vars PROVE IInv'
    OBVIOUS
  <1> USE RestoreAssumption DEF IInv, Tokens, Permitted, Answered
  <1>1. CASE UNCHANGED vars
    BY <1>1 DEF vars, storeVars, startVars, portalVars, TypeOK, Exclusive, Newer, UnusableKnown
  <1>2. ASSUME NEW s \in Starts, Begin(s) PROVE IInv'
    <2> USE <1>2 DEF Begin, storeVars, startVars, portalVars
    <2>1. TypeOK'
      BY DEF TypeOK
    <2>2. Exclusive' /\ Newer' /\ UnusableKnown'
      BY DEF TypeOK, Exclusive, Newer, UnusableKnown
    <2> QED
      BY <2>1, <2>2
  <1>3. ASSUME NEW s \in Starts, Claim(s) PROVE IInv'
    <2> USE <1>3 DEF Claim, portalVars
    <2>1. TypeOK'
      BY DEF TypeOK
    <2>2. \A t \in Starts : pc[t] \notin Permitted
      BY DEF Exclusive, TypeOK
    <2>3. \A t \in Starts : pc'[t] \notin Answered
      BY <2>2 DEF TypeOK
    <2>4. Exclusive'
      BY <2>2 DEF TypeOK, Exclusive
    <2>5. Newer' /\ UnusableKnown'
      BY <2>3 DEF TypeOK, Newer, UnusableKnown
    <2> QED
      BY <2>1, <2>4, <2>5
  <1>4. ASSUME NEW s \in Starts, GoWithout(s) \/ SelectFails(s) \/ Denied(s) \/ Killed(s)
        PROVE  IInv'
    <2>1. End(s) /\ pc[s] # "idle" /\ file' = file /\ UNCHANGED portalVars /\ mishap' \in BOOLEAN
      BY <1>4 DEF GoWithout, SelectFails, Denied, Killed, TypeOK
    <2> QED
      BY <2>1, EndKeeps DEF TypeOK, portalVars
  <1>5. ASSUME NEW s \in Starts, Select(s) \/ Measured(s) PROVE IInv'
    <2> USE <1>5 DEF Select, Measured, storeVars, startVars, portalVars
    <2>1. TypeOK'
      BY DEF TypeOK
    <2>2. Exclusive'
      BY DEF TypeOK, Exclusive
    <2>3. Newer' /\ UnusableKnown'
      BY DEF TypeOK, Newer, UnusableKnown
    <2> QED
      BY <2>1, <2>2, <2>3
  <1>6. ASSUME NEW s \in Starts, Receive(s) PROVE IInv'
    <2> USE <1>6 DEF Receive, TokenToKeep, storeVars, portalVars
    <2>1. TypeOK'
      BY DEF TypeOK
    <2>2. Exclusive'
      BY DEF TypeOK, Exclusive
    <2>3. Newer'
      BY DEF TypeOK, Newer
    <2>4. UnusableKnown'
      BY DEF TypeOK, UnusableKnown
    <2> QED
      BY <2>1, <2>2, <2>3, <2>4
  <1>7. ASSUME NEW s \in Starts, Commit(s) PROVE IInv'
    BY <1>7, EndKeeps DEF Commit, TypeOK, portalVars
  <1>8. ASSUME NEW s \in Starts, CommitFails(s) PROVE IInv'
    <2>1. lock = s
      BY <1>8 DEF CommitFails, Exclusive
    <2> QED
      BY <1>8, <2>1, EndKeeps DEF CommitFails, TypeOK, portalVars
  <1>9. ASSUME NEW s \in Starts, Lost(s) PROVE IInv'
    <2>1. abandoned' \subseteq Tokens
      BY <1>9 DEF Lost, TypeOK
    <2> QED
      BY <1>9, <2>1, EndKeeps DEF Lost
  <1>10. ASSUME NEW s \in Starts, Grant(s) PROVE IInv'
    <2> USE <1>10 DEF Grant, Restores, storeVars
    <2>1. issued' \in {issued, issued + 1} /\ issued' \in Tokens
      BY DEF TypeOK
    <2>2. TypeOK'
      <3>1. given' \in [Starts -> Tokens] /\ granted' \in [Starts -> BOOLEAN]
        BY <2>1 DEF TypeOK
      <3>2. used' \subseteq Tokens
        <4>1. used \subseteq Tokens /\ mine[s] \in Tokens
          BY DEF TypeOK
        <4>2. used' = used \cup ({mine[s]} \ {0})
          OBVIOUS
        <4> HIDE DEF Tokens
        <4> QED
          BY <4>1, <4>2
      <3>3. unusable' \subseteq Tokens
        <4>1. unusable' \subseteq unusable \cup {issued'}
          OBVIOUS
        <4> QED
          BY <2>1, <4>1 DEF TypeOK
      <3>4. /\ pc' \in [Starts -> {"idle", "claiming"} \cup Permitted]
            /\ \A t \in Starts : lock' = t => pc'[t] \in Permitted
        BY DEF TypeOK
      <3> QED
        BY <2>1, <3>1, <3>2, <3>3, <3>4 DEF TypeOK
    <2>3. \A t \in Starts : t # s => pc[t] \notin Permitted
      BY DEF Exclusive
    <2>4. Exclusive'
      BY DEF TypeOK, Exclusive
    <2>5. \A t \in Starts : pc'[t] \in Answered => t = s
      BY <2>3 DEF TypeOK
    <2>6. Newer'
      BY <2>1, <2>5 DEF TypeOK, Newer
    <2>7. UnusableKnown'
      BY <2>1, <2>5 DEF TypeOK, UnusableKnown, Newer
    <2> QED
      BY <2>2, <2>4, <2>6, <2>7
  <1>11. ASSUME NEW t \in Tokens, GrantToNobody(t) PROVE IInv'
    <2> USE <1>11 DEF GrantToNobody, Restores, storeVars, startVars
    <2>1. TypeOK'
      BY DEF TypeOK
    <2>2. Exclusive' /\ Newer' /\ UnusableKnown'
      BY DEF Exclusive, Newer, UnusableKnown
    <2> QED
      BY <2>1, <2>2
  <1>12. CASE Revoke
    <2> USE <1>12 DEF Revoke, storeVars, startVars
    <2>1. TypeOK'
      BY DEF TypeOK
    <2>2. Exclusive' /\ Newer' /\ UnusableKnown'
      BY DEF Exclusive, Newer, UnusableKnown
    <2> QED
      BY <2>1, <2>2
  <1> QED
    BY <1>1, <1>2, <1>3, <1>4, <1>5, <1>6, <1>7, <1>8, <1>9, <1>10, <1>11, <1>12 DEF Next

(* The invariant holds in every state of every behaviour. *)
THEOREM Invariance == Spec => []IInv
  BY InitIInv, StepIInv, PTL DEF Spec

(* Every variable keeps its type, and only a start with a permit has the lock. *)
THEOREM TypeCorrect == Spec => []TypeOK
  <1>1. IInv => TypeOK
    BY DEF IInv
  <1> QED
    BY <1>1, Invariance, PTL

(* The token of a grant without a pointer or a monitor is never stored: the next *)
(* process is asked again instead of failing again.                              *)
THEOREM UnusableIsForgotten == Spec => []UnusableForgotten
  <1>1. IInv => UnusableForgotten
    BY DEF IInv, UnusableKnown, UnusableForgotten
  <1> QED
    BY <1>1, Invariance, PTL

(* A token never replaces one that the portal issued after it. *)
THEOREM TokensInOrder == Spec => NewerReplaces
  <1>1. IInv /\ [Next]_vars => [file' # 0 => file' >= file]_vars
    <2> SUFFICES ASSUME IInv, Next, file' # 0 PROVE file' >= file
      OBVIOUS
    <2> USE DEF IInv, Tokens
    <2>0. file \in Nat
      BY RestoreAssumption DEF TypeOK
    <2>1. ASSUME NEW s \in Starts, Commit(s) PROVE file' >= file
      BY <2>0, <2>1, RestoreAssumption DEF Commit, Newer, Answered, TypeOK
    <2>2. ASSUME NEW s \in Starts, Claim(s) \/ CommitFails(s) PROVE file' >= file
      BY <2>0, <2>2 DEF Claim, CommitFails
    <2>3. ASSUME file' = file PROVE file' >= file
      BY <2>0, <2>3
    <2>4. ASSUME NEW s \in Starts,
                 \/ Begin(s) \/ GoWithout(s) \/ Select(s) \/ SelectFails(s) \/ Denied(s)
                 \/ Receive(s) \/ Measured(s) \/ Lost(s) \/ Killed(s) \/ Grant(s)
          PROVE  file' = file
      BY <2>4 DEF Begin, GoWithout, Select, SelectFails, Denied, Receive, Measured, Lost,
                  Killed, Grant, storeVars
    <2>5. ASSUME Revoke \/ \E t \in Tokens : GrantToNobody(t) PROVE file' = file
      BY <2>5 DEF Revoke, GrantToNobody, storeVars
    <2> QED
      BY <2>1, <2>2, <2>3, <2>4, <2>5 DEF Next
  <1> QED
    BY <1>1, Invariance, PTL DEF Spec, NewerReplaces

-----------------------------------------------------------------------------
(* Whose tokens are used.  The permit's token is the one in the file, so what the portal
   restores from is in the file only while the start that named it holds the lock.      *)

MineIsFile == \A s \in Starts : pc[s] \in {"selecting", "starting"} => mine[s] = file

UsedIssued == used \subseteq 1..issued /\ abandoned \subseteq 0..issued

\* A used token in the file is about to be replaced, by one that is not used.
UsedReplaced ==
    ~mishap =>
        /\ abandoned = {}
        /\ file \in used => \E s \in Starts : pc[s] \in Answered
        /\ \A s \in Starts : pc[s] \in Answered => given[s] \notin used

UsedInv == MineIsFile /\ UsedIssued /\ UsedReplaced

(* A start that ends without having been answered, or commits, leaves no used token. *)
LEMMA EndKeepsUnused ==
    ASSUME IInv, UsedInv, NEW s \in Starts, End(s),
           \/ pc[s] \in {"claiming", "selecting", "starting"} /\ file' = file
           \/ pc[s] = "committing" /\ file' = given[s]
           \/ pc[s] \in Permitted /\ file' \in {file, 0} /\ mishap',
           mishap \/ abandoned' = abandoned \/ mishap', abandoned' \subseteq 0..issued,
           mishap => mishap',
           UNCHANGED <<issued, used>>
    PROVE  UsedInv'
  <1> USE RestoreAssumption DEF IInv, UsedInv, Permitted, Answered
  <1>1. /\ pc'[s] = "idle"
        /\ \A t \in Starts : t # s => pc'[t] = pc[t] /\ given'[t] = given[t] /\ mine'[t] = mine[t]
    BY DEF TypeOK, End
  <1>2. pc[s] \in Permitted => \A t \in Starts : t # s => pc[t] \notin Permitted
    BY DEF Exclusive
  <1>3. MineIsFile'
    BY <1>1, <1>2 DEF MineIsFile
  <1>4. UsedIssued'
    BY DEF UsedIssued
  <1>5. UsedReplaced'
    <2> SUFFICES ASSUME ~mishap' PROVE UsedReplaced'
      BY DEF UsedReplaced
    <2>1. ~mishap
      OBVIOUS
    <2>2. abandoned' = {}
      BY <2>1 DEF UsedReplaced
    <2>3. \A t \in Starts : pc'[t] \in Answered => given'[t] \notin used
      BY <1>1, <2>1 DEF UsedReplaced
    <2>4. file' \in used => \E t \in Starts : pc'[t] \in Answered
      BY <1>1, <1>2, <2>1 DEF UsedReplaced
    <2> QED
      BY <2>2, <2>3, <2>4 DEF UsedReplaced
  <1> QED
    BY <1>3, <1>4, <1>5

(* Every step keeps used tokens out of the file, unless their start holds the lock. *)
LEMMA UsedStep == IInv /\ UsedInv /\ [Next]_vars => UsedInv'
  <1> SUFFICES ASSUME IInv, UsedInv, [Next]_vars PROVE UsedInv'
    OBVIOUS
  <1> USE RestoreAssumption DEF IInv, UsedInv, Permitted, Answered
  <1>1. CASE UNCHANGED vars
    BY <1>1
    DEF vars, storeVars, startVars, portalVars, MineIsFile, UsedIssued, UsedReplaced
  <1>2. ASSUME NEW s \in Starts, Begin(s) PROVE UsedInv'
    BY <1>2
    DEF Begin, storeVars, startVars, portalVars, TypeOK, MineIsFile, UsedIssued, UsedReplaced
  <1>3. ASSUME NEW s \in Starts, Claim(s) PROVE UsedInv'
    <2>1. /\ \A t \in Starts : pc[t] \notin Permitted
          /\ \A t \in Starts : t # s => pc'[t] = pc[t] /\ mine'[t] = mine[t]
          /\ pc'[s] = "selecting" /\ mine'[s] = file' /\ file' \in {file, 0}
          /\ UNCHANGED <<given, issued, used, abandoned, mishap>>
      BY <1>3 DEF Claim, TypeOK, Exclusive, portalVars
    <2>2. 0 \notin used
      BY DEF UsedIssued, TypeOK
    <2> QED
      BY <2>1, <2>2 DEF MineIsFile, UsedIssued, UsedReplaced
  <1>4. ASSUME NEW s \in Starts, GoWithout(s) \/ SelectFails(s) \/ Denied(s) PROVE UsedInv'
    <2>1. /\ End(s) /\ pc[s] \in {"claiming", "selecting", "starting"} /\ file' = file
          /\ UNCHANGED <<issued, used, abandoned, mishap>>
      BY <1>4 DEF GoWithout, SelectFails, Denied, portalVars
    <2>2. abandoned' \subseteq 0..issued
      BY <2>1 DEF UsedIssued
    <2> QED
      BY <2>1, <2>2, EndKeepsUnused
  <1>5. ASSUME NEW s \in Starts, Select(s) \/ Measured(s) PROVE UsedInv'
    BY <1>5
    DEF Select, Measured, storeVars, startVars, portalVars, TypeOK, MineIsFile, UsedIssued,
        UsedReplaced
  <1>6. ASSUME NEW s \in Starts, Receive(s) PROVE UsedInv'
    <2>1. 0 \notin used
      BY DEF UsedIssued, TypeOK
    <2> QED
      BY <1>6, <2>1
      DEF Receive, TokenToKeep, storeVars, portalVars, TypeOK, MineIsFile, UsedIssued,
          UsedReplaced
  <1>7. ASSUME NEW s \in Starts, Commit(s) PROVE UsedInv'
    BY <1>7, EndKeepsUnused DEF Commit, portalVars, UsedIssued
  <1>8. ASSUME NEW s \in Starts, CommitFails(s) \/ Killed(s) PROVE UsedInv'
    BY <1>8, EndKeepsUnused DEF CommitFails, Killed, portalVars, UsedIssued
  <1>9. ASSUME NEW s \in Starts, Lost(s) PROVE UsedInv'
    <2>1. abandoned' \subseteq 0..issued
      <3>1. pc[s] = "starting" => mine[s] \in 0..issued
        BY DEF MineIsFile, TypeOK, Tokens, Newer
      <3> QED
        BY <1>9, <3>1 DEF Lost, UsedIssued
    <2> QED
      BY <1>9, <2>1, EndKeepsUnused DEF Lost
  <1>10. ASSUME NEW s \in Starts, Grant(s) PROVE UsedInv'
    <2>1. /\ mine[s] = file /\ file \in 0..issued
          /\ issued' \in {issued, issued + 1} /\ issued \in Nat
      BY <1>10 DEF Grant, MineIsFile, Newer, TypeOK, Tokens
    <2>2. /\ used' = used \cup ({file} \ {0}) /\ UNCHANGED <<file, mine, abandoned, mishap>>
          /\ pc'[s] = "answered" /\ given'[s] \in {0, issued + 1}
          /\ \A t \in Starts : t # s => pc'[t] = pc[t] /\ pc[t] \notin Permitted
      BY <1>10, <2>1 DEF Grant, Restores, storeVars, TypeOK, Exclusive
    <2>3. MineIsFile'
      BY <2>2 DEF MineIsFile
    <2>4. UsedIssued'
      <3>1. 1..issued \subseteq 1..issued' /\ 0..issued \subseteq 0..issued'
        BY <2>1
      <3>2. {file} \ {0} \subseteq 1..issued
        BY <2>1
      <3> QED
        BY <2>2, <3>1, <3>2 DEF UsedIssued
    <2>5. given'[s] \notin used'
      BY <2>1, <2>2 DEF UsedIssued
    <2>6. UsedReplaced'
      BY <2>2, <2>5 DEF UsedReplaced
    <2> QED
      BY <2>3, <2>4, <2>6
  <1>11. ASSUME NEW t \in Tokens, GrantToNobody(t) PROVE UsedInv'
    <2>1. t \in abandoned /\ used' = used \cup ({t} \ {0}) /\ abandoned' = abandoned \ {t}
      BY <1>11 DEF GrantToNobody, Restores
    <2>2. mishap
      BY <2>1 DEF UsedReplaced
    <2>3. UsedIssued'
      BY <1>11, <2>1 DEF GrantToNobody, UsedIssued, TypeOK, Tokens
    <2> QED
      BY <1>11, <2>2, <2>3
      DEF GrantToNobody, storeVars, startVars, MineIsFile, UsedReplaced
  <1>12. CASE Revoke
    BY <1>12 DEF Revoke, storeVars, startVars, MineIsFile, UsedIssued, UsedReplaced
  <1> QED
    BY <1>1, <1>2, <1>3, <1>4, <1>5, <1>6, <1>7, <1>8, <1>9, <1>10, <1>11, <1>12 DEF Next

(* Unless a start is lost behind Start or a write fails, the token that the next process
   finds in the file has not been used. *)
THEOREM FileStaysUnused == Spec => []FileUnused
  <1>1. Init => UsedInv
    BY RestoreAssumption
    DEF Init, UsedInv, MineIsFile, UsedIssued, UsedReplaced, Answered
  <1>2. IInv /\ UsedInv => FileUnused
    BY RestoreAssumption
    DEF IInv, Exclusive, UsedInv, UsedReplaced, FileUnused, Answered, Permitted
  <1> QED
    BY <1>1, <1>2, InitIInv, StepIInv, UsedStep, PTL DEF Spec

(***************************************************************************)
(* ScreenFiles.  What a cleanup deletes is a file its capture expected     *)
(* when it was made: a name that was not among those noted is one          *)
(* (NewName), and so is the file whose inode the capture holds (Pinned),   *)
(* which no later file can bear while it is held.                          *)
(***************************************************************************)

Backends == {"pixelflux", "shell", "snapshot", "x11", "cli"}

CaptureSteps == Backends \cup
    {"idle", "next", "end", "done", "noted", "portal", "preparing", "waiting", "reading", "cleaning", "dropped"}

CaptureStates ==
    [at : CaptureSteps, ladder : Seq(Backends), names : SUBSET Names, snapshot : BOOLEAN,
     path : Paths \cup {NoFile}, pin : Inodes \cup {NoFile}, live : BOOLEAN]

Makings == [maker : Captures \cup {"user"}, inode : Inodes, after : SUBSET Captures]

ScreenTypeOK ==
    /\ files \in [Paths -> {NoFile} \cup Makings]
    /\ capture \in [Captures -> CaptureStates]
    /\ userActs \in Nat

OneName ==
    \A p, q \in Paths :
        files[p] # NoFile /\ files[q] # NoFile /\ files[p].inode = files[q].inode => p = q

\* The names are noted and the file the portal answers with not yet opened.
Looks(r) == r.at \in {"noted", "portal", "preparing"} /\ r.snapshot

NewName(c) ==
    Looks(capture[c]) =>
        \A n \in Pictures \ capture[c].names : files[n] # NoFile => c \in files[n].after

Pinned(c) ==
    capture[c].pin # NoFile =>
        \A p \in Paths : files[p] # NoFile /\ files[p].inode = capture[c].pin => c \in files[p].after

ScreenInv ==
    /\ ScreenTypeOK /\ OneName
    /\ \A c \in Captures : NewName(c) /\ Pinned(c)

UserFileStays ==
    \A n \in Names :
        files[n] # NoFile /\ files'[n] # files[n] /\ files[n].maker = "user"
          => \/ userActs' = userActs + 1
             \/ \E c \in files[n].after : capture'[c] # capture[c]

(* A temporary path is none of the portal's or the user's. *)
LEMMA TempApart ==
    /\ \A c \in Captures : \A b \in {"shell", "cli"} : Temp(c, b) \in Paths \ Names
    /\ Names \subseteq Paths /\ Pictures \subseteq Names
    /\ NoFile \notin Names
  BY ScreenFilesAssumption DEF Temp, Paths

(* No file is there but the user's, and nobody captures. *)
LEMMA ScreenInitInv == ScreenInit => ScreenInv
  <1> SUFFICES ASSUME ScreenInit PROVE ScreenInv
    OBVIOUS
  <1>1. \A c \in Captures : capture[c] = NoCapture
    BY DEF ScreenInit
  <1>2. NoCapture \in CaptureStates
    BY DEF NoCapture, CaptureStates, CaptureSteps, Paths
  <1>3. ScreenTypeOK
    BY <1>1, <1>2 DEF ScreenInit, ScreenTypeOK, Makings
  <1>4. OneName
    <2> SUFFICES ASSUME NEW p \in Paths, NEW q \in Paths, files[p] # NoFile, files[q] # NoFile,
                        files[p].inode = files[q].inode
                 PROVE  p = q
      BY DEF OneName
    <2>1. PICK i \in Inodes : files[p] = [maker |-> "user", inode |-> i, after |-> {}]
      BY DEF ScreenInit
    <2>2. PICK j \in Inodes : files[q] = [maker |-> "user", inode |-> j, after |-> {}]
      BY DEF ScreenInit
    <2> QED
      BY SMTT(30), <2>1, <2>2 DEF ScreenInit
  <1>5. ASSUME NEW c \in Captures
        PROVE  NewName(c) /\ Pinned(c)
    BY <1>1 DEF NoCapture, NewName, Looks, Pinned
  <1> QED
    BY <1>3, <1>4, <1>5 DEF ScreenInv

(* A capture that goes on without asking anew or opening a file keeps what is known of it: *)
(* what becomes of the files is for the other lemmas.                                      *)
LEMMA FilesFewer ==
    ASSUME ScreenInv, files' \in [Paths -> {NoFile} \cup Makings],
           \A p \in Paths : files'[p] \in {files[p], NoFile}
    PROVE  /\ OneName'
           /\ \A c \in Captures :
                 /\ NewName(c) /\ (Looks(capture'[c]) =>
                        Looks(capture[c]) /\ capture'[c].names = capture[c].names) => NewName(c)'
                 /\ Pinned(c) /\ capture'[c].pin \in {capture[c].pin, NoFile} => Pinned(c)'
  <1>1. OneName'
    BY DEF ScreenInv, OneName
  <1>2. Pictures \subseteq Paths
    BY TempApart
  <1> QED
    BY <1>1, <1>2 DEF NewName, Pinned

(* A capture of which nothing but the place changes. *)
Carries(c) ==
    /\ Looks(capture'[c]) => Looks(capture[c]) /\ capture'[c].names = capture[c].names
    /\ capture'[c].pin \in {capture[c].pin, NoFile}

(* Captures that carry on, with no file made, keep the invariant. *)
LEMMA CarriesInv ==
    ASSUME ScreenInv, ScreenTypeOK', \A p \in Paths : files'[p] \in {files[p], NoFile},
           \A c \in Captures : Carries(c)
    PROVE  ScreenInv'
  <1>1. files' \in [Paths -> {NoFile} \cup Makings]
    BY DEF ScreenTypeOK
  <1> QED
    BY <1>1, FilesFewer DEF ScreenInv, Carries

(* A file that is made has an inode nobody holds and comes after all that are asked. *)
LEMMA CreatesInv ==
    ASSUME ScreenInv, NEW path \in Paths, NEW maker \in Captures \cup {"user"},
           Creates(path, maker), UNCHANGED capture, userActs' \in Nat
    PROVE  ScreenInv' /\ \A p \in Paths : files[p] # NoFile => files'[p] = files[p]
  <1> USE DEF ScreenInv
  <1>1. PICK i \in FreeInodes :
          files' = [files EXCEPT ![path] =
              [maker |-> maker, inode |-> i, after |-> Requested \cup NewNameTo(path)]]
    BY DEF Creates
  <1> DEFINE new == [maker |-> maker, inode |-> i, after |-> Requested \cup NewNameTo(path)]
  <1>2. /\ i \in Inodes /\ \A p \in Paths : files[p] # NoFile => files[p].inode # i
        /\ \A c \in Captures : capture[c].pin # i
    BY <1>1 DEF FreeInodes, Linked
  <1>3. new \in Makings
    BY <1>2 DEF Makings, Requested, NewNameTo, Noted
  <1>4. files \in [Paths -> {NoFile} \cup Makings] /\ files[path] = NoFile
    BY DEF ScreenTypeOK, Creates
  <1>5. files'[path] = new /\ \A p \in Paths \ {path} : files'[p] = files[p]
    BY <1>1, <1>4
  <1>6. ScreenTypeOK'
    BY <1>1, <1>3, <1>4 DEF ScreenTypeOK
  <1>7. new.inode = i /\ NewNameTo(path) \subseteq new.after
    OBVIOUS
  <1> HIDE DEF new
  <1>8. OneName'
    BY <1>2, <1>5, <1>7 DEF OneName
  <1>9. ASSUME NEW c \in Captures
        PROVE  NewName(c)'
    <2>1. Looks(capture[c]) /\ path \in Pictures => c \in NewNameTo(path)
      BY DEF NewNameTo, Noted, Looks
    <2>2. Pictures \subseteq Paths
      BY TempApart
    <2> QED
      BY <1>5, <1>7, <2>1, <2>2 DEF NewName
  <1>10. ASSUME NEW c \in Captures
         PROVE  Pinned(c)'
    BY <1>2, <1>5, <1>7 DEF Pinned
  <1> QED
    BY <1>4, <1>5, <1>6, <1>8, <1>9, <1>10

(* A file that is moved keeps its inode, and is new to those that have noted the names. *)
LEMMA MovesInv ==
    ASSUME ScreenInv, NEW from \in Paths, NEW to \in Paths, Moves(from, to),
           UNCHANGED capture, userActs' \in Nat
    PROVE  ScreenInv'
  <1> USE DEF ScreenInv
  <1> DEFINE old == files[from]
  <1> DEFINE moved == [old EXCEPT !.after = @ \cup NewNameTo(to)]
  <1>1. /\ files \in [Paths -> {NoFile} \cup Makings] /\ old \in Makings /\ from # to
        /\ files' = [files EXCEPT ![from] = NoFile, ![to] = moved]
    BY DEF ScreenTypeOK, Moves
  <1>2. /\ moved \in Makings /\ moved.inode = old.inode
        /\ moved.after = old.after \cup NewNameTo(to)
    BY <1>1 DEF Makings, NewNameTo, Noted
  <1> HIDE DEF moved
  <1>3. /\ files'[to] = moved /\ files'[from] = NoFile
        /\ \A p \in Paths \ {from, to} : files'[p] = files[p]
    BY <1>1
  <1>4. ScreenTypeOK'
    BY <1>1, <1>2 DEF ScreenTypeOK
  <1>5. OneName'
    <2>1. \A p \in Paths : files[p] # NoFile /\ files[p].inode = old.inode => p = from
      BY <1>1, ScreenFilesAssumption DEF OneName, Moves
    <2> QED
      BY <1>2, <1>3, <2>1 DEF OneName
  <1>6. ASSUME NEW c \in Captures
        PROVE  NewName(c)'
    <2>1. Looks(capture[c]) /\ to \in Pictures => c \in NewNameTo(to)
      BY DEF NewNameTo, Noted, Looks
    <2>2. Pictures \subseteq Paths
      BY TempApart
    <2> QED
      BY <1>2, <1>3, <2>1, <2>2 DEF NewName
  <1>7. ASSUME NEW c \in Captures
        PROVE  Pinned(c)'
    <2>1. capture[c].pin # NoFile /\ old.inode = capture[c].pin => c \in old.after
      BY <1>1 DEF Pinned, Moves
    <2> QED
      BY <1>2, <1>3, <2>1 DEF Pinned
  <1> QED
    BY <1>4, <1>5, <1>6, <1>7

(* What Removes leaves. *)
LEMMA RemovesFewer ==
    ASSUME ScreenInv, NEW path, Removes(path) \/ UNCHANGED files
    PROVE  /\ files' \in [Paths -> {NoFile} \cup Makings]
           /\ \A p \in Paths : files'[p] \in {files[p], NoFile} /\ (p # path => files'[p] = files[p])
  BY DEF ScreenInv, ScreenTypeOK, Removes

(* A capture that is given a new state, in which it is not about to ask and holds no other *)
(* file, carries on.                                                                       *)
LEMMA UpdateCarries ==
    ASSUME ScreenInv, NEW c \in Captures, NEW r \in CaptureStates, Update(c, r),
           Looks(r) => Looks(capture[c]) /\ r.names = capture[c].names,
           r.pin \in {capture[c].pin, NoFile}
    PROVE  /\ capture' \in [Captures -> CaptureStates]
           /\ \A d \in Captures : Carries(d)
  <1>1. capture \in [Captures -> CaptureStates] /\ capture' = [capture EXCEPT ![c] = r]
    BY DEF ScreenInv, ScreenTypeOK, Update
  <1>2. capture' \in [Captures -> CaptureStates] /\ capture'[c] = r
        /\ \A d \in Captures \ {c} : capture'[d] = capture[d]
    BY <1>1
  <1> QED
    BY <1>2 DEF Carries

(* So does one that goes to a step at which the portal is not asked. *)
LEMMA GoesCarries ==
    ASSUME ScreenInv, NEW c \in Captures,
           NEW at \in CaptureSteps \ {"noted", "portal", "preparing"}, Goes(c, at)
    PROVE  /\ capture' \in [Captures -> CaptureStates]
           /\ \A d \in Captures : Carries(d)
  <1>1. capture[c] \in CaptureStates
    BY DEF ScreenInv, ScreenTypeOK
  <1> DEFINE r == [capture[c] EXCEPT !.at = at]
  <1>2. r \in CaptureStates /\ r.at = at /\ r.pin = capture[c].pin
    BY <1>1 DEF CaptureStates
  <1>3. Update(c, r)
    BY DEF Goes
  <1>4. ~Looks(r)
    BY <1>2 DEF Looks
  <1> HIDE DEF r
  <1> QED
    BY <1>2, <1>3, <1>4, UpdateCarries

(* A step that makes no file, and in which the captures carry on, keeps the invariant, and *)
(* is no one's loss if the path it clears is not the user's.                               *)
LEMMA CarriedStep ==
    ASSUME ScreenInv, NEW path, Removes(path) \/ UNCHANGED files,
           capture' \in [Captures -> CaptureStates], \A d \in Captures : Carries(d),
           userActs' \in {userActs, userActs + 1},
           \/ UNCHANGED files
           \/ path \notin Names
           \/ userActs' = userActs + 1
           \/ \E c \in files[path].after : capture'[c] # capture[c]
    PROVE  ScreenInv' /\ UserFileStays
  <1>1. /\ files' \in [Paths -> {NoFile} \cup Makings]
        /\ \A p \in Paths : files'[p] \in {files[p], NoFile} /\ (p # path => files'[p] = files[p])
    BY RemovesFewer
  <1>2. ScreenTypeOK'
    BY <1>1 DEF ScreenInv, ScreenTypeOK
  <1>3. ScreenInv'
    BY <1>1, <1>2, CarriesInv
  <1>4. UserFileStays
    BY <1>1, TempApart DEF UserFileStays
  <1> QED
    BY <1>3, <1>4

(* A capture asks one backend after the other. *)
LEMMA AsksStep ==
    ASSUME ScreenInv, NEW c \in Captures,
           BeginCapture(c) \/ TryNext(c) \/ Return(c) \/ ReadWithoutFile(c) \/ ShellAnswers(c)
             \/ AskPortal(c) \/ PortalAnswers(c) \/ PortalFails(c) \/ CliExits(c)
    PROVE  ScreenInv' /\ UserFileStays
  <1>1. UNCHANGED files /\ UNCHANGED userActs
    BY DEF BeginCapture, TryNext, Return, ReadWithoutFile, ShellAnswers, AskPortal, PortalAnswers,
       PortalFails, CliExits, Idle
  <1>2. capture[c] \in CaptureStates /\ NoCapture \in CaptureStates
        /\ NoCapture.pin = NoFile
    BY DEF ScreenInv, ScreenTypeOK, NoCapture, CaptureStates, CaptureSteps
  <1> SUFFICES capture' \in [Captures -> CaptureStates] /\ \A d \in Captures : Carries(d)
    BY <1>1, CarriedStep
  <1>3. CASE BeginCapture(c)
    <2> DEFINE r == [capture[c] EXCEPT !.at = "next", !.ladder = Ladder[c]]
    <2>1. Ladder[c] \in Seq(Backends)
      BY ScreenFilesAssumption DEF Backends
    <2>2. r \in CaptureStates /\ ~Looks(r) /\ r.pin = capture[c].pin
      BY <1>2, <2>1 DEF CaptureStates, CaptureSteps, Looks
    <2>3. Update(c, r)
      BY <1>3 DEF BeginCapture
    <2> HIDE DEF r
    <2> QED
      BY <2>2, <2>3, UpdateCarries
  <1>4. CASE TryNext(c)
    <2> DEFINE l == capture[c].ladder
    <2>1. l \in Seq(Backends)
      BY <1>2 DEF CaptureStates
    <2>2. CASE l = <<>>
      BY <1>4, <2>2, GoesCarries DEF TryNext, CaptureSteps
    <2>3. CASE l # <<>>
      <3> DEFINE r == [NoCapture EXCEPT !.at = Head(l), !.ladder = Tail(l)]
      <3>1. Head(l) \in Backends /\ Tail(l) \in Seq(Backends)
        BY <2>1, <2>3
      <3>2. r \in CaptureStates /\ r.at = Head(l) /\ r.pin = NoFile
        BY <1>2, <3>1 DEF CaptureStates, CaptureSteps
      <3>3. Update(c, r)
        BY <1>4, <2>3 DEF TryNext
      <3>4. ~Looks(r)
        BY <3>1, <3>2 DEF Backends, Looks
      <3> HIDE DEF r
      <3> QED
        BY <3>2, <3>3, <3>4, UpdateCarries
    <2> QED
      BY <2>2, <2>3
  <1>5. CASE Return(c)
    <2> DEFINE r == [NoCapture EXCEPT !.at = "done"]
    <2>1. r \in CaptureStates /\ ~Looks(r) /\ r.pin = NoFile
      BY <1>2 DEF CaptureStates, CaptureSteps, Looks
    <2>2. Update(c, r)
      BY <1>5 DEF Return
    <2> HIDE DEF r
    <2> QED
      BY <2>1, <2>2, UpdateCarries
  <1>6. CASE ReadWithoutFile(c) \/ PortalFails(c)
    <2>1. PICK at \in {"end", "next"} : Goes(c, at)
      BY <1>6 DEF ReadWithoutFile, PortalFails
    <2> QED
      BY <2>1, GoesCarries DEF CaptureSteps
  <1>7. CASE ShellAnswers(c) \/ CliExits(c)
    <2>1. PICK b \in {"shell", "cli"} :
            Update(c, [capture[c] EXCEPT !.at = "waiting", !.path = Temp(c, b)])
      BY <1>7 DEF ShellAnswers, CliExits
    <2> DEFINE r == [capture[c] EXCEPT !.at = "waiting", !.path = Temp(c, b)]
    <2>2. Temp(c, b) \in Paths
      BY TempApart
    <2>3. r \in CaptureStates /\ ~Looks(r) /\ r.pin = capture[c].pin
      BY <1>2, <2>2 DEF CaptureStates, CaptureSteps, Looks
    <2>4. Update(c, r)
      BY <2>1
    <2> HIDE DEF r
    <2> QED
      BY <2>3, <2>4, UpdateCarries
  <1>8. CASE AskPortal(c)
    <2> DEFINE r == [capture[c] EXCEPT !.at = "portal"]
    <2>1. /\ r \in CaptureStates /\ r.pin = capture[c].pin
          /\ r.names = capture[c].names /\ r.snapshot = capture[c].snapshot
      BY <1>2 DEF CaptureStates, CaptureSteps
    <2>2. Update(c, r) /\ capture[c].at = "noted"
      BY <1>8 DEF AskPortal, Goes, In
    <2> HIDE DEF r
    <2> QED
      BY <2>1, <2>2, UpdateCarries DEF Looks
  <1>9. CASE PortalAnswers(c)
    <2>1. PICK n \in Names : Update(c, [capture[c] EXCEPT !.at = "preparing", !.path = n])
      BY <1>9 DEF PortalAnswers
    <2> DEFINE r == [capture[c] EXCEPT !.at = "preparing", !.path = n]
    <2>2. n \in Paths
      BY TempApart
    <2>3. /\ r \in CaptureStates /\ r.pin = capture[c].pin
          /\ r.names = capture[c].names /\ r.snapshot = capture[c].snapshot
      BY <1>2, <2>2 DEF CaptureStates, CaptureSteps
    <2>4. Update(c, r) /\ capture[c].at = "portal"
      BY <1>9, <2>1 DEF PortalAnswers, In
    <2> HIDE DEF r
    <2> QED
      BY <2>3, <2>4, UpdateCarries DEF Looks
  <1> QED
    BY <1>3, <1>4, <1>5, <1>6, <1>7, <1>8, <1>9

(* A backend that fails takes its temporary file with it. *)
LEMMA BackendFailsStep ==
    ASSUME ScreenInv, NEW c \in Captures, ShellFails(c) \/ CliFails(c)
    PROVE  ScreenInv' /\ UserFileStays
  <1>1. PICK b \in {"shell", "cli"} : Removes(Temp(c, b)) /\ Goes(c, "next") /\ UNCHANGED userActs
    BY DEF ShellFails, CliFails, Idle
  <1>2. Temp(c, b) \notin Names
    BY TempApart
  <1>3. capture' \in [Captures -> CaptureStates] /\ \A d \in Captures : Carries(d)
    BY <1>1, GoesCarries DEF CaptureSteps
  <1> QED
    BY <1>1, <1>2, <1>3, CarriedStep

(* The names noted before the portal is asked are those that are there. *)
LEMMA NoteNamesStep ==
    ASSUME ScreenInv, NEW c \in Captures, NoteNames(c)
    PROVE  ScreenInv' /\ UserFileStays
  <1>1. PICK read \in BOOLEAN :
          Update(c, [capture[c] EXCEPT !.at = "noted", !.snapshot = read,
                         !.names = IF read THEN Linked \cap Pictures ELSE {}])
    BY DEF NoteNames
  <1> DEFINE noted == IF read THEN Linked \cap Pictures ELSE {}
  <1> DEFINE r == [capture[c] EXCEPT !.at = "noted", !.snapshot = read, !.names = noted]
  <1>2. UNCHANGED files /\ UNCHANGED userActs
    BY DEF NoteNames, Idle
  <1>3. capture \in [Captures -> CaptureStates]
    BY DEF ScreenInv, ScreenTypeOK
  <1>4. noted \in SUBSET Names
    BY TempApart
  <1>5. r \in CaptureStates /\ r.snapshot = read /\ r.names = noted /\ r.pin = capture[c].pin
    BY <1>3, <1>4 DEF CaptureStates, CaptureSteps
  <1>6. capture' = [capture EXCEPT ![c] = r]
    BY <1>1 DEF Update
  <1>7. read => \A n \in Pictures \ noted : files[n] = NoFile
    BY TempApart DEF Linked
  <1> HIDE DEF r, noted
  <1>8. /\ capture' \in [Captures -> CaptureStates] /\ capture'[c] = r
        /\ \A d \in Captures \ {c} : capture'[d] = capture[d]
    BY <1>3, <1>5, <1>6
  <1>9. ASSUME NEW d \in Captures
        PROVE  NewName(d)' /\ Pinned(d)'
    <2>1. NewName(d) /\ Pinned(d)
      BY DEF ScreenInv
    <2> QED
      BY <1>2, <1>5, <1>7, <1>8, <2>1 DEF NewName, Looks, Pinned
  <1>10. ScreenTypeOK' /\ OneName'
    BY <1>2, <1>8 DEF ScreenInv, ScreenTypeOK, OneName
  <1> QED
    BY <1>2, <1>9, <1>10 DEF ScreenInv, UserFileStays

(* A file that is proven new was made while its capture expected one. *)
LEMMA ProvenIsAfter ==
    ASSUME ScreenInv, NEW c \in Captures, NEW path \in Paths, capture[c].at = "preparing",
           files[path] # NoFile, Proven(c, path)
    PROVE  c \in files[path].after
  BY DEF ScreenInv, NewName, Looks, Proven

(* The file of a name that is proven new is held; nothing else has its inode. *)
LEMMA PreparePathStep ==
    ASSUME ScreenInv, NEW c \in Captures, PreparePath(c)
    PROVE  ScreenInv' /\ UserFileStays
  <1> DEFINE path == capture[c].path
  <1> DEFINE proven == path \in Linked /\ Proven(c, path)
  <1> DEFINE pin == IF proven THEN files[path].inode ELSE NoFile
  <1> DEFINE r == [capture[c] EXCEPT !.at = "waiting", !.pin = pin]
  <1>1. UNCHANGED files /\ UNCHANGED userActs /\ capture' = [capture EXCEPT ![c] = r]
        /\ capture[c].at = "preparing"
    BY DEF PreparePath, Idle, Update, In
  <1>2. capture \in [Captures -> CaptureStates] /\ files \in [Paths -> {NoFile} \cup Makings]
    BY DEF ScreenInv, ScreenTypeOK
  <1>3. path \in Linked => path \in Paths /\ files[path] # NoFile /\ files[path].inode \in Inodes
    BY <1>2 DEF Linked, Makings
  <1>4. r \in CaptureStates /\ r.at = "waiting" /\ r.pin = pin
    BY <1>2, <1>3 DEF CaptureStates, CaptureSteps
  <1>5. ASSUME pin # NoFile, NEW p \in Paths, files[p] # NoFile, files[p].inode = pin
        PROVE  c \in files[p].after
    <2>1. proven /\ pin = files[path].inode
      BY <1>5
    <2>2. p = path
      BY <1>3, <1>5, <2>1 DEF ScreenInv, OneName
    <2> QED
      BY <1>1, <1>3, <2>1, <2>2, ProvenIsAfter
  <1> HIDE DEF r, pin
  <1>6. /\ capture' \in [Captures -> CaptureStates] /\ capture'[c] = r
        /\ \A d \in Captures \ {c} : capture'[d] = capture[d]
    BY <1>1, <1>2, <1>4
  <1>7. ASSUME NEW d \in Captures
        PROVE  NewName(d)' /\ Pinned(d)'
    <2>1. NewName(d) /\ Pinned(d)
      BY DEF ScreenInv
    <2> QED
      BY <1>1, <1>4, <1>5, <1>6, <2>1 DEF NewName, Looks, Pinned
  <1>8. ScreenTypeOK' /\ OneName'
    BY <1>1, <1>6 DEF ScreenInv, ScreenTypeOK, OneName
  <1> QED
    BY <1>1, <1>7, <1>8 DEF ScreenInv, UserFileStays

(* A preparation that takes too long deletes only what it proves new. *)
LEMMA PrepareTimesOutStep ==
    ASSUME ScreenInv, NEW c \in Captures, PrepareTimesOut(c)
    PROVE  ScreenInv' /\ UserFileStays
  <1> DEFINE path == capture[c].path
  <1>1. capture' \in [Captures -> CaptureStates] /\ \A d \in Captures : Carries(d)
    <2>1. PICK at \in {"next", "end"} : Goes(c, at)
      BY DEF PrepareTimesOut
    <2> QED
      BY <2>1, GoesCarries DEF CaptureSteps
  <1>2. UNCHANGED files \/ (Removes(path) /\ path \in Linked /\ Proven(c, path))
    BY DEF PrepareTimesOut
  <1>3. userActs' = userActs /\ capture[c].at = "preparing"
    BY DEF PrepareTimesOut, Idle, In
  <1>4. path \in Linked /\ Proven(c, path) => c \in files[path].after
    BY <1>3, ProvenIsAfter DEF Linked
  <1>5. capture'[c] # capture[c]
    <2>1. capture[c] \in CaptureStates /\ capture \in [Captures -> CaptureStates]
      BY DEF ScreenInv, ScreenTypeOK
    <2>2. capture'[c].at \in {"next", "end"}
      BY <2>1 DEF PrepareTimesOut, Goes, Update, CaptureStates
    <2> QED
      BY <1>3, <2>2
  <1> QED
    BY <1>1, <1>2, <1>3, <1>4, <1>5, CarriedStep

(* What a cleanup deletes is a temporary file, or one that its capture expected. *)
LEMMA DeletesIsAfter ==
    ASSUME ScreenInv, NEW c \in Captures, Deletes(c), capture[c].path \in Names
    PROVE  c \in files[capture[c].path].after
  <1>1. capture[c].path \in Paths
    BY TempApart
  <1> QED
    BY <1>1 DEF Deletes, ScreenInv, Pinned

(* A cleanup deletes what its capture holds, or a path of its own. *)
LEMMA CleansUpStep ==
    ASSUME ScreenInv, NEW c \in Captures, CleanUp(c) \/ DropCleanup(c)
    PROVE  ScreenInv' /\ UserFileStays
  <1>1. PICK at \in {"end", "next"} :
          Update(c, [capture[c] EXCEPT !.at = at, !.path = NoFile, !.pin = NoFile])
    BY DEF CleanUp, DropCleanup
  <1> DEFINE r == [capture[c] EXCEPT !.at = at, !.path = NoFile, !.pin = NoFile]
  <1>2. capture[c] \in CaptureStates
    BY DEF ScreenInv, ScreenTypeOK
  <1>3. r \in CaptureStates /\ ~Looks(r) /\ r.path = NoFile /\ r.pin = NoFile
    BY <1>2 DEF CaptureStates, CaptureSteps, Looks
  <1>4. Update(c, r)
    BY <1>1
  <1> HIDE DEF r
  <1>5. capture' \in [Captures -> CaptureStates] /\ \A d \in Captures : Carries(d)
    BY <1>3, <1>4, UpdateCarries
  <1>6. UNCHANGED files \/ (Deletes(c) /\ Removes(capture[c].path))
    BY DEF CleanUp, DropCleanup, CleansUp
  <1>7. userActs' = userActs
    BY DEF CleanUp, DropCleanup, Idle
  <1>8. capture[c].path \in Names => capture'[c] # capture[c]
    <2>1. capture'[c].path = NoFile
      BY <1>3, <1>4 DEF Update, ScreenInv, ScreenTypeOK
    <2> QED
      BY <2>1, TempApart
  <1> QED
    BY <1>5, <1>6, <1>7, <1>8, CarriedStep, DeletesIsAfter

(* Reading, and being dropped, touch no file. *)
LEMMA ReadOrCancelStep ==
    ASSUME ScreenInv, NEW c \in Captures, StartReading(c) \/ ReadPicture(c) \/ Cancel(c)
    PROVE  ScreenInv' /\ UserFileStays
  <1>1. UNCHANGED files /\ UNCHANGED userActs
    BY DEF StartReading, ReadPicture, Cancel, Idle
  <1>2. capture[c] \in CaptureStates
    BY DEF ScreenInv, ScreenTypeOK
  <1>3. CASE StartReading(c) \/ ReadPicture(c)
    <2>1. PICK at \in {"reading", "cleaning"} : Goes(c, at)
      BY <1>3 DEF StartReading, ReadPicture
    <2>2. capture' \in [Captures -> CaptureStates] /\ \A d \in Captures : Carries(d)
      BY <2>1, GoesCarries DEF CaptureSteps
    <2> QED
      BY <1>1, <2>2, CarriedStep
  <1>4. CASE Cancel(c)
    <2> DEFINE at == IF capture[c].at \in {"preparing", "reading", "cleaning"} THEN capture[c].at
                     ELSE IF capture[c].at = "waiting" THEN "dropped" ELSE "end"
    <2> DEFINE r == [capture[c] EXCEPT !.live = FALSE, !.at = at]
    <2>1. /\ at \in CaptureSteps /\ at \notin {"noted", "portal"}
          /\ at = "preparing" => capture[c].at = "preparing"
      BY <1>2 DEF CaptureStates, CaptureSteps
    <2>2. Update(c, r)
      BY <1>4 DEF Cancel
    <2> HIDE DEF at
    <2>3. /\ r \in CaptureStates /\ r.at = at /\ r.pin = capture[c].pin
          /\ r.names = capture[c].names /\ r.snapshot = capture[c].snapshot
      BY <1>2, <2>1 DEF CaptureStates
    <2> HIDE DEF r
    <2>4. capture' \in [Captures -> CaptureStates] /\ \A d \in Captures : Carries(d)
      BY <2>1, <2>2, <2>3, UpdateCarries DEF Looks
    <2> QED
      BY <1>1, <2>4, CarriedStep
  <1> QED
    BY <1>3, <1>4

(* Whoever makes a file takes a name that is free. *)
LEMMA MakesStep ==
    ASSUME ScreenInv, NEW path \in Paths, NEW maker \in Captures \cup {"user"},
           Creates(path, maker), UNCHANGED capture, userActs' \in {userActs, userActs + 1}
    PROVE  ScreenInv' /\ UserFileStays
  <1>1. userActs' \in Nat
    BY DEF ScreenInv, ScreenTypeOK
  <1>2. ScreenInv' /\ \A p \in Paths : files[p] # NoFile => files'[p] = files[p]
    BY <1>1, CreatesInv
  <1> QED
    BY <1>2, TempApart DEF UserFileStays

(* The writers and the user. *)
LEMMA WritesStep ==
    ASSUME ScreenInv, UserActs \/ \E c \in Captures : Writes(c)
    PROVE  ScreenInv' /\ UserFileStays
  <1>1. ASSUME NEW c \in Captures, Writes(c)
        PROVE  ScreenInv' /\ UserFileStays
    <2>1. PICK path \in Paths : Creates(path, c)
      BY <1>1, TempApart DEF Writes, ShellWrites, PortalWrites, CliWrites
    <2>2. UNCHANGED <<capture, userActs>>
      BY <1>1 DEF Writes, ShellWrites, PortalWrites, CliWrites
    <2> QED
      BY <2>1, <2>2, MakesStep
  <1>2. CASE UserActs
    <2>1. UNCHANGED capture /\ userActs' = userActs + 1
      BY <1>2 DEF UserActs
    <2>2. PICK n \in Names : Creates(n, "user") \/ Removes(n) \/ \E m \in Names : Moves(n, m)
      BY <1>2 DEF UserActs
    <2>3. CASE Creates(n, "user")
      BY <2>1, <2>3, MakesStep, TempApart
    <2>4. CASE Removes(n)
      <3>1. capture' \in [Captures -> CaptureStates] /\ \A d \in Captures : Carries(d)
        BY <2>1 DEF ScreenInv, ScreenTypeOK, Carries, Looks
      <3> QED
        BY <2>1, <2>4, <3>1, CarriedStep
    <2>5. CASE \E m \in Names : Moves(n, m)
      <3>1. userActs' \in Nat
        BY <2>1 DEF ScreenInv, ScreenTypeOK
      <3> QED
        BY <2>1, <2>5, <3>1, MovesInv, TempApart DEF UserFileStays
    <2> QED
      BY <2>2, <2>3, <2>4, <2>5
  <1> QED
    BY <1>1, <1>2

(* Each step keeps the invariant, and the files of the user's. *)
LEMMA ScreenStep ==
    ASSUME ScreenInv, [ScreenNext]_screenVars
    PROVE  ScreenInv' /\ [UserFileStays]_screenVars
  <1>1. ASSUME NEW c \in Captures, Asks(c)
        PROVE  ScreenInv' /\ UserFileStays
    BY <1>1, AsksStep, BackendFailsStep, NoteNamesStep DEF Asks
  <1>2. ASSUME NEW c \in Captures, CleanupStep(c) \/ Cancel(c)
        PROVE  ScreenInv' /\ UserFileStays
    BY <1>2, PreparePathStep, PrepareTimesOutStep, CleansUpStep, ReadOrCancelStep DEF CleanupStep
  <1>3. CASE UNCHANGED screenVars
    BY <1>3 DEF screenVars, ScreenInv, ScreenTypeOK, OneName, NewName, Looks, Pinned
  <1> QED
    BY <1>1, <1>2, <1>3, WritesStep DEF ScreenNext

(* However captures, their writers, cancellations and the user interleave, no file of the  *)
(* user's is deleted but by a capture that expected a file there when it was made: none the *)
(* user had when the names were noted or the portal was asked, and none made since the file *)
(* the portal named was opened.                                                             *)
THEOREM UserFilesStay == ScreenSpec => UserFilesSurvive
  <1>1. ScreenInv /\ [ScreenNext]_screenVars => ScreenInv' /\ [UserFileStays]_screenVars
    BY ScreenStep
  <1> QED
    BY <1>1, ScreenInitInv, PTL DEF ScreenSpec, UserFilesSurvive, UserFileStays

(***************************************************************************)
(* SpillDirectory.  A file that bears a running server's start time bears  *)
(* its pid as well (Owned), so that the sweep of another takes it for      *)
(* alive; and a server in the middle of a file is past the one it names    *)
(* (Ordered), so that neither a sweep nor a failed write takes that.       *)
(***************************************************************************)

SpillTypeOK ==
    /\ pid \in [Servers -> Pids \cup {NoPid}]
    /\ started \subseteq Servers
    /\ aged \subseteq spills
    /\ current \in [Servers -> Nat]
    /\ sequence \in [Servers -> Nat]

Owned ==
    /\ \A s \in Servers : Running(s) => s \in started
    /\ \A f \in spills : f.start \in started /\ (Running(f.start) => pid[f.start] = f.pid)

Ordered ==
    \A s \in Servers :
        /\ current[s] <= sequence[s]
        /\ s \in writing => Running(s) /\ current[s] < sequence[s]

SpillInv == SpillTypeOK /\ Owned /\ Ordered

SpillExact ==
    /\ \A s \in Servers :
         Running(s) /\ current[s] # 0 /\ Spill(s, current[s]) \in spills \ (spills' \cup aged)
           => current'[s] # current[s]
    /\ sequence' # sequence => \A f \in spills' : pid'[f.start] = f.pid

(* Removing files keeps what is said of them. *)
LEMMA FewerOwned ==
    ASSUME SpillInv, NEW left \in SUBSET spills, Keep(left), UNCHANGED started,
           \A s \in Servers : pid'[s] \in {pid[s], NoPid}
    PROVE  aged' \subseteq spills' /\ Owned'
  BY SpillAssumption DEF SpillInv, SpillTypeOK, Owned, Keep, Running

(* A server that is started sweeps what no running server owns. *)
LEMMA StartExact ==
    ASSUME SpillInv, NEW s \in Servers, StartServer(s)
    PROVE  SpillInv' /\ SpillExact
  <1> USE DEF SpillInv, SpillTypeOK
  <1>1. PICK p \in Pids : pid' = [pid EXCEPT ![s] = p]
    BY DEF StartServer
  <1>2. /\ spills' = Swept(s, pid') /\ aged' = aged \cap Swept(s, pid') /\ s \notin started
        /\ started' = started \cup {s} /\ UNCHANGED <<current, sequence, writing>>
    BY DEF StartServer, Keep
  <1>3. ~Running(s) /\ \A f \in spills : f.start # s
    BY <1>2 DEF Owned
  <1>4. SpillTypeOK'
    BY <1>1, <1>2
  <1>5. Owned'
    BY <1>1, <1>2, <1>3 DEF Owned, Running, Swept
  <1>6. Ordered'
    BY <1>1, <1>2, <1>3 DEF Ordered, Running
  <1>7. ASSUME NEW t \in Servers, Running(t), Spill(t, current[t]) \in spills \ aged
        PROVE  Spill(t, current[t]) \in spills'
    <2>1. t # s /\ pid'[t] = pid[t]
      BY <1>1, <1>3, <1>7
    <2> QED
      BY <1>2, <1>7, <2>1 DEF Swept, Alive, Spill
  <1> QED
    BY <1>2, <1>4, <1>5, <1>6, <1>7 DEF SpillExact

(* A server that spills leaves the files of the running ones, and those alone. *)
LEMMA BeginExact ==
    ASSUME SpillInv, NEW s \in Servers, BeginSpill(s)
    PROVE  SpillInv' /\ SpillExact
  <1> USE DEF SpillInv, SpillTypeOK
  <1> DEFINE new == Spill(s, sequence[s] + 1)
  <1>1. /\ spills' = Swept(s, pid) \cup {new} /\ aged' = aged \cap (Swept(s, pid) \cup {new})
        /\ sequence' = [sequence EXCEPT ![s] = @ + 1] /\ writing' = writing \cup {s}
        /\ UNCHANGED <<pid, started, current>> /\ Running(s)
    BY DEF BeginSpill, Keep
  <1>2. new.start = s /\ new.pid = pid[s] /\ s \in started
    BY <1>1 DEF Spill, Owned
  <1>3. \A f \in spills' : pid'[f.start] = f.pid /\ f.start \in started
    BY <1>1, <1>2 DEF Owned, Swept, Alive
  <1>4. SpillTypeOK'
    BY <1>1
  <1>5. Owned'
    BY <1>1, <1>3 DEF Owned, Running
  <1>6. Ordered'
    BY <1>1 DEF Ordered, Running
  <1>7. ASSUME NEW t \in Servers, Running(t), Spill(t, current[t]) \in spills \ aged
        PROVE  Spill(t, current[t]) \in spills'
    BY <1>1, <1>7 DEF Swept, Alive, Spill
  <1> QED
    BY <1>3, <1>4, <1>5, <1>6, <1>7 DEF SpillExact

(* A server that removes a file of its own touches no other server's. *)
LEMMA RemovalExact ==
    ASSUME SpillInv, NEW s \in Servers, NEW n \in Nat, Keep(spills \ {Spill(s, n)}),
           UNCHANGED <<pid, started, sequence>>,
           \A t \in Servers \ {s} : current'[t] = current[t],
           current'[s] # current[s] \/ n # current[s]
    PROVE  SpillExact /\ Owned' /\ aged' \subseteq spills'
  <1>1. Owned' /\ aged' \subseteq spills'
    BY FewerOwned
  <1>2. ASSUME NEW t \in Servers, Spill(t, current[t]) \in spills \ spills'
        PROVE  current'[t] # current[t]
    <2>1. Spill(t, current[t]) = Spill(s, n)
      BY <1>2 DEF Keep
    <2>2. t = s /\ n = current[s]
      BY <2>1 DEF Spill
    <2> QED
      BY <2>2
  <1> QED
    BY <1>1, <1>2 DEF SpillExact

(* Each step keeps the invariant and sweeps exactly. *)
LEMMA SpillStep ==
    ASSUME SpillInv, [SpillNext]_spillVars
    PROVE  SpillInv' /\ [SpillExact]_spillVars
  <1> USE DEF SpillInv, SpillTypeOK
  <1>1. ASSUME NEW s \in Servers, EndSpill(s)
        PROVE  SpillInv' /\ SpillExact
    <2>1. /\ Keep(spills \ {Spill(s, current[s])}) /\ current' = [current EXCEPT ![s] = sequence[s]]
          /\ writing' = writing \ {s} /\ UNCHANGED <<pid, started, sequence>> /\ s \in writing
      BY <1>1 DEF EndSpill
    <2>2. current'[s] # current[s]
      BY <2>1 DEF Ordered
    <2>3. SpillExact /\ Owned' /\ aged' \subseteq spills'
      BY <2>1, <2>2, RemovalExact
    <2>4. Ordered'
      BY <2>1 DEF Ordered, Running
    <2> QED
      BY <2>1, <2>3, <2>4
  <1>2. ASSUME NEW s \in Servers, SpillFails(s)
        PROVE  SpillInv' /\ SpillExact
    <2>1. /\ Keep(spills \ {Spill(s, sequence[s])}) /\ writing' = writing \ {s}
          /\ UNCHANGED <<pid, started, current, sequence>> /\ s \in writing
      BY <1>2 DEF SpillFails
    <2>2. sequence[s] # current[s] /\ sequence[s] \in Nat
      BY <2>1 DEF Ordered
    <2>3. SpillExact /\ Owned' /\ aged' \subseteq spills'
      BY <2>1, <2>2, RemovalExact
    <2>4. Ordered'
      BY <2>1 DEF Ordered, Running
    <2> QED
      BY <2>1, <2>3, <2>4
  <1>3. ASSUME NEW s \in Servers, RemoveCurrent(s)
        PROVE  SpillInv' /\ SpillExact
    <2>1. /\ Keep(spills \ {Spill(s, current[s])}) /\ current' = [current EXCEPT ![s] = 0]
          /\ UNCHANGED <<pid, started, sequence, writing>> /\ current[s] # 0
      BY <1>3 DEF RemoveCurrent
    <2>2. SpillExact /\ Owned' /\ aged' \subseteq spills'
      BY <2>1, RemovalExact
    <2>3. Ordered'
      BY <2>1 DEF Ordered, Running
    <2> QED
      BY <2>1, <2>2, <2>3
  <1>4. ASSUME NEW s \in Servers, Exit(s)
        PROVE  SpillInv' /\ SpillExact
    <2>1. /\ Keep(spills \ {Spill(s, current[s])}) /\ current' = [current EXCEPT ![s] = 0]
          /\ pid' = [pid EXCEPT ![s] = NoPid] /\ s \notin writing
          /\ UNCHANGED <<started, sequence, writing>>
      BY <1>4 DEF Exit
    <2>2. Owned' /\ aged' \subseteq spills'
      BY <2>1, FewerOwned
    <2>3. ASSUME NEW t \in Servers, current[t] # 0, Spill(t, current[t]) \in spills \ spills'
          PROVE  current'[t] # current[t]
      <3>1. Spill(t, current[t]) = Spill(s, current[s])
        BY <2>1, <2>3 DEF Keep
      <3>2. t = s
        BY <3>1 DEF Spill
      <3> QED
        BY <2>1, <2>3, <3>2
    <2>4. Ordered'
      BY <2>1 DEF Ordered, Running
    <2> QED
      BY <2>1, <2>2, <2>3, <2>4 DEF SpillExact
  <1>5. ASSUME NEW s \in Servers, Kill(s)
        PROVE  SpillInv' /\ SpillExact
    BY <1>5, SpillAssumption DEF Kill, SpillExact, Owned, Ordered, Running
  <1>6. CASE HourPasses
    BY <1>6 DEF HourPasses, SpillExact, Owned, Ordered, Running
  <1>7. CASE UNCHANGED spillVars
    BY <1>7 DEF spillVars, Owned, Ordered, Running
  <1> QED
    BY <1>1, <1>2, <1>3, <1>4, <1>5, <1>6, <1>7, StartExact, BeginExact DEF SpillNext

(* However many servers share the directory and die in it, no sweep takes a file that a    *)
(* running server names, and a spill leaves none of a killed one.                          *)
THEOREM SweepStaysExact == SpillSpec => SweepIsExact
  <1>1. SpillInit => SpillInv
    BY SpillAssumption DEF SpillInit, SpillInv, SpillTypeOK, Owned, Ordered, Running
  <1>2. SpillInv /\ [SpillNext]_spillVars => SpillInv' /\ [SpillExact]_spillVars
    BY SpillStep
  <1> QED
    BY <1>1, <1>2, PTL DEF SpillSpec, SweepIsExact, SpillExact
=============================================================================
