----------------------------- MODULE ScreenFiles -----------------------------
(***************************************************************************)
(* The files a screenshot leaves on disk (screenshot.rs).  A capture asks  *)
(* one backend after the other; GNOME Shell and gnome-screenshot write to  *)
(* a temporary path the program names, the desktop portal to a path it     *)
(* chooses, often in the user's Pictures.  The program reads the picture   *)
(* and deletes the file, and must not delete a file of the user's: one     *)
(* that was there before, or took the name of the picture since.           *)
(***************************************************************************)
EXTENDS Naturals, FiniteSets, Sequences

CONSTANTS
    Captures,
    Names,      \* paths the portal and the user write to
    Pictures,   \* those of them in the Pictures directory
    Inodes,
    NoFile,     \* no file, path or capture
    BirthTimes, \* the file system records when a file was created
    Ladder,     \* the backends each capture tries: several, or a forced one
    MaxUserActs \* bound on what the user does with files

ASSUME ScreenFilesAssumption ==
    /\ Pictures \subseteq Names
    /\ NoFile \notin Captures \cup Names \cup Inodes
    /\ Names \cap (Captures \X {"shell", "cli"}) = {}
    /\ BirthTimes \in BOOLEAN
    /\ Ladder \in [Captures -> Seq({"pixelflux", "shell", "snapshot", "x11", "cli"})]
    /\ MaxUserActs \in Nat

Temp(c, backend) == <<c, backend>>
Paths == Names \cup (Captures \X {"shell", "cli"})

VARIABLES
    files,   \* what each path names: a file or NoFile
    capture, \* how far each capture is
    late,    \* writers that go on after their capture stopped waiting for them
    pipeline, \* the capture whose turn it is, or NoFile
    worker,  \* the capture whose picture is being read, which goes on when its call is dropped
    userActs

screenVars == <<files, capture, late, pipeline, worker, userActs>>

NoCapture == [at |-> "idle", ladder |-> <<>>, names |-> {}, snapshot |-> FALSE, path |-> NoFile,
              pin |-> NoFile, live |-> TRUE]
ScreenInit ==
    /\ files \in {f \in [Paths -> {NoFile} \cup
                         {[maker |-> "user", inode |-> i, after |-> {}] : i \in Inodes}] :
                    /\ \A p \in Paths \ Names : f[p] = NoFile
                    /\ \A p, q \in Paths : f[p] # NoFile /\ f[p] = f[q] => p = q}
    /\ capture = [c \in Captures |-> NoCapture]
    /\ late = {}
    /\ pipeline = NoFile
    /\ worker = NoFile
    /\ userActs = 0

(***************************************************************************)
(* Files.                                                                  *)
(***************************************************************************)

In(c, at) == capture[c].at = at
Linked == {p \in Paths : files[p] # NoFile}

\* An inode is taken again once no path and no open file refers to it.
FreeInodes == (Inodes \ {files[p].inode : p \in Linked}) \ {capture[c].pin : c \in Captures}

\* Captures that have asked the portal and not yet opened the file it names: to them a file
\* made now is new.
Requested == {c \in Captures : capture[c].at \in {"portal", "preparing"}}

\* Captures that have noted the names in Pictures: to them a name that comes there is new.
Noted ==
    {c \in Captures : capture[c].at \in {"noted", "portal", "preparing"} /\ capture[c].snapshot}
NewNameTo(path) == IF path \in Pictures THEN Noted ELSE {}

Creates(path, maker) ==
    /\ files[path] = NoFile
    /\ \E i \in FreeInodes :
        files' = [files EXCEPT ![path] =
            [maker |-> maker, inode |-> i, after |-> Requested \cup NewNameTo(path)]]

Moves(from, to) ==
    /\ files[from] # NoFile /\ files[to] = NoFile
    /\ files' = [files EXCEPT ![from] = NoFile,
                              ![to] = [files[from] EXCEPT !.after = @ \cup NewNameTo(to)]]

Removes(path) == files' = [files EXCEPT ![path] = NoFile]

(***************************************************************************)
(* The ladder: GNOME Shell, the portal, X11, gnome-screenshot.             *)
(***************************************************************************)

Update(c, r) == capture' = [capture EXCEPT ![c] = r]
Goes(c, at) == Update(c, [capture[c] EXCEPT !.at = at])
Idle == UNCHANGED <<late, pipeline, worker, userActs>>

\* The screenshot tools wait for their turn; a capture for the pointer, the desktop's size
\* or an element does not.
BeginCapture(c) ==
    /\ In(c, "idle")
    /\ \/ pipeline = NoFile /\ pipeline' = c
       \/ UNCHANGED pipeline
    /\ Update(c, [capture[c] EXCEPT !.at = "next", !.ladder = Ladder[c]])
    /\ UNCHANGED <<files, late, worker, userActs>>

\* The first backend, or the next after a failure.
TryNext(c) ==
    /\ In(c, "next")
    /\ LET l == capture[c].ladder
       IN IF l = <<>> THEN Goes(c, "end")
          ELSE Update(c, [NoCapture EXCEPT !.at = Head(l), !.ladder = Tail(l)])
    /\ UNCHANGED files /\ Idle

\* The result is in, or every backend failed.
Return(c) ==
    /\ In(c, "end")
    /\ Update(c, [NoCapture EXCEPT !.at = "done"])
    /\ pipeline' = IF pipeline = c THEN NoFile ELSE pipeline
    /\ UNCHANGED <<files, late, worker, userActs>>

\* Pixelflux and an X server are read without a file.  A pixelflux that is reached and
\* fails ends the capture.
ReadWithoutFile(c) ==
    /\ capture[c].at \in {"pixelflux", "x11"}
    /\ Goes(c, "end") \/ Goes(c, "next")
    /\ UNCHANGED files /\ Idle

\* The Shell writes the picture to the path it was given, then answers; it may still do
\* so when the call was dropped.
ShellWrites(c) ==
    /\ In(c, "shell") \/ <<c, "shell">> \in late
    /\ Creates(Temp(c, "shell"), c)
    /\ late' = late \ {<<c, "shell">>}
    /\ UNCHANGED <<capture, pipeline, worker, userActs>>

ShellAnswers(c) ==
    /\ In(c, "shell")
    /\ files[Temp(c, "shell")] # NoFile
    /\ Update(c, [capture[c] EXCEPT !.at = "waiting", !.path = Temp(c, "shell")])
    /\ UNCHANGED files /\ Idle

\* cleanup_gnome_requested_path
ShellFails(c) ==
    /\ In(c, "shell")
    /\ Removes(Temp(c, "shell"))
    /\ Goes(c, "next")
    /\ Idle

\* The names in Pictures are noted before the portal is asked, if they can be read in
\* time.
NoteNames(c) ==
    /\ In(c, "snapshot")
    /\ \E read \in BOOLEAN :
        Update(c, [capture[c] EXCEPT !.at = "noted", !.snapshot = read,
                       !.names = IF read THEN Linked \cap Pictures ELSE {}])
    /\ UNCHANGED files /\ Idle

\* The time of the request is noted, and the request sent.
AskPortal(c) == In(c, "noted") /\ Goes(c, "portal") /\ UNCHANGED files /\ Idle

PortalWrites(c) ==
    /\ In(c, "portal") \/ <<c, "portal">> \in late
    /\ \A p \in Linked : files[p].maker # c
    /\ \E n \in Names : Creates(n, c)
    /\ late' = late \ {<<c, "portal">>}
    /\ UNCHANGED <<capture, pipeline, worker, userActs>>

\* The response names the picture, or any file of the user's.
PortalAnswers(c) ==
    /\ In(c, "portal")
    /\ \E n \in Linked \cap Names :
        /\ files[n].maker \in {c, "user"}
        /\ Update(c, [capture[c] EXCEPT !.at = "preparing", !.path = n])
    /\ UNCHANGED files /\ Idle

\* Not there, refused, cancelled by the user, or no response in 20 seconds: the portal may
\* yet write if it was asked.
PortalFails(c) ==
    /\ capture[c].at \in {"snapshot", "portal"}
    /\ Goes(c, "next")
    /\ \/ UNCHANGED late
       \/ In(c, "portal") /\ late' = late \cup {<<c, "portal">>}
    /\ UNCHANGED <<files, pipeline, worker, userActs>>

CliWrites(c) ==
    /\ In(c, "cli") \/ <<c, "cli">> \in late
    /\ Creates(Temp(c, "cli"), c)
    /\ late' = late \ {<<c, "cli">>}
    /\ UNCHANGED <<capture, pipeline, worker, userActs>>

CliExits(c) ==
    /\ In(c, "cli")
    /\ files[Temp(c, "cli")] # NoFile
    /\ Update(c, [capture[c] EXCEPT !.at = "waiting", !.path = Temp(c, "cli")])
    /\ UNCHANGED files /\ Idle

\* It does not start, fails, or is killed after 20 seconds.
CliFails(c) ==
    /\ In(c, "cli")
    /\ Removes(Temp(c, "cli"))
    /\ Goes(c, "next")
    /\ Idle

(***************************************************************************)
(* The file is prepared, read and deleted.                                 *)
(***************************************************************************)

\* OwnedScreenshotCleanup::new: a new name in Pictures, or a file created after the
\* request anywhere else.
Proven(c, path) ==
    IF path \in Pictures /\ capture[c].snapshot
    THEN path \notin capture[c].names
    ELSE BirthTimes /\ c \in files[path].after

\* The file is opened, which keeps its inode from being used again.
PreparePath(c) ==
    /\ In(c, "preparing")
    /\ LET path == capture[c].path
           proven == path \in Linked /\ Proven(c, path)
       IN Update(c, [capture[c] EXCEPT !.at = "waiting",
                         !.pin = IF proven THEN files[path].inode ELSE NoFile])
    /\ UNCHANGED files /\ Idle

\* Preparing takes a second or more: the result is dropped when it comes, and with it
\* the file, and the next backend is asked.
PrepareTimesOut(c) ==
    /\ In(c, "preparing")
    /\ LET path == capture[c].path
       IN IF path \in Linked /\ Proven(c, path) THEN Removes(path) ELSE UNCHANGED files
    /\ Goes(c, IF capture[c].live THEN "next" ELSE "end")
    /\ Idle

StartReading(c) ==
    /\ In(c, "waiting")
    /\ worker = NoFile
    /\ worker' = c
    /\ Goes(c, "reading")
    /\ UNCHANGED <<files, late, pipeline, userActs>>

ReadPicture(c) == In(c, "reading") /\ Goes(c, "cleaning") /\ UNCHANGED files /\ Idle

\* Mutant: whatever has the name now is deleted.
DeletesByName(c) == TRUE

\* A path of its own, or the portal's while it still names the file that was opened.
Deletes(c) ==
    \/ capture[c].path \notin Names
    \/ /\ capture[c].pin # NoFile
       /\ files[capture[c].path] # NoFile
       /\ files[capture[c].path].inode = capture[c].pin

CleansUp(c) == IF Deletes(c) THEN Removes(capture[c].path) ELSE UNCHANGED files

\* cleanup_now; the picture was good, or the next backend is asked.
CleanUp(c) ==
    /\ In(c, "cleaning")
    /\ CleansUp(c)
    /\ worker' = NoFile
    /\ \E at \in IF capture[c].live THEN {"end", "next"} ELSE {"end"} :
        Update(c, [capture[c] EXCEPT !.at = at, !.path = NoFile, !.pin = NoFile])
    /\ UNCHANGED <<late, pipeline, userActs>>

(***************************************************************************)
(* Cancellation, and the user.                                             *)
(***************************************************************************)

LetGo(c) ==
    /\ capture[c].live
    /\ capture[c].at \notin {"idle", "end", "done"}
    /\ pipeline' = IF pipeline = c THEN NoFile ELSE pipeline
    /\ late' = IF capture[c].at \in {"shell", "portal", "cli"}
               THEN late \cup {<<c, capture[c].at>>} ELSE late

\* Mutant: what is dropped in the queue takes no file with it.
CancelForgets(c) ==
    /\ LetGo(c)
    /\ Update(c, [capture[c] EXCEPT !.live = FALSE,
                      !.at = IF @ \in {"preparing", "reading", "cleaning"} THEN @ ELSE "end"])
    /\ UNCHANGED <<files, worker, userActs>>

\* The call is dropped: a writer goes on, a file in the queue is deleted by drop, one
\* being prepared, read or deleted is seen through by its thread.
Cancel(c) ==
    /\ LetGo(c)
    /\ Update(c, [capture[c] EXCEPT !.live = FALSE,
                      !.at = IF @ \in {"preparing", "reading", "cleaning"} THEN @
                             ELSE IF @ = "waiting" THEN "dropped" ELSE "end"])
    /\ UNCHANGED <<files, worker, userActs>>

\* OwnedScreenshotCleanup::drop: at once, or on a blocking thread.
DropCleanup(c) ==
    /\ In(c, "dropped") \/ (In(c, "waiting") /\ ~capture[c].live)
    /\ CleansUp(c)
    /\ Update(c, [capture[c] EXCEPT !.at = "end", !.path = NoFile, !.pin = NoFile])
    /\ Idle

UserActs ==
    /\ userActs < MaxUserActs
    /\ userActs' = userActs + 1
    /\ \E n \in Names :
        \/ Creates(n, "user")
        \/ n \in Linked /\ Removes(n)
        \/ \E m \in Names : Moves(n, m)
    /\ UNCHANGED <<capture, late, pipeline, worker>>

Asks(c) ==
    BeginCapture(c) \/ TryNext(c) \/ Return(c) \/ ReadWithoutFile(c) \/ ShellAnswers(c)
      \/ ShellFails(c) \/ NoteNames(c) \/ AskPortal(c) \/ PortalAnswers(c) \/ PortalFails(c) \/ CliExits(c)
      \/ CliFails(c)
Writes(c) == ShellWrites(c) \/ PortalWrites(c) \/ CliWrites(c)
CleanupStep(c) ==
    PreparePath(c) \/ PrepareTimesOut(c) \/ StartReading(c) \/ ReadPicture(c) \/ CleanUp(c)
      \/ DropCleanup(c)

ScreenNext ==
    \/ \E c \in Captures : Asks(c) \/ Writes(c) \/ CleanupStep(c) \/ Cancel(c)
    \/ UserActs

ScreenSpec == ScreenInit /\ [][ScreenNext]_screenVars

\* A permit is handed on in order and blocking threads run.
ScreenFairness == \A c \in Captures :
    /\ WF_screenVars(PreparePath(c) \/ PrepareTimesOut(c) \/ ReadPicture(c) \/ CleanUp(c)
                       \/ DropCleanup(c))
    /\ SF_screenVars(StartReading(c))
ScreenFairSpec == ScreenSpec /\ ScreenFairness

(***************************************************************************)
(* Properties                                                              *)
(***************************************************************************)

\* A capture deletes no file the user had in Pictures when it noted the names there (elsewhere,
\* or with no names noted, none made before it asked the portal), whatever the portal answers,
\* and none the user made or moved since it opened the picture, whatever name that file took
\* and however long the picture waits to be read.  A file the user saves in between, or moves
\* to Pictures, may go, if the portal names it or it takes the picture's name.
UserFilesSurvive ==
    [][\A n \in Names :
        files[n] # NoFile /\ files'[n] # files[n] /\ files[n].maker = "user"
          => \/ userActs' = userActs + 1
             \/ \E c \in files[n].after : capture'[c] # capture[c]]_screenVars

\* The file a cleanup has charge of.
Charge(c) ==
    IF capture[c].path = NoFile THEN NoFile
    ELSE IF files[capture[c].path] # NoFile /\ Deletes(c) THEN files[capture[c].path].inode
    ELSE NoFile

\* A picture is deleted once its capture has charge of it, even if the call is cancelled
\* in the queue or during the reading.
ChargedFilesGo ==
    \A c \in Captures : Charge(c) # NoFile ~> Charge(c) = NoFile

\* A capture's own picture goes, and nothing else does.
OnlyItsPictureGoes == UserFilesSurvive /\ ChargedFilesGo
=============================================================================
