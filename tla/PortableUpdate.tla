---------------------------- MODULE PortableUpdate ----------------------------
(***************************************************************************)
(* Updating the portable desktop application on Windows.  The running      *)
(* application stages the new executable, starts it as a replacement       *)
(* process (update/mod.rs) and exits (desktop.rs); the replacement waits   *)
(* for that, swaps the executables by renaming, starts the new one and     *)
(* takes the swap back unless it reports that it is ready                  *)
(* (update/replacement.rs).  Every file operation may fail, and the        *)
(* machine may stop between any two of them.                               *)
(***************************************************************************)
EXTENDS Integers, FiniteSets

CONSTANTS
    MaxUpdates,   \* updates tried
    MaxFaults     \* file operations that fail, crashes and hung exits

VARIABLES
    app,          \* [state, version] of the application the user runs
    updater,      \* the step the replacement process is at
    staged,       \* version of the replacement process
    child,        \* the application the replacement started
    files,        \* content of target, backup (.old) and pending (.new)
    marks,        \* marker files present: "started", "ready"
    proven,       \* versions that have run
    updates,
    faults

updateVars == <<app, updater, staged, child, files, marks, proven, updates, faults>>

None == 0
Torn == -1
Ended == {"idle", "failed", "done"}

Init ==
    /\ app = [state |-> "running", version |-> 1]
    /\ updater = "idle"
    /\ staged = None
    /\ child = "none"
    /\ files = [target |-> 1, backup |-> None, pending |-> None]
    /\ marks = {}
    /\ proven = {1}
    /\ updates = 0
    /\ faults = 0

Fault == faults < MaxFaults /\ faults' = faults + 1
NoFault == UNCHANGED faults

-----------------------------------------------------------------------------
(* The running application.                                                *)

\* install_portable_update: the payload is checked and staged outside the
\* application's directory, and the replacement process is started on it.
InstallUpdate ==
    /\ app.state = "running"
    /\ updater \in Ended
    /\ updates < MaxUpdates
    /\ updates' = updates + 1
    /\ staged' = updates + 2
    /\ app' = [app EXCEPT !.state = "handshake"]
    /\ updater' = "start"
    /\ marks' = marks \ {"started"}
    /\ child' = "none"
    /\ UNCHANGED <<files, proven, faults>>

\* wait_for_replacement_start: the marker makes the application exit; when the
\* process ends, or five seconds pass, it is killed and the user keeps going.
ReplacementStarted ==
    /\ app.state = "handshake"
    /\ "started" \in marks
    /\ app' = [app EXCEPT !.state = "exiting"]
    /\ UNCHANGED <<updater, staged, child, files, marks, proven, updates, faults>>

ReplacementLate ==
    /\ app.state = "handshake"
    /\ updater \in {"start", "wait", "failed"}
    /\ app' = [app EXCEPT !.state = "running"]
    /\ updater' = "failed"
    /\ Fault
    /\ UNCHANGED <<staged, child, files, marks, proven, updates>>

\* The first exit request is held back while the server shuts down, at most
\* eleven seconds; the next one, the application's own or the user's, passes.
AppExits ==
    /\ app.state = "exiting"
    /\ app' = [app EXCEPT !.state = "gone"]
    /\ UNCHANGED <<updater, staged, child, files, marks, proven, updates, faults>>

\* The user starts what is installed.
UserStarts ==
    /\ app.state = "gone"
    /\ child \notin {"starting", "up"}
    /\ updater \in Ended
    /\ files.target > None
    /\ app' = [state |-> "running", version |-> files.target]
    /\ proven' = proven \cup {files.target}
    /\ UNCHANGED <<updater, staged, child, files, marks, updates, faults>>

-----------------------------------------------------------------------------
(* The replacement process.                                                *)

Goto(step) ==
    /\ updater' = step
    /\ UNCHANGED <<app, staged, child, proven, updates>>

\* One file operation: done, or failed with its files as they were.
Do(step, next, after, onError) ==
    /\ updater = step
    /\ \/ /\ files' = after
          /\ NoFault
          /\ Goto(next)
       \/ /\ Fault
          /\ UNCHANGED files
          /\ Goto(onError)
    /\ UNCHANGED marks

\* wait_for_process, before and while it waits.
UpdaterStarts ==
    /\ updater = "start"
    /\ marks' = marks \cup {"started"}
    /\ Goto("wait")
    /\ NoFault
    /\ UNCHANGED files

\* The wait ends in an error when the application is not gone in thirty seconds.
WaitForProcess ==
    /\ updater = "wait"
    /\ \/ app.state = "gone" /\ NoFault /\ Goto("clear")
       \/ app.state = "exiting" /\ Fault /\ Goto("failed")
    /\ UNCHANGED <<files, marks>>

\* The markers of this and of an earlier update are removed; an error here ends
\* the process with nothing started.
ClearMarkers ==
    /\ updater = "clear"
    /\ \/ /\ marks' = {}
          /\ NoFault
          /\ Goto("pending")
       \/ /\ Fault
          /\ UNCHANGED marks
          /\ Goto("failed")
    /\ UNCHANGED files

\* install_staged.
RemovePending == Do("pending", "copy", [files EXCEPT !.pending = None], "relaunch")

CopyStaged ==
    /\ updater = "copy"
    /\ \/ /\ files' = [files EXCEPT !.pending = staged]
          /\ NoFault
          /\ Goto("backup")
       \/ /\ files' = [files EXCEPT !.pending = Torn]
          /\ Fault
          /\ Goto("relaunch")
    /\ UNCHANGED marks

\* activate_pending.
RemoveBackup == Do("backup", "move", [files EXCEPT !.backup = None], "drop")
MoveTarget ==
    Do("move", "place", [files EXCEPT !.backup = files.target, !.target = None], "drop")
PlacePending ==
    Do("place", "spawn", [files EXCEPT !.target = files.pending, !.pending = None], "unplace")

\* restore_backup after a failed rename; if that fails too, there is no target.
Unplace ==
    Do("unplace", "drop", [files EXCEPT !.target = files.backup, !.backup = None], "drop")
DropPending ==
    Do("drop", "relaunch", [files EXCEPT !.pending = None], "relaunch")

SpawnTarget ==
    /\ updater = "spawn"
    /\ \/ /\ NoFault
          /\ child' = "starting"
          /\ updater' = "ready"
       \/ /\ Fault
          /\ updater' = "remove"
          /\ UNCHANGED child
    /\ UNCHANGED <<app, staged, files, marks, proven, updates>>

\* The new application gets through its setup, or stops, or hangs.
ChildReady ==
    /\ child = "starting"
    /\ child' = "up"
    /\ marks' = marks \cup {"ready"}
    /\ proven' = proven \cup {files.target}
    /\ UNCHANGED <<app, updater, staged, files, updates, faults>>

ChildStops ==
    /\ child = "starting"
    /\ child' = "stopped"
    /\ UNCHANGED <<app, updater, staged, files, marks, proven, updates, faults>>

\* wait_until_ready looks for the marker, for the end of the process, and at
\* the clock.
SeesSpawned ==
    /\ updater = "ready"
    /\ updater' = "confirm"
    /\ UNCHANGED <<app, staged, child, files, marks, proven, updates, faults>>

SeesReady ==
    /\ updater = "ready"
    /\ "ready" \in marks
    /\ updater' = "confirm"
    /\ UNCHANGED <<app, staged, child, files, marks, proven, updates, faults>>

GivesUp ==
    /\ updater = "ready"
    /\ "ready" \notin marks
    /\ updater' = "kill"
    /\ UNCHANGED <<app, staged, child, files, marks, proven, updates, faults>>

\* The child is killed, even if it has become ready since.
KillChild ==
    /\ updater = "kill"
    /\ child' = "stopped"
    /\ updater' = "remove"
    /\ UNCHANGED <<app, staged, files, marks, proven, updates, faults>>

\* The backup is not needed any more; neither removal is checked.
Confirm ==
    /\ updater = "confirm"
    /\ files' \in {files, [files EXCEPT !.backup = None]}
    /\ marks' = marks \ {"ready"}
    /\ updater' = "done"
    /\ app' = [state |-> "running", version |-> files.target]
    /\ child' = "none"
    /\ UNCHANGED <<staged, proven, updates, faults>>

\* restore_backup of a version that is not ready.
RemoveTarget == Do("remove", "return", [files EXCEPT !.target = None], "failed")
ReturnBackup ==
    Do("return", "relaunch", [files EXCEPT !.target = files.backup, !.backup = None], "failed")

Relaunch ==
    /\ updater = "relaunch"
    /\ updater' = "failed"
    /\ app' = IF files.target > None
              THEN [state |-> "running", version |-> files.target] ELSE app
    /\ proven' = IF files.target > None THEN proven \cup {files.target} ELSE proven
    /\ UNCHANGED <<staged, child, files, marks, updates, faults>>

\* The machine stops.
Crash ==
    /\ Fault
    /\ updater \notin Ended
    /\ app' = [app EXCEPT !.state = "gone"]
    /\ child' = "stopped"
    /\ updater' = "failed"
    /\ UNCHANGED <<staged, files, marks, proven, updates>>

Next ==
    \/ InstallUpdate \/ ReplacementStarted \/ ReplacementLate \/ AppExits \/ UserStarts
    \/ UpdaterStarts \/ WaitForProcess \/ ClearMarkers \/ RemovePending \/ CopyStaged
    \/ RemoveBackup \/ MoveTarget \/ PlacePending \/ Unplace \/ DropPending \/ SpawnTarget
    \/ ChildReady \/ ChildStops \/ SeesReady \/ GivesUp \/ KillChild \/ Confirm
    \/ RemoveTarget \/ ReturnBackup \/ Relaunch \/ Crash

Spec == Init /\ [][Next]_updateVars

-----------------------------------------------------------------------------
(* Properties.                                                             *)

Alive ==
    {p \in {"app", "child"} :
       \/ p = "app" /\ app.state # "gone"
       \/ p = "child" /\ child \in {"starting", "up"}}

\* Whatever fails and whenever the machine stops, an executable that has run
\* is on the disk, as the application or as its backup.
WorkingCopyKept == files.target \in proven \/ files.backup \in proven

\* The new version is never started while the old one still runs: the
\* single-instance lock of the old one would turn it away.
OneAppAlive == Cardinality(Alive) <= 1

\* An update in which nothing failed leaves an application running, the one
\* that is installed.
AppComesBack ==
    (updater \in {"failed", "done"} /\ faults = 0) =>
      /\ app.state # "gone"
      /\ app.version = files.target

\* What a user may rely on during an update, whatever fails and whenever the
\* machine stops (update/mod.rs, update/replacement.rs).
UpdateIsSafe == WorkingCopyKept /\ OneAppAlive /\ AppComesBack
=============================================================================
