------------------------- MODULE InstallationProofs -------------------------
(* Proofs about PortableUpdate, for any number of updates and of faults, and *)
(* about RuntimeInstall, for any set of requests to initialize and any       *)
(* number of crashes and lost files.                                         *)
EXTENDS PortableUpdate, RuntimeInstall, FiniteSetTheorems, TLAPS

UpdaterSteps ==
  {"start", "wait", "clear", "pending", "copy", "backup", "move", "place", "unplace", "drop",
   "spawn", "ready", "kill", "confirm", "remove", "return", "relaunch"} \cup Ended

AppTypes == app \in [state : {"running", "handshake", "exiting", "gone"}, version : Int]
FileTypes == files \in [target : Int, backup : Int, pending : Int]
StepTypes == updater \in UpdaterSteps /\ staged \in Int /\ updates \in Nat /\ faults \in Nat
ProvenTypes == proven \subseteq Nat \ {0}
Types == AppTypes /\ FileTypes /\ StepTypes /\ ProvenTypes

\* The replacement swaps files only once the application is gone, and has a
\* child only while it waits for it.
Alone ==
  /\ app.state \in {"handshake", "exiting"} =>
       updater \in {"start", "wait"} \/ (updater = "failed" /\ faults # 0)
  /\ updater \notin {"start", "wait"} \cup Ended => app.state = "gone"
  /\ updater \in {"start", "wait"} => app.state # "running"
  /\ child \in {"starting", "up"} => updater \in {"ready", "kill", "confirm"}

\* Where the copy is that has run: the target until it is moved, the backup from
\* then on, and the target again once it has been started or restored.
CopyPlaced ==
  /\ app.state # "gone" => files.target \in proven
  /\ updater \in {"start", "wait", "clear", "pending", "copy", "backup", "move"} =>
       files.target \in proven
  /\ updater \in {"place", "unplace", "spawn", "ready", "kill", "remove", "return"} =>
       files.backup \in proven
  /\ updater \in {"drop", "relaunch"} /\ faults = 0 => files.target \in proven
  /\ updater = "confirm" => files.target \in proven

\* The new version is whole when it is placed, and its mark is not an old one.
NewPlaced ==
  /\ updater \notin Ended => staged \in Nat \ {0}
  /\ updater \in {"backup", "move", "place"} => files.pending = staged
  /\ updater \in {"spawn", "ready", "kill"} => files.target \in Nat \ {0}
  /\ updater \in {"pending", "copy", "backup", "move", "place", "spawn"} => "ready" \notin marks
  /\ updater = "ready" /\ "ready" \in marks => files.target \in proven

\* An update that nothing disturbed ends with the application running.
Undisturbed ==
  faults = 0 /\ updater \in Ended => app.state = "running" /\ app.version = files.target

\* The inductive invariant.
IInv == Types /\ Alone /\ CopyPlaced /\ NewPlaced /\ Undisturbed /\ WorkingCopyKept

-----------------------------------------------------------------------------
LEMMA InitIInv == Init => IInv
  BY
    DEF Init, IInv, Types, AppTypes, FileTypes, StepTypes, ProvenTypes, UpdaterSteps, Ended, Alone,
        CopyPlaced, NewPlaced, Undisturbed,
         WorkingCopyKept, None

\* A rename moves a content from one name to another.
LEMMA Restored ==
  ASSUME FileTypes, files' = [files EXCEPT !.target = files.backup, !.backup = None]
  PROVE  /\ FileTypes'
         /\ files'.target = files.backup /\ files'.backup = None /\ files'.pending = files.pending
<1>1. files.target \in Int /\ files.backup \in Int /\ files.pending \in Int /\ None \in Int
  BY DEF FileTypes, None
<1>2. files' = [target |-> files.backup, backup |-> None, pending |-> files.pending]
  BY Zenon DEF FileTypes
<1>3. files' \in [target : Int, backup : Int, pending : Int]
  BY Zenon, <1>1, <1>2
<1> QED BY Zenon, <1>2, <1>3 DEF FileTypes

LEMMA Placed ==
  ASSUME FileTypes, files' = [files EXCEPT !.target = files.pending, !.pending = None]
  PROVE  /\ FileTypes'
         /\ files'.target = files.pending /\ files'.pending = None /\ files'.backup = files.backup
<1>1. files.target \in Int /\ files.backup \in Int /\ files.pending \in Int /\ None \in Int
  BY DEF FileTypes, None
<1>2. files' = [target |-> files.pending, backup |-> files.backup, pending |-> None]
  BY Zenon DEF FileTypes
<1>3. files' \in [target : Int, backup : Int, pending : Int]
  BY Zenon, <1>1, <1>2
<1> QED BY Zenon, <1>2, <1>3 DEF FileTypes

LEMMA Moved ==
  ASSUME FileTypes, files' = [files EXCEPT !.backup = files.target, !.target = None]
  PROVE  /\ FileTypes'
         /\ files'.backup = files.target /\ files'.target = None /\ files'.pending = files.pending
<1>1. files.target \in Int /\ files.backup \in Int /\ files.pending \in Int /\ None \in Int
  BY DEF FileTypes, None
<1>2. files' = [target |-> None, backup |-> files.target, pending |-> files.pending]
  BY Zenon DEF FileTypes
<1>3. files' \in [target : Int, backup : Int, pending : Int]
  BY Zenon, <1>1, <1>2
<1> QED BY Zenon, <1>2, <1>3 DEF FileTypes

\* A version that has run is a number.
LEMMA Runs ==
  ASSUME FileTypes, ProvenTypes, files.target \in Nat \ {0} \/ files.target > None
  PROVE  proven \cup {files.target} \subseteq Nat \ {0}
<1>1. files.target \in Int
  BY Zenon DEF FileTypes
<1>2. files.target \in Nat \ {0}
  BY <1>1 DEF None
<1> QED BY Zenon, <1>2 DEF ProvenTypes

\* The running application.
LEMMA AppStep ==
  ASSUME IInv, InstallUpdate \/ ReplacementStarted \/ ReplacementLate \/ AppExits \/ UserStarts \/ Crash
  PROVE  IInv'
<1> USE DEF IInv, Types, AppTypes, FileTypes, StepTypes, ProvenTypes, UpdaterSteps, Ended, None, Torn, Fault, NoFault, Goto, Do
<1>1. CASE InstallUpdate
  <2>1. AppTypes' /\ FileTypes'
    BY Zenon, <1>1 DEF InstallUpdate
  <2>5. StepTypes'
    BY <1>1 DEF InstallUpdate
  <2>6. ProvenTypes'
    BY Zenon, <1>1 DEF InstallUpdate, Alone, NewPlaced
  <2>2. Alone' /\ Undisturbed'
    BY Zenon, <1>1 DEF InstallUpdate, Alone, CopyPlaced, NewPlaced, Undisturbed
  <2>3. CopyPlaced'
    BY Zenon, <1>1 DEF InstallUpdate, Alone, CopyPlaced, NewPlaced, WorkingCopyKept
  <2>4. NewPlaced' /\ WorkingCopyKept'
    BY <1>1 DEF InstallUpdate, Alone, CopyPlaced, NewPlaced, WorkingCopyKept
  <2> QED BY Zenon, <2>1, <2>2, <2>3, <2>4, <2>5, <2>6
<1>2. CASE ReplacementStarted
  <2>1. AppTypes' /\ FileTypes'
    BY Zenon, <1>2 DEF ReplacementStarted
  <2>5. StepTypes'
    BY Zenon, <1>2 DEF ReplacementStarted
  <2>6. ProvenTypes'
    BY Zenon, <1>2 DEF ReplacementStarted, Alone, NewPlaced
  <2>2. Alone' /\ Undisturbed'
    BY Zenon, <1>2 DEF ReplacementStarted, Alone, CopyPlaced, NewPlaced, Undisturbed
  <2>3. CopyPlaced'
    BY Zenon, <1>2 DEF ReplacementStarted, Alone, CopyPlaced, NewPlaced, WorkingCopyKept
  <2>4. NewPlaced' /\ WorkingCopyKept'
    BY Zenon, <1>2 DEF ReplacementStarted, Alone, CopyPlaced, NewPlaced, WorkingCopyKept
  <2> QED BY <2>1, <2>2, <2>3, <2>4, <2>5, <2>6
<1>3. CASE ReplacementLate
  <2>1. AppTypes' /\ FileTypes'
    BY Zenon, <1>3 DEF ReplacementLate
  <2>5. StepTypes'
    BY <1>3 DEF ReplacementLate
  <2>6. ProvenTypes'
    BY Zenon, <1>3 DEF ReplacementLate, Alone, NewPlaced
  <2>2. Alone' /\ Undisturbed'
    BY <1>3 DEF ReplacementLate, Alone, CopyPlaced, NewPlaced, Undisturbed
  <2>3. CopyPlaced'
    BY Zenon, <1>3 DEF ReplacementLate, Alone, CopyPlaced, NewPlaced, WorkingCopyKept
  <2>4. NewPlaced' /\ WorkingCopyKept'
    BY Zenon, <1>3 DEF ReplacementLate, Alone, CopyPlaced, NewPlaced, WorkingCopyKept
  <2> QED BY <2>1, <2>2, <2>3, <2>4, <2>5, <2>6
<1>4. CASE AppExits
  <2>1. AppTypes' /\ FileTypes'
    BY Zenon, <1>4 DEF AppExits
  <2>5. StepTypes'
    BY Zenon, <1>4 DEF AppExits
  <2>6. ProvenTypes'
    BY Zenon, <1>4 DEF AppExits, Alone, NewPlaced
  <2>2. Alone' /\ Undisturbed'
    BY Zenon, <1>4 DEF AppExits, Alone, CopyPlaced, NewPlaced, Undisturbed
  <2>3. CopyPlaced'
    BY Zenon, <1>4 DEF AppExits, Alone, CopyPlaced, NewPlaced, WorkingCopyKept
  <2>4. NewPlaced' /\ WorkingCopyKept'
    BY Zenon, <1>4 DEF AppExits, Alone, CopyPlaced, NewPlaced, WorkingCopyKept
  <2> QED BY <2>1, <2>2, <2>3, <2>4, <2>5, <2>6
<1>5. CASE UserStarts
  <2>1. AppTypes' /\ FileTypes'
    BY Zenon, <1>5 DEF UserStarts
  <2>5. StepTypes'
    BY Zenon, <1>5 DEF UserStarts
  <2>6. ProvenTypes'
    BY Zenon, <1>5, Runs DEF UserStarts, Alone, NewPlaced
  <2>2. Alone' /\ Undisturbed'
    BY Zenon, <1>5 DEF UserStarts, Alone, CopyPlaced, NewPlaced, Undisturbed
  <2>3. CopyPlaced'
    BY Zenon, <1>5 DEF UserStarts, Alone, CopyPlaced, NewPlaced, WorkingCopyKept
  <2>4. NewPlaced' /\ WorkingCopyKept'
    BY Zenon, <1>5 DEF UserStarts, Alone, CopyPlaced, NewPlaced, WorkingCopyKept
  <2> QED BY <2>1, <2>2, <2>3, <2>4, <2>5, <2>6
<1>6. CASE Crash
  <2>1. AppTypes' /\ FileTypes'
    BY Zenon, <1>6 DEF Crash
  <2>5. StepTypes'
    BY <1>6 DEF Crash
  <2>6. ProvenTypes'
    BY Zenon, <1>6 DEF Crash, Alone, NewPlaced
  <2>2. Alone' /\ Undisturbed'
    BY <1>6 DEF Crash, Alone, CopyPlaced, NewPlaced, Undisturbed
  <2>3. CopyPlaced'
    BY Zenon, <1>6 DEF Crash, Alone, CopyPlaced, NewPlaced, WorkingCopyKept
  <2>4. NewPlaced' /\ WorkingCopyKept'
    BY Zenon, <1>6 DEF Crash, Alone, CopyPlaced, NewPlaced, WorkingCopyKept
  <2> QED BY <2>1, <2>2, <2>3, <2>4, <2>5, <2>6
<1> QED BY Zenon, <1>1, <1>2, <1>3, <1>4, <1>5, <1>6

\* The replacement process, up to the start of the new version.
LEMMA SwapStep ==
  ASSUME IInv, UpdaterStarts \/ WaitForProcess \/ ClearMarkers \/ RemovePending \/ CopyStaged \/ RemoveBackup \/ MoveTarget \/ PlacePending \/ Unplace \/ DropPending \/ SpawnTarget
  PROVE  IInv'
<1> USE DEF IInv, Types, AppTypes, FileTypes, StepTypes, ProvenTypes, UpdaterSteps, Ended, None, Torn, Fault, NoFault, Goto, Do
<1>1. CASE UpdaterStarts
  <2>1. AppTypes' /\ FileTypes'
    BY Zenon, <1>1 DEF UpdaterStarts
  <2>5. StepTypes'
    BY Zenon, <1>1 DEF UpdaterStarts
  <2>6. ProvenTypes'
    BY Zenon, <1>1 DEF UpdaterStarts, Alone, NewPlaced
  <2>2. Alone' /\ Undisturbed'
    BY Zenon, <1>1 DEF UpdaterStarts, Alone, CopyPlaced, NewPlaced, Undisturbed
  <2>3. CopyPlaced'
    BY Zenon, <1>1 DEF UpdaterStarts, Alone, CopyPlaced, NewPlaced, WorkingCopyKept
  <2>4. NewPlaced' /\ WorkingCopyKept'
    BY Zenon, <1>1 DEF UpdaterStarts, Alone, CopyPlaced, NewPlaced, WorkingCopyKept
  <2> QED BY Zenon, <2>1, <2>2, <2>3, <2>4, <2>5, <2>6
<1>2. CASE WaitForProcess
  <2>1. AppTypes' /\ FileTypes'
    BY Zenon, <1>2 DEF WaitForProcess
  <2>5. StepTypes'
    BY <1>2 DEF WaitForProcess
  <2>6. ProvenTypes'
    BY Zenon, <1>2 DEF WaitForProcess, Alone, NewPlaced
  <2>2. Alone' /\ Undisturbed'
    BY <1>2 DEF WaitForProcess, Alone, CopyPlaced, NewPlaced, Undisturbed
  <2>3. CopyPlaced'
    BY Zenon, <1>2 DEF WaitForProcess, Alone, CopyPlaced, NewPlaced, WorkingCopyKept
  <2>4. NewPlaced' /\ WorkingCopyKept'
    BY Zenon, <1>2 DEF WaitForProcess, Alone, CopyPlaced, NewPlaced, WorkingCopyKept
  <2> QED BY <2>1, <2>2, <2>3, <2>4, <2>5, <2>6
<1>3. CASE ClearMarkers
  <2>1. AppTypes' /\ FileTypes'
    BY Zenon, <1>3 DEF ClearMarkers
  <2>5. StepTypes'
    BY <1>3 DEF ClearMarkers
  <2>6. ProvenTypes'
    BY Zenon, <1>3 DEF ClearMarkers, Alone, NewPlaced
  <2>2. Alone' /\ Undisturbed'
    BY <1>3 DEF ClearMarkers, Alone, CopyPlaced, NewPlaced, Undisturbed
  <2>3. CopyPlaced'
    BY Zenon, <1>3 DEF ClearMarkers, Alone, CopyPlaced, NewPlaced, WorkingCopyKept
  <2>4. NewPlaced' /\ WorkingCopyKept'
    BY Zenon, <1>3 DEF ClearMarkers, Alone, CopyPlaced, NewPlaced, WorkingCopyKept
  <2> QED BY <2>1, <2>2, <2>3, <2>4, <2>5, <2>6
<1>4. CASE RemovePending
  <2>1. AppTypes' /\ FileTypes'
    BY <1>4 DEF RemovePending
  <2>5. StepTypes'
    BY <1>4 DEF RemovePending
  <2>6. ProvenTypes'
    BY Zenon, <1>4 DEF RemovePending, Alone, NewPlaced
  <2>2. Alone' /\ Undisturbed'
    BY Zenon, <1>4 DEF RemovePending, Alone, CopyPlaced, NewPlaced, Undisturbed
  <2>3. CopyPlaced'
    BY Zenon, <1>4 DEF RemovePending, Alone, CopyPlaced, NewPlaced, WorkingCopyKept
  <2>4. NewPlaced' /\ WorkingCopyKept'
    BY Zenon, <1>4 DEF RemovePending, Alone, CopyPlaced, NewPlaced, WorkingCopyKept
  <2> QED BY <2>1, <2>2, <2>3, <2>4, <2>5, <2>6
<1>5. CASE CopyStaged
  <2>1. AppTypes' /\ FileTypes'
    BY <1>5 DEF CopyStaged
  <2>5. StepTypes'
    BY <1>5 DEF CopyStaged
  <2>6. ProvenTypes'
    BY Zenon, <1>5 DEF CopyStaged, Alone, NewPlaced
  <2>2. Alone' /\ Undisturbed'
    BY Zenon, <1>5 DEF CopyStaged, Alone, CopyPlaced, NewPlaced, Undisturbed
  <2>3. CopyPlaced'
    BY Zenon, <1>5 DEF CopyStaged, Alone, CopyPlaced, NewPlaced, WorkingCopyKept
  <2>4. NewPlaced' /\ WorkingCopyKept'
    BY Zenon, <1>5 DEF CopyStaged, Alone, CopyPlaced, NewPlaced, WorkingCopyKept
  <2> QED BY <2>1, <2>2, <2>3, <2>4, <2>5, <2>6
<1>6. CASE RemoveBackup
  <2>1. AppTypes' /\ FileTypes'
    BY <1>6 DEF RemoveBackup
  <2>5. StepTypes'
    BY <1>6 DEF RemoveBackup
  <2>6. ProvenTypes'
    BY Zenon, <1>6 DEF RemoveBackup, Alone, NewPlaced
  <2>2. Alone' /\ Undisturbed'
    BY Zenon, <1>6 DEF RemoveBackup, Alone, CopyPlaced, NewPlaced, Undisturbed
  <2>3. CopyPlaced'
    BY Zenon, <1>6 DEF RemoveBackup, Alone, CopyPlaced, NewPlaced, WorkingCopyKept
  <2>4. NewPlaced' /\ WorkingCopyKept'
    BY Zenon, <1>6 DEF RemoveBackup, Alone, CopyPlaced, NewPlaced, WorkingCopyKept
  <2> QED BY <2>1, <2>2, <2>3, <2>4, <2>5, <2>6
<1>7. CASE MoveTarget
  <2>0. files' = files \/ files' = [files EXCEPT !.backup = files.target, !.target = None]
    BY Zenon, <1>7 DEF MoveTarget
  <2>7. \/ files' = files
        \/ /\ FileTypes'
           /\ files'.backup = files.target /\ files'.target = None /\ files'.pending = files.pending
    BY Zenon, <2>0, Moved
  <2>1. AppTypes' /\ FileTypes'
    BY Zenon, <1>7, <2>7 DEF MoveTarget
  <2>5. StepTypes'
    BY <1>7 DEF MoveTarget
  <2>6. ProvenTypes'
    BY Zenon, <1>7 DEF MoveTarget, Alone, NewPlaced
  <2>2. Alone' /\ Undisturbed'
    BY Zenon, <1>7 DEF MoveTarget, Alone, CopyPlaced, NewPlaced, Undisturbed
  <2>3. CopyPlaced'
    BY Zenon, <1>7 DEF MoveTarget, Alone, CopyPlaced, NewPlaced, WorkingCopyKept
  <2>4. NewPlaced' /\ WorkingCopyKept'
    BY Zenon, <1>7 DEF MoveTarget, Alone, CopyPlaced, NewPlaced, WorkingCopyKept
  <2> QED BY <2>1, <2>2, <2>3, <2>4, <2>5, <2>6
<1>8. CASE PlacePending
  <2>0. files' = files \/ files' = [files EXCEPT !.target = files.pending, !.pending = None]
    BY Zenon, <1>8 DEF PlacePending
  <2>7. \/ files' = files
        \/ /\ FileTypes'
           /\ files'.target = files.pending /\ files'.pending = None /\ files'.backup = files.backup
    BY Zenon, <2>0, Placed
  <2>1. AppTypes' /\ FileTypes'
    BY Zenon, <1>8, <2>7 DEF PlacePending
  <2>5. StepTypes'
    BY <1>8 DEF PlacePending
  <2>6. ProvenTypes'
    BY Zenon, <1>8 DEF PlacePending, Alone, NewPlaced
  <2>2. Alone' /\ Undisturbed'
    BY Zenon, <1>8 DEF PlacePending, Alone, CopyPlaced, NewPlaced, Undisturbed
  <2>3. CopyPlaced'
    BY Zenon, <1>8 DEF PlacePending, Alone, CopyPlaced, NewPlaced, WorkingCopyKept
  <2>4. NewPlaced' /\ WorkingCopyKept'
    BY Zenon, <1>8 DEF PlacePending, Alone, CopyPlaced, NewPlaced, WorkingCopyKept
  <2> QED BY <2>1, <2>2, <2>3, <2>4, <2>5, <2>6
<1>9. CASE Unplace
  <2>0. files' = files \/ files' = [files EXCEPT !.target = files.backup, !.backup = None]
    BY Zenon, <1>9 DEF Unplace
  <2>7. \/ files' = files
        \/ /\ FileTypes'
           /\ files'.target = files.backup /\ files'.backup = None /\ files'.pending = files.pending
    BY Zenon, <2>0, Restored
  <2>1. AppTypes' /\ FileTypes'
    BY Zenon, <1>9, <2>7 DEF Unplace
  <2>5. StepTypes'
    BY <1>9 DEF Unplace
  <2>6. ProvenTypes'
    BY Zenon, <1>9 DEF Unplace, Alone, NewPlaced
  <2>2. Alone' /\ Undisturbed'
    BY Zenon, <1>9 DEF Unplace, Alone, CopyPlaced, NewPlaced, Undisturbed
  <2>8. /\ updater = "unplace" /\ updater' = "drop" /\ app' = app /\ app.state = "gone"
        /\ proven' = proven /\ files.backup \in proven
        /\ \/ files' = [files EXCEPT !.target = files.backup, !.backup = None]
           \/ faults' # 0
    BY <1>9 DEF Unplace, Alone, CopyPlaced
  <2>3. CopyPlaced'
    BY Zenon, <2>8, Restored DEF CopyPlaced
  <2>4. NewPlaced' /\ WorkingCopyKept'
    BY Zenon, <1>9 DEF Unplace, Alone, CopyPlaced, NewPlaced, WorkingCopyKept
  <2> QED BY <2>1, <2>2, <2>3, <2>4, <2>5, <2>6
<1>10. CASE DropPending
  <2>1. AppTypes' /\ FileTypes'
    BY <1>10 DEF DropPending
  <2>5. StepTypes'
    BY <1>10 DEF DropPending
  <2>6. ProvenTypes'
    BY Zenon, <1>10 DEF DropPending, Alone, NewPlaced
  <2>2. Alone' /\ Undisturbed'
    BY Zenon, <1>10 DEF DropPending, Alone, CopyPlaced, NewPlaced, Undisturbed
  <2>3. CopyPlaced'
    BY <1>10 DEF DropPending, Alone, CopyPlaced, NewPlaced, WorkingCopyKept
  <2>4. NewPlaced' /\ WorkingCopyKept'
    BY Zenon, <1>10 DEF DropPending, Alone, CopyPlaced, NewPlaced, WorkingCopyKept
  <2> QED BY <2>1, <2>2, <2>3, <2>4, <2>5, <2>6
<1>11. CASE SpawnTarget
  <2>1. AppTypes' /\ FileTypes'
    BY Zenon, <1>11 DEF SpawnTarget
  <2>5. StepTypes'
    BY <1>11 DEF SpawnTarget
  <2>6. ProvenTypes'
    BY Zenon, <1>11 DEF SpawnTarget, Alone, NewPlaced
  <2>2. Alone' /\ Undisturbed'
    BY Zenon, <1>11 DEF SpawnTarget, Alone, CopyPlaced, NewPlaced, Undisturbed
  <2>3. CopyPlaced'
    BY Zenon, <1>11 DEF SpawnTarget, Alone, CopyPlaced, NewPlaced, WorkingCopyKept
  <2>4. NewPlaced' /\ WorkingCopyKept'
    BY Zenon, <1>11 DEF SpawnTarget, Alone, CopyPlaced, NewPlaced, WorkingCopyKept
  <2> QED BY <2>1, <2>2, <2>3, <2>4, <2>5, <2>6
<1> QED BY Zenon, <1>1, <1>2, <1>3, <1>4, <1>5, <1>6, <1>7, <1>8, <1>9, <1>10, <1>11

\* The new version, and the end of the replacement.
LEMMA ChildStep ==
  ASSUME IInv, ChildReady \/ ChildStops \/ SeesReady \/ GivesUp \/ KillChild \/ Confirm \/ RemoveTarget \/ ReturnBackup \/ Relaunch
  PROVE  IInv'
<1> USE DEF IInv, Types, AppTypes, FileTypes, StepTypes, ProvenTypes, UpdaterSteps, Ended, None, Torn, Fault, NoFault, Goto, Do
<1>1. CASE ChildReady
  <2>1. AppTypes' /\ FileTypes'
    BY Zenon, <1>1 DEF ChildReady
  <2>5. StepTypes'
    BY Zenon, <1>1 DEF ChildReady
  <2>6. ProvenTypes'
    BY Zenon, <1>1, Runs DEF ChildReady, Alone, NewPlaced, CopyPlaced
  <2>2. Alone' /\ Undisturbed'
    BY Zenon, <1>1 DEF ChildReady, Alone, CopyPlaced, NewPlaced, Undisturbed
  <2>3. CopyPlaced'
    BY Zenon, <1>1 DEF ChildReady, Alone, CopyPlaced, NewPlaced, WorkingCopyKept
  <2>4. NewPlaced' /\ WorkingCopyKept'
    BY Zenon, <1>1 DEF ChildReady, Alone, CopyPlaced, NewPlaced, WorkingCopyKept
  <2> QED BY Zenon, <2>1, <2>2, <2>3, <2>4, <2>5, <2>6
<1>2. CASE ChildStops
  <2>1. AppTypes' /\ FileTypes'
    BY Zenon, <1>2 DEF ChildStops
  <2>5. StepTypes'
    BY Zenon, <1>2 DEF ChildStops
  <2>6. ProvenTypes'
    BY Zenon, <1>2 DEF ChildStops, Alone, NewPlaced
  <2>2. Alone' /\ Undisturbed'
    BY Zenon, <1>2 DEF ChildStops, Alone, CopyPlaced, NewPlaced, Undisturbed
  <2>3. CopyPlaced'
    BY Zenon, <1>2 DEF ChildStops, Alone, CopyPlaced, NewPlaced, WorkingCopyKept
  <2>4. NewPlaced' /\ WorkingCopyKept'
    BY Zenon, <1>2 DEF ChildStops, Alone, CopyPlaced, NewPlaced, WorkingCopyKept
  <2> QED BY <2>1, <2>2, <2>3, <2>4, <2>5, <2>6
<1>3. CASE SeesReady
  <2>1. AppTypes' /\ FileTypes'
    BY Zenon, <1>3 DEF SeesReady
  <2>5. StepTypes'
    BY Zenon, <1>3 DEF SeesReady
  <2>6. ProvenTypes'
    BY Zenon, <1>3 DEF SeesReady, Alone, NewPlaced
  <2>2. Alone' /\ Undisturbed'
    BY Zenon, <1>3 DEF SeesReady, Alone, CopyPlaced, NewPlaced, Undisturbed
  <2>3. CopyPlaced'
    BY Zenon, <1>3 DEF SeesReady, Alone, CopyPlaced, NewPlaced, WorkingCopyKept
  <2>4. NewPlaced' /\ WorkingCopyKept'
    BY Zenon, <1>3 DEF SeesReady, Alone, CopyPlaced, NewPlaced, WorkingCopyKept
  <2> QED BY <2>1, <2>2, <2>3, <2>4, <2>5, <2>6
<1>4. CASE GivesUp
  <2>1. AppTypes' /\ FileTypes'
    BY Zenon, <1>4 DEF GivesUp
  <2>5. StepTypes'
    BY Zenon, <1>4 DEF GivesUp
  <2>6. ProvenTypes'
    BY Zenon, <1>4 DEF GivesUp, Alone, NewPlaced
  <2>2. Alone' /\ Undisturbed'
    BY Zenon, <1>4 DEF GivesUp, Alone, CopyPlaced, NewPlaced, Undisturbed
  <2>3. CopyPlaced'
    BY Zenon, <1>4 DEF GivesUp, Alone, CopyPlaced, NewPlaced, WorkingCopyKept
  <2>4. NewPlaced' /\ WorkingCopyKept'
    BY Zenon, <1>4 DEF GivesUp, Alone, CopyPlaced, NewPlaced, WorkingCopyKept
  <2> QED BY <2>1, <2>2, <2>3, <2>4, <2>5, <2>6
<1>5. CASE KillChild
  <2>1. AppTypes' /\ FileTypes'
    BY Zenon, <1>5 DEF KillChild
  <2>5. StepTypes'
    BY Zenon, <1>5 DEF KillChild
  <2>6. ProvenTypes'
    BY Zenon, <1>5 DEF KillChild, Alone, NewPlaced
  <2>2. Alone' /\ Undisturbed'
    BY Zenon, <1>5 DEF KillChild, Alone, CopyPlaced, NewPlaced, Undisturbed
  <2>3. CopyPlaced'
    BY Zenon, <1>5 DEF KillChild, Alone, CopyPlaced, NewPlaced, WorkingCopyKept
  <2>4. NewPlaced' /\ WorkingCopyKept'
    BY Zenon, <1>5 DEF KillChild, Alone, CopyPlaced, NewPlaced, WorkingCopyKept
  <2> QED BY <2>1, <2>2, <2>3, <2>4, <2>5, <2>6
<1>6. CASE Confirm
  <2>1. AppTypes' /\ FileTypes'
    BY <1>6 DEF Confirm
  <2>5. StepTypes'
    BY Zenon, <1>6 DEF Confirm
  <2>6. ProvenTypes'
    BY Zenon, <1>6 DEF Confirm, Alone, NewPlaced
  <2>2. Alone' /\ Undisturbed'
    BY Zenon, <1>6 DEF Confirm, Alone, CopyPlaced, NewPlaced, Undisturbed
  <2>3. CopyPlaced'
    BY Zenon, <1>6 DEF Confirm, Alone, CopyPlaced, NewPlaced, WorkingCopyKept
  <2>4. NewPlaced' /\ WorkingCopyKept'
    BY Zenon, <1>6 DEF Confirm, Alone, CopyPlaced, NewPlaced, WorkingCopyKept
  <2> QED BY <2>1, <2>2, <2>3, <2>4, <2>5, <2>6
<1>7. CASE RemoveTarget
  <2>1. AppTypes' /\ FileTypes'
    BY <1>7 DEF RemoveTarget
  <2>5. StepTypes'
    BY <1>7 DEF RemoveTarget
  <2>6. ProvenTypes'
    BY Zenon, <1>7 DEF RemoveTarget, Alone, NewPlaced
  <2>2. Alone' /\ Undisturbed'
    BY <1>7 DEF RemoveTarget, Alone, CopyPlaced, NewPlaced, Undisturbed
  <2>3. CopyPlaced'
    BY Zenon, <1>7 DEF RemoveTarget, Alone, CopyPlaced, NewPlaced, WorkingCopyKept
  <2>4. NewPlaced' /\ WorkingCopyKept'
    BY Zenon, <1>7 DEF RemoveTarget, Alone, CopyPlaced, NewPlaced, WorkingCopyKept
  <2> QED BY <2>1, <2>2, <2>3, <2>4, <2>5, <2>6
<1>8. CASE ReturnBackup
  <2>0. files' = files \/ files' = [files EXCEPT !.target = files.backup, !.backup = None]
    BY Zenon, <1>8 DEF ReturnBackup
  <2>7. \/ files' = files
        \/ /\ FileTypes'
           /\ files'.target = files.backup /\ files'.backup = None /\ files'.pending = files.pending
    BY Zenon, <2>0, Restored
  <2>1. AppTypes' /\ FileTypes'
    BY Zenon, <1>8, <2>7 DEF ReturnBackup
  <2>5. StepTypes'
    BY <1>8 DEF ReturnBackup
  <2>6. ProvenTypes'
    BY Zenon, <1>8 DEF ReturnBackup, Alone, NewPlaced
  <2>2. Alone' /\ Undisturbed'
    BY <1>8 DEF ReturnBackup, Alone, CopyPlaced, NewPlaced, Undisturbed
  <2>3. CopyPlaced'
    BY Zenon, <1>8 DEF ReturnBackup, Alone, CopyPlaced, NewPlaced, WorkingCopyKept
  <2>4. NewPlaced' /\ WorkingCopyKept'
    BY Zenon, <1>8 DEF ReturnBackup, Alone, CopyPlaced, NewPlaced, WorkingCopyKept
  <2> QED BY <2>1, <2>2, <2>3, <2>4, <2>5, <2>6
<1>9. CASE Relaunch
  <2>1. AppTypes' /\ FileTypes'
    BY Zenon, <1>9 DEF Relaunch
  <2>5. StepTypes'
    BY Zenon, <1>9 DEF Relaunch
  <2>6. ProvenTypes'
    BY Zenon, <1>9, Runs DEF Relaunch, Alone, NewPlaced
  <2>2. Alone' /\ Undisturbed'
    BY <1>9 DEF Relaunch, Alone, CopyPlaced, NewPlaced, Undisturbed
  <2>3. CopyPlaced'
    BY Zenon, <1>9 DEF Relaunch, Alone, CopyPlaced, NewPlaced, WorkingCopyKept
  <2>4. NewPlaced' /\ WorkingCopyKept'
    BY Zenon, <1>9 DEF Relaunch, Alone, CopyPlaced, NewPlaced, WorkingCopyKept
  <2> QED BY <2>1, <2>2, <2>3, <2>4, <2>5, <2>6
<1> QED BY Zenon, <1>1, <1>2, <1>3, <1>4, <1>5, <1>6, <1>7, <1>8, <1>9

LEMMA NextIInv == IInv /\ [Next]_updateVars => IInv'
<1> SUFFICES ASSUME IInv, [Next]_updateVars PROVE IInv'
  BY Zenon
<1>1. CASE UNCHANGED updateVars
  BY <1>1 DEF updateVars, IInv, Types, AppTypes, FileTypes, StepTypes, ProvenTypes, Alone,
              CopyPlaced, NewPlaced, Undisturbed, WorkingCopyKept
<1>2. CASE Next
  BY Zenon, <1>2, AppStep, SwapStep, ChildStep DEF Next
<1> QED BY Zenon, <1>1, <1>2

LEMMA Invariance == Spec => []IInv
  BY InitIInv, NextIInv, PTL DEF Spec

-----------------------------------------------------------------------------
\* However often the application is updated, whatever file operation fails and
\* whenever the machine stops, an executable that has run is on the disk, as the
\* application or as its backup (activate_pending, restore_backup).
THEOREM CopySurvives == Spec => []WorkingCopyKept
<1>1. IInv => WorkingCopyKept
  BY Zenon DEF IInv
<1> QED BY <1>1, Invariance, PTL

\* The replacement never starts the new version beside an application that runs:
\* it holds a child only at steps it reaches when wait_for_process has returned.
LEMMA AliveIsOne == IInv => OneAppAlive
<1> SUFFICES ASSUME IInv PROVE Cardinality(Alive) <= 1
  BY Zenon DEF OneAppAlive
<1>1. ~ (app.state # "gone" /\ child \in {"starting", "up"})
  BY Zenon DEF IInv, Alone, Ended
<1>2. Alive = {} \/ Alive = {"app"} \/ Alive = {"child"}
  BY Zenon, <1>1 DEF Alive
<1>3. Cardinality({}) = 0
  BY Zenon, FS_EmptySet
<1>4. Cardinality({"app"}) = 1
  BY Zenon, FS_Singleton
<1>5. Cardinality({"child"}) = 1
  BY Zenon, FS_Singleton
<1> QED BY <1>2, <1>3, <1>4, <1>5

\* The old and the new version are never alive together, for any number of
\* updates and of faults (wait_for_process before the swap, the child killed
\* before the way back).
THEOREM VersionsTakeTurns == Spec => []OneAppAlive
  BY AliveIsOne, Invariance, PTL

\* An update in which nothing failed ends with the installed version running,
\* whether the new one became ready or was taken back.
THEOREM UpdateComesBack == Spec => []AppComesBack
<1>1. IInv => AppComesBack
  BY Zenon DEF IInv, Undisturbed, AppComesBack, Ended
<1> QED BY <1>1, Invariance, PTL

\* The three guarantees together.
THEOREM UpdateHolds == Spec => []UpdateIsSafe
  BY CopySurvives, VersionsTakeTurns, UpdateComesBack, PTL DEF UpdateIsSafe

-----------------------------------------------------------------------------
(* The installation of the plugin runtime.                                   *)

Places == {"idle", "claim", "announce", "spawn", "prepare", "clean", "report", "release",
           "unlock"} \cup Steps
Results == {"none", "ready", "failed", "uninitialized"}
Fields == {"archive", "staging", "executable", "marker"}

InstallTypes ==
  /\ DOMAIN disk = Fields /\ disk = [f \in Fields |-> disk[f]]
  /\ at \in [Requests -> Places] /\ outcome \in [Requests -> Results]
  /\ initializing \in BOOLEAN

\* The flag of the compare_exchange is held by the request at work.
FlagHeld ==
  /\ \A r \in Busy : initializing
  /\ \A r, q \in Busy : r = q

\* Between the removal of the old marker and the new one there is none, and the
\* new one is written over an executable that was validated, or is lost since.
Unmarked == {"download", "verify", "extract", "replace", "rename", "validate", "mark"}
MarkerFollows ==
  /\ \A r \in Requests : at[r] \in Unmarked => disk["marker"] = FALSE
  /\ \A r \in Requests : at[r] = "mark" => disk["executable"] \in {"none", "valid"}

\* A task that goes to clean up has failed.
Cleaning == \A r \in Requests : at[r] = "clean" => outcome[r] \in {"failed", "uninitialized"}

\* The status says "initializing" while somebody is going to report.
Reporting == {"spawn", "prepare", "clean", "report"} \cup Steps
Reports ==
  /\ status = "initializing" => \E r \in Requests : at[r] \in Reporting
  /\ \A r \in Requests : at[r] = "report" => outcome[r] \in {"ready", "failed", "uninitialized"}

\* The inductive invariant.
InstallInv ==
  /\ InstallTypes /\ FlagHeld /\ MarkerFollows /\ Cleaning /\ Reports
  /\ CompleteIsValidated /\ FailureIsClean

-----------------------------------------------------------------------------
\* The request that takes a step is the only one that was at work.
LEMMA OnlyOne ==
  ASSUME InstallInv, NEW r \in Requests, at[r] \notin {"idle", "claim"}
  PROVE  /\ initializing
         /\ \A q \in Requests : q # r => at[q] \in {"idle", "claim"}
  BY Zenon DEF InstallInv, FlagHeld, Busy

\* A step of the installer leaves the others where they are, and moves on.
LEMMA MovesOn ==
  ASSUME InstallInv, NEW r \in Requests, NEW p \in Places, Go(r, p),
         at[r] \notin {"idle", "claim"},
         initializing' = initializing
  PROVE  /\ at' \in [Requests -> Places] /\ at'[r] = p
         /\ \A q \in Requests : q # r => at'[q] = at[q] /\ at'[q] \in {"idle", "claim"}
         /\ FlagHeld'
<1>1. at \in [Requests -> Places]
  BY Zenon DEF InstallInv, InstallTypes
<1>2. /\ at' \in [Requests -> Places] /\ at'[r] = p
      /\ \A q \in Requests : q # r => at'[q] = at[q]
  BY Zenon, <1>1 DEF Go
<1>3. initializing /\ \A q \in Requests : q # r => at[q] \in {"idle", "claim"}
  BY Zenon, OnlyOne
<1> QED BY Zenon, <1>2, <1>3 DEF FlagHeld, Busy

\* Files are replaced one field at a time.
LEMMA Files ==
  ASSUME InstallInv
  PROVE  /\ Empty = [f \in Fields |-> Empty[f]] /\ DOMAIN Empty = Fields
         /\ \A present : /\ Reset(present) = [f \in Fields |-> Reset(present)[f]]
                       /\ \A f \in Fields : Reset(present)[f] = IF f \in present THEN Empty[f] ELSE disk[f]
         /\ \A f \in Fields : \A v :
              /\ DOMAIN [disk EXCEPT ![f] = v] = Fields
              /\ [disk EXCEPT ![f] = v] = [g \in Fields |-> IF g = f THEN v ELSE disk[g]]
<1>1. DOMAIN disk = Fields /\ disk = [f \in Fields |-> disk[f]]
  BY Zenon DEF InstallInv, InstallTypes
<1> QED BY Zenon, <1>1 DEF Empty, Reset, Fields

\* A step of the installation that is not over.
LEMMA InstallStep ==
  ASSUME InstallInv, NEW r \in Requests,
         \/ Prepare(r) \/ Download(r) \/ Verify(r) \/ Extract(r) \/ RemoveOld(r)
         \/ Rename(r) \/ Validate(r) \/ Mark(r)
  PROVE  InstallInv'
<1> USE DEF Keep
<1>1. CASE Prepare(r)
  <2>1. /\ at' \in [Requests -> Places] /\ at'[r] = "download" /\ FlagHeld'
        /\ \A q \in Requests : q # r => at'[q] = at[q] /\ at'[q] \in {"idle", "claim"}
    BY Zenon, <1>1, MovesOn DEF Prepare, Places, Steps
  <2>2. InstallTypes'
    BY <1>1, <2>1, Files DEF InstallInv, InstallTypes, Prepare, Fields
  <2>3. MarkerFollows' /\ CompleteIsValidated'
    BY ZenonT(30), <1>1, <2>1, <2>2, Files
      DEF InstallInv, InstallTypes, Prepare, Fields, Empty, MarkerFollows, CompleteIsValidated,
          Complete, Unmarked
  <2>4. Cleaning' /\ Reports' /\ FailureIsClean'
    BY Zenon, <1>1, <2>1, <2>2
      DEF InstallInv, InstallTypes, Prepare, Cleaning, Reports, Reporting, Steps, FailureIsClean, Busy
  <2> QED BY Zenon, <2>1, <2>2, <2>3, <2>4 DEF InstallInv
<1>2. CASE Download(r)
  <2>1. /\ at' \in [Requests -> Places] /\ at'[r] = "verify" /\ FlagHeld'
        /\ \A q \in Requests : q # r => at'[q] = at[q] /\ at'[q] \in {"idle", "claim"}
    BY Zenon, <1>2, MovesOn DEF Download, Places, Steps
  <2>2. InstallTypes'
    BY Zenon, <1>2, <2>1, Files DEF InstallInv, InstallTypes, Download, Fields
  <2>3. MarkerFollows' /\ CompleteIsValidated'
    BY <1>2, <2>1, <2>2, Files
      DEF InstallInv, InstallTypes, Download, Fields, Empty, MarkerFollows, CompleteIsValidated,
          Complete, Unmarked
  <2>4. Cleaning' /\ Reports' /\ FailureIsClean'
    BY Zenon, <1>2, <2>1, <2>2
      DEF InstallInv, InstallTypes, Download, Cleaning, Reports, Reporting, Steps, FailureIsClean, Busy
  <2> QED BY Zenon, <2>1, <2>2, <2>3, <2>4 DEF InstallInv
<1>3. CASE Verify(r)
  <2>1. /\ at' \in [Requests -> Places] /\ at'[r] = "extract" /\ FlagHeld'
        /\ \A q \in Requests : q # r => at'[q] = at[q] /\ at'[q] \in {"idle", "claim"}
    BY Zenon, <1>3, MovesOn DEF Verify, Places, Steps
  <2>2. InstallTypes'
    BY Zenon, <1>3, <2>1, Files DEF InstallInv, InstallTypes, Verify, Fields
  <2>3. MarkerFollows' /\ CompleteIsValidated'
    BY Zenon, <1>3, <2>1, <2>2, Files
      DEF InstallInv, InstallTypes, Verify, Fields, Empty, MarkerFollows, CompleteIsValidated, Complete,
          Unmarked
  <2>4. Cleaning' /\ Reports' /\ FailureIsClean'
    BY Zenon, <1>3, <2>1, <2>2
      DEF InstallInv, InstallTypes, Verify, Cleaning, Reports, Reporting, Steps, FailureIsClean, Busy
  <2> QED BY Zenon, <2>1, <2>2, <2>3, <2>4 DEF InstallInv
<1>4. CASE Extract(r)
  <2>1. /\ at' \in [Requests -> Places] /\ at'[r] = "replace" /\ FlagHeld'
        /\ \A q \in Requests : q # r => at'[q] = at[q] /\ at'[q] \in {"idle", "claim"}
    BY Zenon, <1>4, MovesOn DEF Extract, Places, Steps
  <2>2. InstallTypes'
    BY Zenon, <1>4, <2>1, Files DEF InstallInv, InstallTypes, Extract, Fields
  <2>3. MarkerFollows' /\ CompleteIsValidated'
    BY Zenon, <1>4, <2>1, <2>2, Files
      DEF InstallInv, InstallTypes, Extract, Fields, Empty, MarkerFollows, CompleteIsValidated,
          Complete, Unmarked
  <2>4. Cleaning' /\ Reports' /\ FailureIsClean'
    BY Zenon, <1>4, <2>1, <2>2
      DEF InstallInv, InstallTypes, Extract, Cleaning, Reports, Reporting, Steps, FailureIsClean, Busy
  <2> QED BY Zenon, <2>1, <2>2, <2>3, <2>4 DEF InstallInv
<1>5. CASE RemoveOld(r)
  <2>1. /\ at' \in [Requests -> Places] /\ at'[r] = "rename" /\ FlagHeld'
        /\ \A q \in Requests : q # r => at'[q] = at[q] /\ at'[q] \in {"idle", "claim"}
    BY Zenon, <1>5, MovesOn DEF RemoveOld, Places, Steps
  <2>2. InstallTypes'
    BY Zenon, <1>5, <2>1, Files DEF InstallInv, InstallTypes, RemoveOld, Fields
  <2>3. MarkerFollows' /\ CompleteIsValidated'
    BY Zenon, <1>5, <2>1, <2>2, Files
      DEF InstallInv, InstallTypes, RemoveOld, Fields, Empty, MarkerFollows, CompleteIsValidated,
          Complete, Unmarked
  <2>4. Cleaning' /\ Reports' /\ FailureIsClean'
    BY Zenon, <1>5, <2>1, <2>2
      DEF InstallInv, InstallTypes, RemoveOld, Cleaning, Reports, Reporting, Steps, FailureIsClean, Busy
  <2> QED BY Zenon, <2>1, <2>2, <2>3, <2>4 DEF InstallInv
<1>6. CASE Rename(r)
  <2>1. /\ at' \in [Requests -> Places] /\ at'[r] = "validate" /\ FlagHeld'
        /\ \A q \in Requests : q # r => at'[q] = at[q] /\ at'[q] \in {"idle", "claim"}
    BY Zenon, <1>6, MovesOn DEF Rename, Places, Steps
  <2>2. InstallTypes'
    BY Zenon, <1>6, <2>1, Files DEF InstallInv, InstallTypes, Rename, Fields
  <2>3. MarkerFollows' /\ CompleteIsValidated'
    BY Zenon, <1>6, <2>1, <2>2, Files
      DEF InstallInv, InstallTypes, Rename, Fields, Empty, MarkerFollows, CompleteIsValidated, Complete,
          Unmarked
  <2>4. Cleaning' /\ Reports' /\ FailureIsClean'
    BY Zenon, <1>6, <2>1, <2>2
      DEF InstallInv, InstallTypes, Rename, Cleaning, Reports, Reporting, Steps, FailureIsClean, Busy
  <2> QED BY Zenon, <2>1, <2>2, <2>3, <2>4 DEF InstallInv
<1>7. CASE Validate(r)
  <2>1. /\ at' \in [Requests -> Places] /\ at'[r] = "mark" /\ FlagHeld'
        /\ \A q \in Requests : q # r => at'[q] = at[q] /\ at'[q] \in {"idle", "claim"}
    BY Zenon, <1>7, MovesOn DEF Validate, Places, Steps
  <2>2. InstallTypes'
    BY Zenon, <1>7, <2>1, Files DEF InstallInv, InstallTypes, Validate, Fields
  <2>3. MarkerFollows' /\ CompleteIsValidated'
    BY Zenon, <1>7, <2>1, <2>2, Files
      DEF InstallInv, InstallTypes, Validate, Fields, Empty, MarkerFollows, CompleteIsValidated,
          Complete, Unmarked
  <2>4. Cleaning' /\ Reports' /\ FailureIsClean'
    BY Zenon, <1>7, <2>1, <2>2
      DEF InstallInv, InstallTypes, Validate, Cleaning, Reports, Reporting, Steps, FailureIsClean, Busy
  <2> QED BY Zenon, <2>1, <2>2, <2>3, <2>4 DEF InstallInv
<1>8. CASE Mark(r)
  <2>1. /\ at' \in [Requests -> Places] /\ at'[r] = "tidy" /\ FlagHeld'
        /\ \A q \in Requests : q # r => at'[q] = at[q] /\ at'[q] \in {"idle", "claim"}
    BY Zenon, <1>8, MovesOn DEF Mark, Places, Steps
  <2>2. InstallTypes'
    BY Zenon, <1>8, <2>1, Files DEF InstallInv, InstallTypes, Mark, Fields
  <2>3. MarkerFollows' /\ CompleteIsValidated'
    BY Zenon, <1>8, <2>1, <2>2, Files
      DEF InstallInv, InstallTypes, Mark, Fields, Empty, MarkerFollows, CompleteIsValidated, Complete,
          Unmarked
  <2>4. Cleaning' /\ Reports' /\ FailureIsClean'
    BY Zenon, <1>8, <2>1, <2>2
      DEF InstallInv, InstallTypes, Mark, Cleaning, Reports, Reporting, Steps, FailureIsClean, Busy
  <2> QED BY Zenon, <2>1, <2>2, <2>3, <2>4 DEF InstallInv
<1> QED BY Zenon, <1>1, <1>2, <1>3, <1>4, <1>5, <1>6, <1>7, <1>8
\* The end of a task, whichever way it went.
LEMMA EndStep ==
  ASSUME InstallInv, NEW r \in Requests,
         \/ Announce(r) \/ Spawn(r) \/ Tidy(r) \/ Fail(r) \/ Report(r) \/ Release(r)
  PROVE  InstallInv'
<1> USE DEF Keep
<1>1. CASE Announce(r)
  <2>1. /\ at' \in [Requests -> Places] /\ at'[r] = "spawn" /\ FlagHeld'
        /\ \A q \in Requests : q # r => at'[q] = at[q] /\ at'[q] \in {"idle", "claim"}
    BY Zenon, <1>1, MovesOn DEF Announce, Places, Steps
  <2>2. InstallTypes'
    BY Zenon, <1>1, <2>1, Files DEF InstallInv, InstallTypes, Announce, Fields, Results
  <2>3. MarkerFollows' /\ CompleteIsValidated'
    BY Zenon, <1>1, <2>1, <2>2, Files
      DEF InstallInv, InstallTypes, Announce, Fields, Empty, MarkerFollows, CompleteIsValidated,
          Complete, Unmarked, Steps
  <2>4. Cleaning' /\ Reports' /\ FailureIsClean'
    BY Zenon, <1>1, <2>1, <2>2
      DEF InstallInv, InstallTypes, Announce, Cleaning, Reports, Reporting, Steps, FailureIsClean, Busy,
          Results
  <2> QED BY Zenon, <2>1, <2>2, <2>3, <2>4 DEF InstallInv
<1>2. CASE Spawn(r)
  <2>1. /\ at' \in [Requests -> Places] /\ at'[r] = "prepare" /\ FlagHeld'
        /\ \A q \in Requests : q # r => at'[q] = at[q] /\ at'[q] \in {"idle", "claim"}
    BY Zenon, <1>2, MovesOn DEF Spawn, Places, Steps
  <2>2. InstallTypes'
    BY Zenon, <1>2, <2>1, Files DEF InstallInv, InstallTypes, Spawn, Fields, Results
  <2>3. MarkerFollows' /\ CompleteIsValidated'
    BY Zenon, <1>2, <2>1, <2>2, Files
      DEF InstallInv, InstallTypes, Spawn, Fields, Empty, MarkerFollows, CompleteIsValidated, Complete,
          Unmarked, Steps
  <2>4. Cleaning' /\ Reports' /\ FailureIsClean'
    BY Zenon, <1>2, <2>1, <2>2
      DEF InstallInv, InstallTypes, Spawn, Cleaning, Reports, Reporting, Steps, FailureIsClean, Busy,
          Results
  <2> QED BY Zenon, <2>1, <2>2, <2>3, <2>4 DEF InstallInv
<1>3. CASE Tidy(r)
  <2>1. /\ at' \in [Requests -> Places] /\ at'[r] = "report" /\ FlagHeld'
        /\ \A q \in Requests : q # r => at'[q] = at[q] /\ at'[q] \in {"idle", "claim"}
    BY Zenon, <1>3, MovesOn DEF Tidy, Places, Steps
  <2>2. InstallTypes'
    BY Zenon, <1>3, <2>1, Files DEF InstallInv, InstallTypes, Tidy, Fields, Results
  <2>3. MarkerFollows' /\ CompleteIsValidated'
    BY Zenon, <1>3, <2>1, <2>2, Files
      DEF InstallInv, InstallTypes, Tidy, Fields, Empty, MarkerFollows, CompleteIsValidated, Complete,
          Unmarked, Steps
  <2>4. Cleaning' /\ Reports' /\ FailureIsClean'
    BY Zenon, <1>3, <2>1, <2>2
      DEF InstallInv, InstallTypes, Tidy, Cleaning, Reports, Reporting, Steps, FailureIsClean, Busy,
          Results
  <2> QED BY Zenon, <2>1, <2>2, <2>3, <2>4 DEF InstallInv
<1>4. CASE Fail(r)
  <2>0. PICK result \in {"failed", "uninitialized"} : outcome' = [outcome EXCEPT ![r] = result]
    BY Zenon, <1>4 DEF Fail
  <2>1. /\ at' \in [Requests -> Places] /\ at'[r] = "clean" /\ FlagHeld'
        /\ \A q \in Requests : q # r => at'[q] = at[q] /\ at'[q] \in {"idle", "claim"}
    BY Zenon, <1>4, MovesOn DEF Fail, Places, Steps
  <2>2. InstallTypes'
    BY Zenon, <1>4, <2>1, <2>0 DEF InstallInv, InstallTypes, Fail, Results
  <2>3. MarkerFollows' /\ CompleteIsValidated'
    BY Zenon, <1>4, <2>1, <2>2, Files
      DEF InstallInv, InstallTypes, Fail, Fields, Empty, MarkerFollows, CompleteIsValidated, Complete,
          Unmarked, Steps
  <2>4. Cleaning' /\ Reports' /\ FailureIsClean'
    BY Zenon, <1>4, <2>0, <2>1, <2>2
      DEF InstallInv, InstallTypes, Fail, Cleaning, Reports, Reporting, Steps, FailureIsClean, Busy,
          Results
  <2> QED BY Zenon, <2>1, <2>2, <2>3, <2>4 DEF InstallInv
<1>5. CASE Report(r)
  <2>1. /\ at' \in [Requests -> Places] /\ at'[r] = "release" /\ FlagHeld'
        /\ \A q \in Requests : q # r => at'[q] = at[q] /\ at'[q] \in {"idle", "claim"}
    BY Zenon, <1>5, MovesOn DEF Report, Places, Steps
  <2>2. InstallTypes'
    BY Zenon, <1>5, <2>1, Files DEF InstallInv, InstallTypes, Report, Fields, Results
  <2>3. MarkerFollows' /\ CompleteIsValidated'
    BY Zenon, <1>5, <2>1, <2>2, Files
      DEF InstallInv, InstallTypes, Report, Fields, Empty, MarkerFollows, CompleteIsValidated, Complete,
          Unmarked, Steps
  <2>4. Cleaning' /\ Reports' /\ FailureIsClean'
    BY Zenon, <1>5, <2>1, <2>2
      DEF InstallInv, InstallTypes, Report, Cleaning, Reports, Reporting, Steps, FailureIsClean, Busy,
          Results
  <2> QED BY Zenon, <2>1, <2>2, <2>3, <2>4 DEF InstallInv
<1>6. CASE Release(r)
  <2>1. /\ at' \in [Requests -> Places] /\ at'[r] = "unlock" /\ FlagHeld'
        /\ \A q \in Requests : q # r => at'[q] = at[q] /\ at'[q] \in {"idle", "claim"}
    BY Zenon, <1>6, MovesOn DEF Release, Places, Steps
  <2>2. InstallTypes'
    BY Zenon, <1>6, <2>1, Files DEF InstallInv, InstallTypes, Release, Fields, Results
  <2>3. MarkerFollows' /\ CompleteIsValidated'
    BY Zenon, <1>6, <2>1, <2>2, Files
      DEF InstallInv, InstallTypes, Release, Fields, Empty, MarkerFollows, CompleteIsValidated,
          Complete, Unmarked, Steps
  <2>4. Cleaning' /\ Reports' /\ FailureIsClean'
    BY Zenon, <1>6, <2>1, <2>2
      DEF InstallInv, InstallTypes, Release, Cleaning, Reports, Reporting, Steps, FailureIsClean, Busy,
          Results
  <2> QED BY Zenon, <2>1, <2>2, <2>3, <2>4 DEF InstallInv
<1> QED BY Zenon, <1>1, <1>2, <1>3, <1>4, <1>5, <1>6

\* The files of a failed task are removed, the executable first.
LEMMA CleanStep ==
  ASSUME InstallInv, NEW r \in Requests, Clean(r)
  PROVE  InstallInv'
<1> USE DEF Keep
<1>1. CASE disk.executable # "none"
  <2>1. UNCHANGED <<at, status, initializing, outcome>> /\ disk' = Reset({"archive", "staging", "executable"})
    BY Zenon, <1>1 DEF Clean
  <2>2. InstallTypes' /\ FlagHeld'
    BY <2>1, Files DEF InstallInv, InstallTypes, FlagHeld, Busy
  <2>3. at[r] = "clean" /\ \A q \in Requests : q # r => at[q] \in {"idle", "claim"}
    BY Zenon, OnlyOne DEF Clean
  <2>4. MarkerFollows' /\ CompleteIsValidated'
    BY Zenon, <2>1, <2>3, Files DEF Fields, Empty, MarkerFollows, CompleteIsValidated, Complete, Unmarked
  <2>5. Cleaning' /\ Reports' /\ FailureIsClean'
    BY Zenon, <2>1, <2>3 DEF InstallInv, Cleaning, Reports, FailureIsClean, Busy
  <2> QED BY Zenon, <2>2, <2>4, <2>5 DEF InstallInv
<1>2. CASE disk.executable = "none"
  <2>1. Go(r, "report") /\ at[r] = "clean"
        /\ UNCHANGED <<status, initializing, outcome>> /\ disk' = Reset({"archive", "staging", "marker"})
    BY Zenon, <1>2 DEF Clean
  <2>2. /\ at' \in [Requests -> Places] /\ at'[r] = "report" /\ FlagHeld'
        /\ \A q \in Requests : q # r => at'[q] = at[q] /\ at'[q] \in {"idle", "claim"}
    BY Zenon, <2>1, MovesOn DEF Places
  <2>3. InstallTypes'
    BY <2>1, <2>2, Files DEF InstallInv, InstallTypes
  <2>4. disk' = Empty
    <3>1. \A f \in Fields : disk'[f] = Empty[f]
      <4>1. \A f \in Fields : disk'[f] = IF f \in {"archive", "staging", "marker"}
                                        THEN Empty[f] ELSE disk[f]
        BY <2>1, Files
      <4>2. disk["executable"] = Empty["executable"]
        BY Zenon, <1>2 DEF Empty
      <4> QED BY Zenon, <4>1, <4>2 DEF Fields
    <3>2. disk' = [f \in Fields |-> disk'[f]] /\ Empty = [f \in Fields |-> Empty[f]]
      BY <2>1, Files
    <3> QED BY Zenon, <3>1, <3>2
  <2>5. MarkerFollows' /\ CompleteIsValidated' /\ FailureIsClean'
    BY Zenon, <2>4 DEF Empty, MarkerFollows, CompleteIsValidated, Complete, FailureIsClean
  <2>6. Cleaning' /\ Reports'
    BY Zenon, <2>1, <2>2 DEF InstallInv, Cleaning, Reports, Reporting
  <2> QED BY Zenon, <2>2, <2>3, <2>5, <2>6 DEF InstallInv
<1> QED BY Zenon, <1>1, <1>2

\* What requests do before they are at work, and the end of the work.
LEMMA RequestStep ==
  ASSUME InstallInv, NEW r \in Requests, Check(r) \/ Claim(r) \/ Unlock(r)
  PROVE  InstallInv'
<1> USE DEF Keep
<1>0. at \in [Requests -> Places] /\ initializing \in BOOLEAN
  BY Zenon DEF InstallInv, InstallTypes
<1>1. CASE Check(r) \/ (Claim(r) /\ initializing)
  <2>1. /\ at' \in [Requests -> Places] /\ at[r] \in {"idle", "claim"} /\ at'[r] \in {"idle", "claim"}
        /\ \A q \in Requests : q # r => at'[q] = at[q]
        /\ UNCHANGED <<disk, outcome, initializing>> /\ status' \in {status, "ready"}
    BY Zenon, <1>0, <1>1 DEF Check, Claim, Go, Places
  <2>2. InstallTypes' /\ FlagHeld'
    BY Zenon, <2>1 DEF InstallInv, InstallTypes, FlagHeld, Busy
  <2>3. MarkerFollows' /\ CompleteIsValidated'
    BY Zenon, <2>1 DEF InstallInv, MarkerFollows, CompleteIsValidated, Complete, Unmarked
  <2>4. Cleaning' /\ Reports' /\ FailureIsClean'
    BY Zenon, <2>1 DEF InstallInv, Cleaning, Reports, Reporting, Steps, FailureIsClean, Busy
  <2> QED BY Zenon, <2>2, <2>3, <2>4 DEF InstallInv
<1>2. CASE Claim(r) /\ ~initializing
  <2>1. /\ at' \in [Requests -> Places] /\ at'[r] = "announce" /\ initializing'
        /\ \A q \in Requests : q # r => at'[q] = at[q]
        /\ UNCHANGED <<disk, outcome, status>>
    BY Zenon, <1>0, <1>2 DEF Claim, Go, Places
  <2>2. \A q \in Requests : at[q] \in {"idle", "claim"}
    BY Zenon, <1>2 DEF InstallInv, FlagHeld, Busy
  <2>3. InstallTypes' /\ FlagHeld'
    BY <1>2, <2>1, <2>2 DEF InstallInv, InstallTypes, FlagHeld, Busy, Claim
  <2>4. MarkerFollows' /\ CompleteIsValidated'
    BY Zenon, <2>1, <2>2 DEF InstallInv, MarkerFollows, CompleteIsValidated, Complete, Unmarked
  <2>5. Cleaning' /\ Reports' /\ FailureIsClean'
    BY Zenon, <2>1, <2>2 DEF InstallInv, Cleaning, Reports, Reporting, Steps, FailureIsClean, Busy
  <2> QED BY <2>3, <2>4, <2>5 DEF InstallInv
<1>3. CASE Unlock(r)
  <2>1. /\ at' \in [Requests -> Places] /\ at'[r] = "idle" /\ at[r] = "unlock"
        /\ \A q \in Requests : q # r => at'[q] = at[q]
        /\ UNCHANGED <<disk, outcome, status>> /\ initializing' = FALSE
    BY Zenon, <1>0, <1>3 DEF Unlock, Go, Places
  <2>2. \A q \in Requests : q # r => at[q] \in {"idle", "claim"}
    BY Zenon, <2>1, OnlyOne
  <2>3. InstallTypes' /\ FlagHeld'
    BY ZenonT(30), <2>1, <2>2 DEF InstallInv, InstallTypes, FlagHeld, Busy
  <2>4. MarkerFollows' /\ CompleteIsValidated'
    BY Zenon, <2>1, <2>2 DEF InstallInv, MarkerFollows, CompleteIsValidated, Complete, Unmarked
  <2>5. Cleaning' /\ Reports' /\ FailureIsClean'
    BY Zenon, <2>1, <2>2 DEF InstallInv, Cleaning, Reports, Reporting, Steps, FailureIsClean, Busy
  <2> QED BY <2>3, <2>4, <2>5 DEF InstallInv
<1> QED BY Zenon, <1>0, <1>1, <1>2, <1>3

\* What happens around the task.
LEMMA OutsideStep ==
  ASSUME InstallInv, Cancel \/ Look \/ CrashInstalling \/ Lose \/ UNCHANGED installVars
  PROVE  InstallInv'
<1>1. CASE Cancel \/ Look \/ UNCHANGED installVars
  <2>1. UNCHANGED <<disk, initializing, at, outcome>> /\ status' \in {status, "uninitialized"}
    BY Zenon, <1>1 DEF Cancel, Look, installVars
  <2> QED BY Zenon, <2>1 DEF InstallInv, InstallTypes, FlagHeld, MarkerFollows, Cleaning, Reports,
                      CompleteIsValidated, Complete, FailureIsClean, Busy
<1>2. CASE CrashInstalling
  <2>1. /\ at' = [r \in Requests |-> "idle"] /\ outcome' = [r \in Requests |-> "none"]
        /\ initializing' = FALSE /\ UNCHANGED disk /\ status' \in {"ready", "uninitialized"}
    BY Zenon, <1>2 DEF CrashInstalling
  <2>2. InstallTypes' /\ FlagHeld' /\ MarkerFollows'
    BY Zenon, <2>1 DEF InstallInv, InstallTypes, FlagHeld, MarkerFollows, Unmarked, Busy, Places, Results
  <2>3. Cleaning' /\ Reports' /\ CompleteIsValidated' /\ FailureIsClean'
    BY Zenon, <2>1 DEF InstallInv, Cleaning, Reports, CompleteIsValidated, Complete, FailureIsClean, Busy
  <2> QED BY Zenon, <2>2, <2>3 DEF InstallInv
<1>3. CASE Lose
  <2>1. disk' = Reset({"executable"}) /\ UNCHANGED <<status, initializing, at, outcome>>
        /\ disk.executable # "none"
    BY Zenon, <1>3 DEF Lose
  <2>2. InstallTypes' /\ FlagHeld'
    BY <2>1, Files DEF InstallInv, InstallTypes, FlagHeld, Busy
  <2>3. MarkerFollows' /\ CompleteIsValidated'
    BY Zenon, <2>1, Files DEF InstallInv, Fields, Empty, MarkerFollows, CompleteIsValidated, Complete
  <2>4. Cleaning' /\ Reports' /\ FailureIsClean'
    BY <2>1 DEF InstallInv, Cleaning, Reports, FailureIsClean, Busy, Empty
  <2> QED BY Zenon, <2>2, <2>3, <2>4 DEF InstallInv
<1> QED BY Zenon, <1>1, <1>2, <1>3

-----------------------------------------------------------------------------
LEMMA InitInstall == InstallInit => InstallInv
<1> SUFFICES ASSUME InstallInit PROVE InstallInv
  BY Zenon
<1>1. InstallTypes
  BY Zenon DEF InstallInit, InstallTypes, Empty, Fields, Places, Results
<1> QED BY Zenon, <1>1 DEF InstallInit, InstallInv, Empty, FlagHeld, Busy, MarkerFollows, Unmarked, Cleaning,
                    Reports, CompleteIsValidated, Complete, FailureIsClean

LEMMA NextInstall == InstallInv /\ [InstallNext]_installVars => InstallInv'
  BY Zenon, InstallStep, EndStep, CleanStep, RequestStep, OutsideStep DEF InstallNext

\* The flag admits one task at a time.
LEMMA HeldByOne == InstallInv => OneInstaller
<1> SUFFICES ASSUME InstallInv PROVE OneInstaller
  BY Zenon
<1>1. CASE Busy = {}
  BY <1>1, FS_EmptySet DEF OneInstaller
<1>2. CASE Busy # {}
  <2>1. PICK r \in Busy : Busy = {r}
    BY Zenon, <1>2 DEF InstallInv, FlagHeld
  <2>2. Cardinality({r}) = 1
    BY Zenon, FS_Singleton
  <2> QED BY <2>1, <2>2 DEF OneInstaller
<1> QED BY Zenon, <1>1, <1>2

\* The runtime that counts as installed was validated, whatever crashes, is
\* cancelled or disappears while it is installed (installation.rs, install).
THEOREM InstalledIsValidated == InstallSpec => []CompleteIsValidated
<1>1. InstallInv => CompleteIsValidated
  BY Zenon DEF InstallInv
<1> QED BY <1>1, InitInstall, NextInstall, PTL DEF InstallSpec

\* However many requests come at once, one installs (runtime.rs, initialize).
THEOREM InstallerIsAlone == InstallSpec => []OneInstaller
  BY HeldByOne, InitInstall, NextInstall, PTL DEF InstallSpec

\* A failed or cancelled installation leaves no file, and the status does not
\* stay at "initializing" once nobody is at work (runtime.rs, initialize).
THEOREM FailuresSettle == InstallSpec => [](FailureIsClean /\ RestsSettled)
<1>1. InstallInv => FailureIsClean /\ RestsSettled
  BY Zenon DEF InstallInv, Reports, Reporting, Steps, Busy, RestsSettled
<1> QED BY <1>1, InitInstall, NextInstall, PTL DEF InstallSpec

\* The four guarantees together, for any number of requests and of losses.
THEOREM InstallHolds == InstallSpec => []InstallIsSafe
  BY InstalledIsValidated, InstallerIsAlone, FailuresSettle, PTL DEF InstallIsSafe
=============================================================================
