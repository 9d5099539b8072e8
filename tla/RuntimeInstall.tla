---------------------------- MODULE RuntimeInstall ----------------------------
(***************************************************************************)
(* PluginRuntime (src/server/src/plugin/runtime.rs) and the installation of *)
(* the Deno runtime (installation.rs): one background task downloads,       *)
(* verifies, extracts, validates and marks the executable, while requests   *)
(* start, cancel or look at it and the process may die at any step.  A      *)
(* request to initialize runs on its own thread and goes on as the task.    *)
(***************************************************************************)
EXTENDS Integers, FiniteSets

CONSTANTS Requests,    \* the requests to initialize
          MaxLosses    \* bound: crashes, and files lost from the disk

VARIABLES disk,         \* archive, staging, executable and .ready marker
          status,       \* PluginRuntimeStatus.state
          initializing, \* the flag of the compare_exchange
          token,        \* the CancellationToken: "none", "live" or "cancelled"
          at,           \* where each request, or the task it spawned, is
          outcome,      \* the result of each task
          losses        \* counts crashes and losses, for the bound

installVars == <<disk, status, initializing, token, at, outcome, losses>>

Empty == [archive |-> "none", staging |-> "none", executable |-> "none", marker |-> FALSE]
Complete == disk.executable # "none" /\ disk.marker

InstallInit ==
  /\ disk = Empty /\ status = "uninitialized" /\ initializing = FALSE
  /\ token = "none" /\ at = [r \in Requests |-> "idle"]
  /\ outcome = [r \in Requests |-> "none"] /\ losses = 0

Go(r, step) == at' = [at EXCEPT ![r] = step]
Keep == UNCHANGED <<initializing, token, outcome, losses>>

-----------------------------------------------------------------------------
(* PluginRuntime::initialize.                                               *)
Check(r) ==
  /\ at[r] = "idle"
  /\ IF Complete THEN status' = "ready" /\ UNCHANGED at
     ELSE Go(r, "claim") /\ UNCHANGED status
  /\ UNCHANGED disk /\ Keep

(* Mutation: the exchange is not looked at.                                 *)
ClaimAnyway(r) ==
  /\ at[r] = "claim"
  /\ Go(r, "announce") /\ initializing' = TRUE
  /\ UNCHANGED <<disk, status, token, outcome, losses>>

(* compare_exchange: a second request answers with the status.              *)
Claim(r) ==
  /\ at[r] = "claim"
  /\ IF initializing THEN Go(r, "idle") /\ UNCHANGED initializing
     ELSE Go(r, "announce") /\ initializing' = TRUE
  /\ UNCHANGED <<disk, status, token, outcome, losses>>

Announce(r) ==
  /\ at[r] = "announce"
  /\ status' = "initializing" /\ Go(r, "spawn")
  /\ UNCHANGED disk /\ Keep

Spawn(r) ==
  /\ at[r] = "spawn"
  /\ token' = "live" /\ Go(r, "prepare") /\ outcome' = [outcome EXCEPT ![r] = "none"]
  /\ UNCHANGED <<disk, status, initializing, losses>>

-----------------------------------------------------------------------------
(* install.  Progress sets the status again.                                *)
Reset(files) == [f \in DOMAIN disk |->
                   IF f \in files THEN Empty[f] ELSE disk[f]]

Prepare(r) ==
  /\ at[r] = "prepare"
  /\ disk' = Reset({"archive", "staging", "marker"}) /\ Go(r, "download")
  /\ UNCHANGED status /\ Keep

(* The archive arrives whole or damaged; the transfer may also break.       *)
Download(r) ==
  /\ at[r] = "download" /\ token = "live"
  /\ \E content \in {"good", "bad"} : disk' = [disk EXCEPT !.archive = content]
  /\ status' = "initializing" /\ Go(r, "verify")
  /\ Keep

(* The SHA-256 of what was written.                                         *)
Verify(r) ==
  /\ at[r] = "verify" /\ token = "live" /\ disk.archive = "good"
  /\ status' = "initializing" /\ Go(r, "extract")
  /\ UNCHANGED disk /\ Keep

Extract(r) ==
  /\ at[r] = "extract"
  /\ disk' = [disk EXCEPT !.staging = "fresh"]
  /\ Go(r, "replace")
  /\ UNCHANGED status /\ Keep

RemoveOld(r) ==
  /\ at[r] = "replace" /\ token = "live"
  /\ disk' = Reset({"executable"}) /\ Go(r, "rename")
  /\ UNCHANGED status /\ Keep

Rename(r) ==
  /\ at[r] = "rename"
  /\ disk' = [disk EXCEPT !.executable = disk.staging, !.staging = "none"]
  /\ Go(r, "validate")
  /\ UNCHANGED status /\ Keep

(* validate_runtime runs the executable and reads its version.              *)
Validate(r) ==
  /\ at[r] = "validate" /\ token = "live" /\ disk.executable # "none"
  /\ disk' = [disk EXCEPT !.executable = "valid"]
  /\ status' = "initializing" /\ Go(r, "mark")
  /\ Keep

Mark(r) ==
  /\ at[r] = "mark" /\ token = "live"
  /\ disk' = [disk EXCEPT !.marker = TRUE] /\ Go(r, "tidy")
  /\ UNCHANGED status /\ Keep

Tidy(r) ==
  /\ at[r] = "tidy"
  /\ disk' = Reset({"archive"}) /\ Go(r, "report")
  /\ outcome' = [outcome EXCEPT ![r] = "ready"]
  /\ UNCHANGED <<status, initializing, token, losses>>

Steps == {"download", "verify", "extract", "replace", "rename", "validate", "mark", "tidy"}
Checked == Steps \ {"extract", "rename", "tidy"}

(* Any of these steps may fail; a cancellation is seen at most of them.     *)
Fail(r) ==
  /\ at[r] \in Steps
  /\ \E result \in {"failed"} \cup (IF token = "cancelled" /\ at[r] \in Checked
                                     THEN {"uninitialized"} ELSE {}) :
       outcome' = [outcome EXCEPT ![r] = result]
  /\ Go(r, "clean")
  /\ UNCHANGED <<disk, status, initializing, token, losses>>

(* What is left of a failed installation goes, the executable before the    *)
(* marker.                                                                  *)
Clean(r) ==
  /\ at[r] = "clean"
  /\ IF disk.executable # "none"
     THEN disk' = Reset({"archive", "staging", "executable"}) /\ UNCHANGED at
     ELSE disk' = Reset({"archive", "staging", "marker"}) /\ Go(r, "report")
  /\ UNCHANGED status /\ Keep

Report(r) ==
  /\ at[r] = "report"
  /\ status' = outcome[r] /\ Go(r, "release")
  /\ UNCHANGED disk /\ Keep

Release(r) ==
  /\ at[r] = "release"
  /\ token' = "none" /\ Go(r, "unlock") /\ outcome' = [outcome EXCEPT ![r] = "none"]
  /\ UNCHANGED <<disk, status, initializing, losses>>

Unlock(r) ==
  /\ at[r] = "unlock"
  /\ initializing' = FALSE /\ Go(r, "idle")
  /\ UNCHANGED <<disk, status, token, outcome, losses>>

-----------------------------------------------------------------------------
Cancel ==
  /\ token = "live" /\ token' = "cancelled"
  /\ UNCHANGED <<disk, status, initializing, at, outcome, losses>>

(* PluginRuntime::status looks at the files of a runtime that is ready.     *)
Look ==
  /\ status = "ready" /\ ~Complete
  /\ status' = "uninitialized"
  /\ UNCHANGED <<disk, initializing, token, at, outcome, losses>>

(* The process ends and PluginRuntime::new looks at what is there.          *)
CrashInstalling ==
  /\ losses < MaxLosses /\ losses' = losses + 1
  /\ status' = IF Complete THEN "ready" ELSE "uninitialized"
  /\ initializing' = FALSE /\ token' = "none"
  /\ at' = [r \in Requests |-> "idle"] /\ outcome' = [r \in Requests |-> "none"]
  /\ UNCHANGED disk

(* Something else removes the executable.                                   *)
Lose ==
  /\ losses < MaxLosses /\ losses' = losses + 1 /\ disk.executable # "none"
  /\ disk' = Reset({"executable"})
  /\ UNCHANGED <<status, initializing, token, at, outcome>>

InstallNext == \/ \E r \in Requests : \/ Check(r) \/ Claim(r) \/ Announce(r) \/ Spawn(r)
                               \/ Prepare(r) \/ Download(r) \/ Verify(r) \/ Extract(r)
                               \/ RemoveOld(r) \/ Rename(r) \/ Validate(r) \/ Mark(r)
                               \/ Tidy(r) \/ Fail(r) \/ Clean(r) \/ Report(r)
                               \/ Release(r) \/ Unlock(r)
        \/ Cancel \/ Look \/ CrashInstalling \/ Lose

InstallSpec == InstallInit /\ [][InstallNext]_installVars

-----------------------------------------------------------------------------
Busy == {r \in Requests : at[r] \notin {"idle", "claim"}}

(* Whatever crashes, cancels or disappears, files that count as a complete  *)
(* runtime hold an executable that was validated: the marker of an earlier  *)
(* installation goes before its executable is replaced.                     *)
CompleteIsValidated == Complete => disk.executable = "valid"

(* "Coordinates one initialization task" (runtime.rs): requests on several  *)
(* threads start one.                                                       *)
OneInstaller == Cardinality(Busy) <= 1

(* An installation that failed or was cancelled leaves no file behind, the  *)
(* marker included, even if it failed after the marker was written.         *)
FailureIsClean == \A r \in Busy : at[r] = "report" /\ outcome[r] # "ready" => disk = Empty

(* The status is "initializing" only while a task is at work: the user is   *)
(* never left with a progress bar nobody moves.                             *)
RestsSettled == Busy = {} => status # "initializing"

\* What a user may rely on while a runtime is installed, and after whatever cut
\* the installation short (runtime.rs, initialize; installation.rs, install).
InstallIsSafe == CompleteIsValidated /\ OneInstaller /\ FailureIsClean /\ RestsSettled
=============================================================================
