------------------------ MODULE BacktestPublication ------------------------
(***************************************************************************)
(* Publication of a backtest result, openpine/storage/backtest_storage.py: *)
(* artifacts are written to a temporary directory, renamed into place and  *)
(* then committed to SQLite; a failure rolls the renames back, and the     *)
(* next start of the gateway rolls back what a crash interrupted.          *)
(*                                                                         *)
(* The saves of one run are numbered, and a directory is the number of the *)
(* save whose artifacts it holds (0: there is none).  Every rename, every  *)
(* removed tree and the transaction is a step; a crash may follow any.     *)
(***************************************************************************)
EXTENDS Integers

CONSTANTS
    Runs,      \* run ids
    CliRuns,   \* the runs that an openpine command creates and saves itself
    MaxSaves   \* bound on the calls of save_result for one run

(* With at most two saves a run has at most one backup directory.          *)
ASSUME SavesAssumption == MaxSaves \in {1, 2} /\ CliRuns \subseteq Runs

VARIABLES
    row,        \* status column of backtest_runs
    committed,  \* the save whose artifact rows are committed, 0 when none is
    saves,      \* calls of save_result so far
    tmp,        \* <run>.tmp: "absent", "partial" or "full"
    dir,        \* the published directory
    backup,     \* <run>.backup-*
    at,         \* where the process that saves the run is
    gateway,    \* "down", "recovering" or "up"
    todo,       \* interrupted runs recover_incomplete_runs has still to roll back
    step        \* the run being rolled back, if any, and the next step of it

vars == <<row, committed, saves, tmp, dir, backup, at, gateway, todo, step>>

dirVars == <<tmp, dir, backup>>
recVars == <<gateway, todo, step>>

Versions == 0..MaxSaves

(* The variables stay within their types.                                  *)
TypeOK ==
    /\ row \in [Runs -> {"none", "running", "done", "failed", "deleted"}]
    /\ committed \in [Runs -> Versions]
    /\ saves \in [Runs -> Versions]
    /\ tmp \in [Runs -> {"absent", "partial", "full"}]
    /\ dir \in [Runs -> Versions]
    /\ backup \in [Runs -> Versions]
    /\ at \in [Runs -> {"idle", "write", "aside", "install", "commit", "clean",
                        "undotmp", "undodir", "restore", "raised", "rmdir"}]
    /\ gateway \in {"down", "recovering", "up"}
    /\ todo \in SUBSET Runs
    /\ step \in {<<>>} \cup (Runs \X {"dir", "restore"})

Init ==
    /\ row = [r \in Runs |-> "none"]
    /\ committed = [r \in Runs |-> 0]
    /\ saves = [r \in Runs |-> 0]
    /\ tmp = [r \in Runs |-> "absent"]
    /\ dir = [r \in Runs |-> 0]
    /\ backup = [r \in Runs |-> 0]
    /\ at = [r \in Runs |-> "idle"]
    /\ gateway = "up"
    /\ todo = {}
    /\ step = <<>>

Goto(r, p) == at' = [at EXCEPT ![r] = p]

(* The process that owns the run is there.                                 *)
Alive(r) == r \in CliRuns \/ gateway = "up"

CreateRun(r) ==
    /\ row[r] = "none"
    /\ Alive(r)
    /\ row' = [row EXCEPT ![r] = "running"]
    /\ UNCHANGED <<committed, saves, dirVars, at, recVars>>

(***************************************************************************)
(* save_result.                                                            *)
(***************************************************************************)
SaveBegins(r) ==
    /\ at[r] = "idle"
    /\ Alive(r)
    /\ row[r] \in {"running", "done"} \/ (r \in CliRuns /\ row[r] = "failed")
    /\ saves[r] < MaxSaves
    /\ saves' = [saves EXCEPT ![r] = @ + 1]
    /\ tmp' = [tmp EXCEPT ![r] = "partial"]
    /\ Goto(r, "write")
    /\ UNCHANGED <<row, committed, dir, backup, recVars>>

(* A concurrent roll back may have removed the temporary directory.        *)
Writes(r) ==
    /\ at[r] = "write"
    /\ \/ /\ tmp[r] = "partial"
          /\ tmp' = [tmp EXCEPT ![r] = "full"]
          /\ Goto(r, "aside")
       \/ Goto(r, "undotmp") /\ UNCHANGED tmp
    /\ UNCHANGED <<row, committed, saves, dir, backup, recVars>>

(* Mutant: the transaction comes before the rename.                        *)
MoveAside_CommitFirst(r) ==
    /\ at[r] = "aside"
    /\ Goto(r, "commit")
    /\ UNCHANGED <<row, committed, saves, dirVars, recVars>>

(* A published directory is moved aside first.                             *)
MoveAside(r) ==
    /\ at[r] = "aside"
    /\ backup' = IF dir[r] # 0 THEN [backup EXCEPT ![r] = dir[r]] ELSE backup
    /\ dir' = [dir EXCEPT ![r] = 0]
    /\ Goto(r, "install")
    /\ UNCHANGED <<row, committed, saves, tmp, recVars>>

(* The rename of the temporary directory; when it fails the directory that *)
(* was moved aside comes back.                                             *)
Install(r) ==
    /\ at[r] = "install"
    /\ \/ /\ tmp[r] = "full"
          /\ dir' = [dir EXCEPT ![r] = saves[r]]
          /\ tmp' = [tmp EXCEPT ![r] = "absent"]
          /\ Goto(r, "commit")
          /\ UNCHANGED backup
       \/ /\ dir' = [dir EXCEPT ![r] = backup[r]]
          /\ backup' = [backup EXCEPT ![r] = 0]
          /\ Goto(r, "undotmp")
          /\ UNCHANGED tmp
    /\ UNCHANGED <<row, committed, saves, recVars>>

(* One transaction: the run row, the trades and the artifact rows.  Their  *)
(* primary keys make a second commit for the same run fail.                *)
Commit(r) ==
    /\ at[r] = "commit"
    /\ \/ /\ committed[r] = 0
          /\ row' = [row EXCEPT ![r] = "done"]
          /\ committed' = [committed EXCEPT ![r] = saves[r]]
          /\ Goto(r, "clean")
       \/ Goto(r, "undotmp") /\ UNCHANGED <<row, committed>>
    /\ UNCHANGED <<saves, dirVars, recVars>>

(* The backup is removed after the commit, or left behind with a warning.  *)
CleanBackup(r) ==
    /\ at[r] = "clean"
    /\ \/ backup' = [backup EXCEPT ![r] = 0]
       \/ UNCHANGED backup
    /\ Goto(r, "idle")
    /\ UNCHANGED <<row, committed, saves, tmp, dir, recVars>>

UndoTmp(r) ==
    /\ at[r] = "undotmp"
    /\ tmp' = [tmp EXCEPT ![r] = "absent"]
    /\ Goto(r, "undodir")
    /\ UNCHANGED <<row, committed, saves, dir, backup, recVars>>

(* The exception handler of save_result: the directory published by this   *)
(* save goes, an older one moved aside by it comes back.                   *)
UndoDir(r) ==
    /\ at[r] = "undodir"
    /\ IF backup[r] # 0
       THEN dir' = [dir EXCEPT ![r] = 0] /\ Goto(r, "restore")
       ELSE /\ dir' = IF dir[r] = saves[r] THEN [dir EXCEPT ![r] = 0] ELSE dir
            /\ Goto(r, "raised")
    /\ UNCHANGED <<row, committed, saves, tmp, backup, recVars>>

Restore(r) ==
    /\ at[r] = "restore"
    /\ dir' = [dir EXCEPT ![r] = backup[r]]
    /\ backup' = [backup EXCEPT ![r] = 0]
    /\ Goto(r, "raised")
    /\ UNCHANGED <<row, committed, saves, tmp, recVars>>

(* The background task of the gateway, which saves its run once, records   *)
(* the failure with mark_failed unless that fails too; the openpine        *)
(* command just ends.                                                      *)
Raised(r) ==
    /\ at[r] = "raised"
    /\ \/ /\ r \notin CliRuns /\ row[r] = "running"
          /\ row' = [row EXCEPT ![r] = "failed"]
       \/ UNCHANGED row
    /\ Goto(r, "idle")
    /\ UNCHANGED <<committed, saves, dirVars, recVars>>

(* delete_run: the rows in a transaction, then the directory.  A save has  *)
(* no await, so the event loop that serves the deletion is not inside one. *)
DeleteRun(r) ==
    /\ gateway = "up"
    /\ row[r] \in {"running", "done", "failed"}
    /\ at[r] = "idle"
    /\ row' = [row EXCEPT ![r] = "deleted"]
    /\ committed' = [committed EXCEPT ![r] = 0]
    /\ Goto(r, "rmdir")
    /\ UNCHANGED <<saves, dirVars, recVars>>

DeleteDir(r) ==
    /\ at[r] = "rmdir"
    /\ dir' = [dir EXCEPT ![r] = 0]
    /\ Goto(r, "idle")
    /\ UNCHANGED <<row, committed, saves, tmp, backup, recVars>>

(***************************************************************************)
(* Crash and recovery.                                                     *)
(***************************************************************************)
Crash ==
    /\ gateway # "down"
    /\ gateway' = "down"
    /\ at' = [r \in Runs |-> IF r \in CliRuns THEN at[r] ELSE "idle"]
    /\ todo' = {}
    /\ step' = <<>>
    /\ UNCHANGED <<row, committed, saves, dirVars>>

(* recover_incomplete_runs reads the interrupted runs once.                *)
RecoveryBegins ==
    /\ gateway = "down"
    /\ gateway' = "recovering"
    /\ todo' = {r \in Runs : row[r] = "running"}
    /\ step' = <<>>
    /\ UNCHANGED <<row, committed, saves, dirVars, at>>

RecoverTmp(r) ==
    /\ r \in todo /\ step = <<>>
    /\ tmp' = [tmp EXCEPT ![r] = "absent"]
    /\ step' = <<r, "dir">>
    /\ UNCHANGED <<row, committed, saves, dir, backup, at, gateway, todo>>

RecoverDir(r) ==
    /\ step = <<r, "dir">>
    /\ dir' = [dir EXCEPT ![r] = 0]
    /\ step' = <<r, "restore">>
    /\ UNCHANGED <<row, committed, saves, tmp, backup, at, gateway, todo>>

RecoverRestore(r) ==
    /\ step = <<r, "restore">>
    /\ dir' = IF backup[r] # 0 THEN [dir EXCEPT ![r] = backup[r]] ELSE dir
    /\ backup' = [backup EXCEPT ![r] = 0]
    /\ step' = <<>>
    /\ todo' = todo \ {r}
    /\ UNCHANGED <<row, committed, saves, tmp, at, gateway>>

(* The rows that are still running are failed in one statement.            *)
RecoveryEnds ==
    /\ gateway = "recovering" /\ todo = {}
    /\ row' = [r \in Runs |-> IF row[r] = "running" THEN "failed" ELSE row[r]]
    /\ gateway' = "up"
    /\ UNCHANGED <<committed, saves, dirVars, at, todo, step>>

Save(r) ==
    \/ SaveBegins(r) \/ Writes(r) \/ MoveAside(r) \/ Install(r) \/ Commit(r)
    \/ CleanBackup(r) \/ UndoTmp(r) \/ UndoDir(r) \/ Restore(r) \/ Raised(r)

Recovery ==
    \/ RecoveryBegins
    \/ \E r \in Runs : RecoverTmp(r) \/ RecoverDir(r) \/ RecoverRestore(r)
    \/ RecoveryEnds

Next ==
    \/ \E r \in Runs : CreateRun(r) \/ Save(r) \/ DeleteRun(r) \/ DeleteDir(r)
    \/ Crash
    \/ Recovery

Spec == Init /\ [][Next]_vars

(***************************************************************************)
(* Properties.                                                             *)
(***************************************************************************)
(* A run that is done and is not being saved again has the artifacts of    *)
(* the committed save in its directory, at every moment a reader may look. *)
DoneIsPublished ==
    \A r \in Runs :
        row[r] = "done" /\ saves[r] <= 1 => committed[r] # 0 /\ dir[r] = committed[r]

(* The artifacts of a committed save are never lost: while a later save is *)
(* under way, failed or was interrupted they are in the directory or in    *)
(* the backup.                                                             *)
CommittedIsKept ==
    \A r \in Runs :
        row[r] = "done" => committed[r] \in {dir[r], backup[r]}

(* Once the gateway is up, a run that failed has left nothing behind: its  *)
(* artifacts were rolled back by save_result or by the recovery.           *)
FailedLeavesNothing ==
    \A r \in Runs :
        gateway = "up" /\ row[r] = "failed" /\ at[r] = "idle" =>
            tmp[r] = "absent" /\ dir[r] = 0 /\ backup[r] = 0

(* save_result is atomic for a reader: what a done run committed is there, *)
(* what a failed one wrote is not, whatever step raised or was cut off.    *)
SavesAreAtomic == TypeOK /\ DoneIsPublished /\ CommittedIsKept /\ FailedLeavesNothing

(***************************************************************************)
(* The inductive form of the three, for the runs of the gateway: what the  *)
(* row, the directories and the place of the save have to do with one      *)
(* another for a run in each status.                                       *)
(***************************************************************************)
NothingLeft(r) == tmp[r] = "absent" /\ dir[r] = 0 /\ backup[r] = 0

NewOK(r) ==
    row[r] = "none" => NothingLeft(r) /\ committed[r] = 0 /\ saves[r] = 0 /\ at[r] = "idle"

RunningOK(r) ==
    row[r] = "running" =>
        /\ committed[r] = 0 /\ backup[r] = 0
        /\ at[r] \notin {"restore", "clean", "rmdir"}
        /\ at[r] = "idle" =>
             NothingLeft(r) \/ gateway = "down" \/ (gateway = "recovering" /\ r \in todo)
        /\ at[r] \in {"write", "aside", "install"} => dir[r] = 0
        /\ at[r] = "commit" => dir[r] = saves[r] /\ tmp[r] = "absent"
        /\ at[r] \in {"undotmp", "undodir"} => dir[r] \in {0, saves[r]}
        /\ at[r] = "undodir" => tmp[r] = "absent"
        /\ at[r] = "raised" => NothingLeft(r)

DoneOK(r) ==
    row[r] = "done" =>
        /\ committed[r] # 0 /\ committed[r] <= saves[r]
        /\ committed[r] \in {dir[r], backup[r]}
        /\ committed[r] = saves[r] =>
             dir[r] = committed[r] /\ backup[r] = 0 /\ at[r] \in {"idle", "clean"}
        /\ committed[r] < saves[r] =>
             /\ at[r] \notin {"clean", "rmdir"}
             /\ at[r] \in {"write", "aside"} => dir[r] = committed[r] /\ backup[r] = 0
             /\ at[r] = "install" => dir[r] = 0
             /\ at[r] = "commit" => dir[r] = saves[r]
             /\ at[r] \in {"undotmp", "undodir"} /\ backup[r] = 0 => dir[r] = committed[r]
             /\ at[r] \in {"undotmp", "undodir"} /\ backup[r] # 0 => backup[r] = committed[r]
             /\ at[r] = "restore" => backup[r] = committed[r]

EndedOK(r) ==
    /\ row[r] = "failed" => NothingLeft(r) /\ committed[r] = 0 /\ at[r] = "idle"
    /\ row[r] = "deleted" => at[r] \in {"idle", "rmdir"}

RecoveryOK(r) ==
    /\ at[r] # "idle" => gateway = "up"
    /\ at[r] \notin {"idle", "rmdir"} => saves[r] # 0
    /\ gateway # "recovering" => r \notin todo /\ step = <<>>
    /\ r \in todo => row[r] = "running"
    /\ step = <<r, "dir">> => r \in todo /\ tmp[r] = "absent"
    /\ step = <<r, "restore">> => r \in todo /\ tmp[r] = "absent" /\ dir[r] = 0

RunOK(r) == NewOK(r) /\ RunningOK(r) /\ DoneOK(r) /\ EndedOK(r) /\ RecoveryOK(r)

Consistent == TypeOK /\ \A r \in Runs : RunOK(r)
=============================================================================
