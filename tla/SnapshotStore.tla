--------------------------- MODULE SnapshotStore ---------------------------
(***************************************************************************)
(* The snapshots of one strategy, openpine/state/store.py: a file for each *)
(* snapshot and one index file that names them with their status.  Every   *)
(* process (gateway, background worker, command line) has a StateStore of  *)
(* its own with a copy of the index in memory.  An update takes the lock   *)
(* file, reads the index again, changes its copy, unlinks the files it     *)
(* prunes and replaces the index; a read takes no lock.                    *)
(*                                                                         *)
(* Snapshots are numbered in the order of their saved_at.  The save policy *)
(* is the default one, every_bar, which nothing in the package changes.    *)
(***************************************************************************)
EXTENDS Integers, FiniteSets

CONSTANTS
    SnapProcs,     \* processes with a StateStore
    SnapBars,      \* bar times of snapshots
    MaxSnapshots,  \* bound: snapshots ever saved
    Keep           \* max_snapshots_per_strategy

ASSUME SnapAssumption ==
    /\ SnapBars \subseteq Nat /\ MaxSnapshots \in Nat /\ Keep \in Nat \ {0}
    /\ 0 \notin SnapProcs

VARIABLES
    barOf,    \* bar_time of the snapshots saved so far
    files,    \* snapshots whose file is in place
    index,    \* snapshots.index.json: the status of the snapshots it names
    copy,     \* _snapshots of each process
    fresh,    \* processes whose _index_signature is that of the index file
    task,     \* what each process is doing, and with which snapshot
    holder,   \* the process that holds the lock file
    last,     \* the snapshot indexed last, if nothing was invalidated or deleted since
    gone      \* snapshots that an index once named and a later one does not

snapVars == <<barOf, files, index, copy, fresh, task, holder, last, gone>>

Ids == 1..MaxSnapshots

NoSnap == 0

NoProc == 0

NoTask == [pc |-> "idle", id |-> NoSnap]

Statuses3 == {"active", "superseded", "invalid"}

(* The types of the variables.                                             *)
SnapTypeOK ==
    /\ DOMAIN barOf \subseteq Ids /\ files \subseteq Ids
    /\ DOMAIN index \subseteq DOMAIN barOf
    /\ \A i \in DOMAIN index : index[i] \in Statuses3
    /\ \A p \in SnapProcs : DOMAIN copy[p] \subseteq DOMAIN barOf
    /\ fresh \subseteq SnapProcs
    /\ \A p \in SnapProcs : task[p].pc \in {"idle", "written", "persist", "read"}
    /\ holder \in SnapProcs \cup {NoProc}

SnapInit ==
    /\ barOf = [i \in {} |-> 0]
    /\ files = {}
    /\ index = [i \in {} |-> "active"]
    /\ copy = [p \in SnapProcs |-> index]
    /\ fresh = SnapProcs
    /\ task = [p \in SnapProcs |-> NoTask]
    /\ holder = NoProc
    /\ last = NoSnap
    /\ gone = {}

-----------------------------------------------------------------------------
(* The index *)

(* _load_metadata_index: entries whose file is missing are dropped.        *)
Loaded == [i \in DOMAIN index \cap files |-> index[i]]

(* _reload_metadata_index_if_changed.                                      *)
Current(p) == IF p \in fresh THEN copy[p] ELSE Loaded

(* Mutant: the copy in memory is taken for the index.                      *)
UnderLock_Stale(p) == copy[p]

(* What _locked_metadata_mutation hands to its body.                       *)
UnderLock(p) == Loaded

Newer(i, j) == barOf[i] > barOf[j] \/ (barOf[i] = barOf[j] /\ i > j)

(* Mutant: the snapshots kept are the ones with the oldest bars.           *)
Kept_Oldest(S) == {i \in S : Cardinality({j \in S : Newer(i, j)}) < Keep}

(* What _prune_strategy_snapshots keeps of S.                              *)
Kept(S) == {i \in S : Cardinality({j \in S : Newer(j, i)}) < Keep}

(* latest_snapshot_metadata with at_or_before_bar_time = b.                *)
Latest(entries, b) ==
    {i \in DOMAIN entries :
        /\ entries[i] = "active" /\ barOf[i] <= b
        /\ \A j \in DOMAIN entries : entries[j] = "active" /\ barOf[j] <= b => ~Newer(j, i)}

(* _persist_metadata_index: a temporary file replaces the index.           *)
Publish(p, entries) ==
    /\ index' = entries
    /\ gone' = gone \cup (DOMAIN index \ DOMAIN entries)
    /\ copy' = [copy EXCEPT ![p] = entries]
    /\ fresh' = {p}

SnapGoto(p, pc, i) == task' = [task EXCEPT ![p] = [pc |-> pc, id |-> i]]

-----------------------------------------------------------------------------
(* Operations *)

(* save_snapshot up to the rename of the snapshot file.                    *)
SaveFile(p, b) ==
    LET i == Cardinality(DOMAIN barOf) + 1
    IN /\ task[p].pc = "idle" /\ i <= MaxSnapshots
       /\ barOf' = [j \in DOMAIN barOf \cup {i} |-> IF j = i THEN b ELSE barOf[j]]
       /\ files' = files \cup {i}
       /\ SnapGoto(p, "written", i)
       /\ UNCHANGED <<index, copy, fresh, holder, last, gone>>

Superseded(entries) ==
    [i \in DOMAIN entries |-> IF entries[i] = "active" THEN "superseded" ELSE entries[i]]

(* The locked part of save_snapshot up to the replacement of the index.    *)
SaveIndex(p) ==
    LET i == task[p].id
        old == Superseded(UnderLock(p))
        all == DOMAIN old \cup {i}
    IN /\ task[p].pc = "written" /\ holder = NoProc
       /\ copy' = [copy EXCEPT ![p] =
                      [j \in Kept(all) |-> IF j = i THEN "active" ELSE old[j]]]
       /\ files' = files \ (all \ Kept(all))
       /\ holder' = p
       /\ SnapGoto(p, "persist", i)
       /\ UNCHANGED <<barOf, index, fresh, last, gone>>

(* delete_snapshot up to the replacement of the index.                     *)
DeleteSnapshot(p, i) ==
    /\ task[p].pc = "idle" /\ holder = NoProc
    /\ i \in DOMAIN UnderLock(p)
    /\ files' = files \ {i}
    /\ copy' = [copy EXCEPT ![p] = [j \in DOMAIN UnderLock(p) \ {i} |-> UnderLock(p)[j]]]
    /\ holder' = p
    /\ last' = NoSnap
    /\ SnapGoto(p, "persist", NoSnap)
    /\ UNCHANGED <<barOf, index, fresh, gone>>

Persist(p) ==
    /\ task[p].pc = "persist"
    /\ Publish(p, copy[p])
    /\ holder' = NoProc
    /\ last' = task[p].id
    /\ SnapGoto(p, "idle", NoSnap)
    /\ UNCHANGED <<barOf, files>>

(* The replacement raises: the copy of the process is ahead of the index.  *)
PersistFails(p) ==
    /\ task[p].pc = "persist"
    /\ holder' = NoProc
    /\ SnapGoto(p, "idle", NoSnap)
    /\ UNCHANGED <<barOf, files, index, copy, fresh, last, gone>>

MarkInvalid(p, since) ==
    LET old == UnderLock(p)
    IN /\ task[p].pc = "idle" /\ holder = NoProc
       /\ Publish(p, [i \in DOMAIN old |-> IF barOf[i] >= since THEN "invalid" ELSE old[i]])
       /\ last' = NoSnap
       /\ UNCHANGED <<barOf, files, task, holder>>

(* StateRebuilder.invalidate changes the copy in memory and nothing else.  *)
Invalidate(p, since) ==
    /\ task[p].pc = "idle"
    /\ copy' = [copy EXCEPT ![p] =
                   [i \in DOMAIN Current(p) |->
                       IF barOf[i] >= since THEN "invalid" ELSE Current(p)[i]]]
    /\ fresh' = fresh \cup {p}
    /\ UNCHANGED <<barOf, files, index, task, holder, last, gone>>

(* load_latest_compatible finds its metadata and, a step later, the file.  *)
FindSnapshot(p, b) ==
    /\ task[p].pc = "idle"
    /\ \E i \in Latest(Current(p), b) : SnapGoto(p, "read", i)
    /\ copy' = [copy EXCEPT ![p] = Current(p)]
    /\ fresh' = fresh \cup {p}
    /\ UNCHANGED <<barOf, files, index, holder, last, gone>>

LoadState(p) ==
    /\ task[p].pc = "read"
    /\ SnapGoto(p, "idle", NoSnap)
    /\ UNCHANGED <<barOf, files, index, copy, fresh, holder, last, gone>>

(* StateRebuilder.rebuild goes on from what it loaded and saves the result *)
(* at a bar from from_bar_time on, or at the loaded one if there is none.  *)
Rebuild(p, from, b) ==
    LET i == Cardinality(DOMAIN barOf) + 1
        s == task[p].id
    IN /\ task[p].pc = "read" /\ s \in files /\ i <= MaxSnapshots
       /\ barOf[s] < from /\ (b >= from \/ b = barOf[s])
       /\ barOf' = [j \in DOMAIN barOf \cup {i} |-> IF j = i THEN b ELSE barOf[j]]
       /\ files' = files \cup {i}
       /\ SnapGoto(p, "written", i)
       /\ UNCHANGED <<index, copy, fresh, holder, last, gone>>

(* The process ends at any point; the next one builds its store anew.      *)
RestartStore(p) ==
    /\ task' = [task EXCEPT ![p] = NoTask]
    /\ holder' = IF holder = p THEN NoProc ELSE holder
    /\ copy' = [copy EXCEPT ![p] = Loaded]
    /\ fresh' = fresh \cup {p}
    /\ UNCHANGED <<barOf, files, index, last, gone>>

SnapNext ==
    \E p \in SnapProcs :
        \/ \E b \in SnapBars : SaveFile(p, b)
        \/ SaveIndex(p)
        \/ \E i \in Ids : DeleteSnapshot(p, i)
        \/ Persist(p)
        \/ PersistFails(p)
        \/ \E b \in SnapBars : MarkInvalid(p, b)
        \/ \E b \in SnapBars : Invalidate(p, b)
        \/ \E b \in SnapBars : FindSnapshot(p, b)
        \/ LoadState(p)
        \/ \E f, b \in SnapBars : Rebuild(p, f, b)
        \/ RestartStore(p)

SnapSpec == SnapInit /\ [][SnapNext]_snapVars

-----------------------------------------------------------------------------
(* Properties *)

NewestIsKept ==
    last # NoSnap /\ Cardinality({i \in DOMAIN index : Newer(i, last)}) < Keep - 1 =>
        /\ last \in DOMAIN index \cap files
        /\ index[last] = "active"

(* The state a strategy would resume from is never lost: whatever process  *)
(* ends between unlinking pruned files and replacing the index, the        *)
(* snapshot that save_snapshot indexed last is named as active by the      *)
(* index and has its file, as long as fewer than Keep - 1 snapshots of     *)
(* later bars are there.                                                   *)
NewestSaveKept == SnapTypeOK /\ NewestIsKept

Rank == [active |-> 1, superseded |-> 2, invalid |-> 3]

(* No update of the index is lost: a snapshot that was invalidated or      *)
(* superseded by one process is never active again because another process *)
(* wrote its older copy back, and one that was pruned or deleted never     *)
(* comes back into the index.                                              *)
IndexMovesForward ==
    [][ /\ \A i \in DOMAIN index \cap DOMAIN index' : Rank[index[i]] <= Rank[index'[i]]
        /\ gone \cap DOMAIN index' = {} ]_snapVars
=============================================================================
