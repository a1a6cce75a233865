------------------------------ MODULE BarCache ------------------------------
(***************************************************************************)
(* One entry of the persistent bar cache (data/persistent_cache.py,        *)
(* batch/persistent_cache.py, data/cache_io.py): a table of bars and a     *)
(* metadata file that makes it valid.  Each is written to a temporary file *)
(* of a fixed name that then replaces it.  Processes that miss fetch the   *)
(* series, from the orchestrator or page by page from Binance, and save    *)
(* it; the gateway deletes entries.                                        *)
(*                                                                         *)
(* Files are inodes: a name may be moved while a process still writes to   *)
(* the inode it opened.  A table is the set of pages of bars it holds.     *)
(***************************************************************************)
EXTENDS Integers, FiniteSets

CONSTANTS
    Loaders,        \* processes that load the series through the orchestrator
    DirectLoaders,  \* processes that load it with DirectBinanceProvider
    Deleters,       \* gateways that delete the series
    NumPages,       \* pages of the provider in the range of the key
    MaxInodes,      \* bound: temporary tables ever created
    MaxLoads        \* bound: loads by a process

ASSUME CacheAssumption == NumPages \in Nat \ {0} /\ MaxInodes \in Nat /\ MaxLoads \in Nat

VARIABLES
    inode,     \* the tables created so far: pages, who writes to them, cut short, and
               \* opened while another process was about to rename its own
    tmpTable,  \* inode of the temporary table, 0 if none
    table,     \* inode of the table, 0 if none
    tmpMeta,   \* does the temporary metadata file exist
    meta,      \* does the metadata file exist
    at,        \* where each process is
    open,      \* the inode it writes to or reads
    pages,     \* the pages it fetched
    answer,    \* what its last load gave
    loads      \* loads it made

cacheVars == <<inode, tmpTable, table, tmpMeta, meta, at, open, pages, answer, loads>>

CacheProcs == Loaders \cup DirectLoaders \cup Deleters
AllPages   == 1..NumPages
Whole(i)   == inode[i].writers = {} /\ ~inode[i].cut
Steps      == {"idle", "open", "parse", "fetch", "write", "rename", "meta", "commit",
               "trash"}

(* The types of the variables.                                             *)
CacheTypeOK ==
    /\ DOMAIN inode \subseteq 1..MaxInodes
    /\ {table, tmpTable} \subseteq DOMAIN inode \cup {0}
    /\ tmpMeta \in BOOLEAN /\ meta \in BOOLEAN
    /\ at \in [CacheProcs -> Steps]
    /\ pages \in [CacheProcs -> SUBSET AllPages]
    /\ answer \in [CacheProcs -> {"none", "hit", "torn", "fetched", "error"}]

CacheInit ==
    /\ inode = [i \in {} |-> 0]
    /\ tmpTable = 0 /\ table = 0 /\ tmpMeta = FALSE /\ meta = FALSE
    /\ at = [p \in CacheProcs |-> "idle"]
    /\ open = [p \in CacheProcs |-> 0]
    /\ pages = [p \in CacheProcs |-> {}]
    /\ answer = [p \in CacheProcs |-> "none"]
    /\ loads = [p \in CacheProcs |-> 0]

CacheStep(p, from, to) == at[p] = from /\ at' = [at EXCEPT ![p] = to]
Answers(p, a) == answer' = [answer EXCEPT ![p] = a]

-----------------------------------------------------------------------------
(* Loading *)

(* read_valid_meta and the test that the table is there.                   *)
ValidEntry == meta /\ table # 0

LookUp(p) ==
    /\ loads[p] < MaxLoads
    /\ CacheStep(p, "idle", IF ValidEntry THEN "open" ELSE "fetch")
    /\ loads' = [loads EXCEPT ![p] = @ + 1]
    /\ pages' = [pages EXCEPT ![p] = {}]
    /\ Answers(p, "none")
    /\ UNCHANGED <<inode, tmpTable, table, tmpMeta, meta, open>>

(* pd.read_csv opens the table: the inode the name has now.                *)
OpenTable(p) ==
    /\ CacheStep(p, "open", IF table = 0 THEN "idle" ELSE "parse")
    /\ open' = [open EXCEPT ![p] = table]
    /\ Answers(p, IF table = 0 THEN "error" ELSE "none")
    /\ UNCHANGED <<inode, tmpTable, table, tmpMeta, meta, pages, loads>>

(* A table without a row cannot be parsed.                                 *)
ParseTable(p) ==
    /\ CacheStep(p, "parse", "idle")
    /\ pages' = [pages EXCEPT ![p] = inode[open[p]].pages]
    /\ Answers(p, IF ~Whole(open[p]) THEN "torn"
                  ELSE IF inode[open[p]].pages = {} THEN "error" ELSE "hit")
    /\ UNCHANGED <<inode, tmpTable, table, tmpMeta, meta, open, loads>>

(* DataOrchestrator.load_bars: what the provider gave is saved, with its   *)
(* gaps where the gap policy allows them.                                  *)
FetchSeries(p, P) ==
    /\ p \in Loaders
    /\ CacheStep(p, "fetch", "write")
    /\ pages' = [pages EXCEPT ![p] = P]
    /\ Answers(p, "fetched")
    /\ UNCHANGED <<inode, tmpTable, table, tmpMeta, meta, open, loads>>

(* DirectBinanceProvider.fetch_bars: one more page.                        *)
FetchPage(p) ==
    /\ p \in DirectLoaders /\ at[p] = "fetch" /\ pages[p] # AllPages
    /\ pages' = [pages EXCEPT ![p] = @ \cup {Cardinality(@) + 1}]
    /\ UNCHANGED <<inode, tmpTable, table, tmpMeta, meta, at, open, answer, loads>>

(* The page loop ends: with the last page, or with the first page that     *)
(* could not be had.  What there is is saved.                              *)
EndPages(p) ==
    /\ p \in DirectLoaders
    /\ CacheStep(p, "fetch", IF pages[p] = {} THEN "idle" ELSE "write")
    /\ Answers(p, "fetched")
    /\ UNCHANGED <<inode, tmpTable, table, tmpMeta, meta, open, pages, loads>>

-----------------------------------------------------------------------------
(* Saving *)

(* Mutant: the table is written in place.                                  *)
WriteTable_InPlace(p) ==
    LET i == Cardinality(DOMAIN inode) + 1
    IN /\ CacheStep(p, "write", "rename")
       /\ i <= MaxInodes
       /\ inode' = [j \in DOMAIN inode \cup {i} |->
                       IF j = i THEN [pages |-> pages[p], writers |-> {p}, cut |-> FALSE,
                                      shared |-> FALSE]
                                ELSE inode[j]]
       /\ table' = i /\ tmpTable' = i
       /\ open' = [open EXCEPT ![p] = i]
       /\ UNCHANGED <<tmpMeta, meta, pages, answer, loads>>

(* write_csv_atomic opens, and so empties, the temporary table.            *)
WriteTable(p) ==
    LET i == IF tmpTable = 0 THEN Cardinality(DOMAIN inode) + 1 ELSE tmpTable
        others == IF tmpTable = 0 THEN {} ELSE inode[i].writers
        inUse == \E q \in CacheProcs : at[q] = "rename"
    IN /\ CacheStep(p, "write", "rename")
       /\ i <= MaxInodes
       /\ inode' = [j \in DOMAIN inode \cup {i} |->
                       IF j = i THEN [pages |-> pages[p], writers |-> others \cup {p},
                                      cut |-> FALSE, shared |-> inUse]
                                ELSE inode[j]]
       /\ tmpTable' = i
       /\ open' = [open EXCEPT ![p] = i]
       /\ UNCHANGED <<table, tmpMeta, meta, pages, answer, loads>>

(* The last row is written; the file is closed.                            *)
TableWritten(p) ==
    /\ at[p] = "rename" /\ p \in inode[open[p]].writers
    /\ inode' = [inode EXCEPT ![open[p]].writers = @ \ {p}]
    /\ UNCHANGED <<tmpTable, table, tmpMeta, meta, at, open, pages, answer, loads>>

(* tmp_path.replace(path) fails if another process has moved the name.     *)
ReplaceTable(p) ==
    /\ at[p] = "rename" /\ p \notin inode[open[p]].writers
    /\ \/ /\ tmpTable # 0
          /\ table' = tmpTable /\ tmpTable' = 0
          /\ CacheStep(p, "rename", "meta")
          /\ UNCHANGED answer
       \/ /\ tmpTable = 0
          /\ CacheStep(p, "rename", "idle")
          /\ Answers(p, IF p \in Loaders THEN "fetched" ELSE "error")
          /\ UNCHANGED <<table, tmpTable>>
    /\ UNCHANGED <<inode, tmpMeta, meta, open, pages, loads>>

WriteMeta(p) ==
    /\ CacheStep(p, "meta", "commit")
    /\ tmpMeta' = TRUE
    /\ UNCHANGED <<inode, tmpTable, table, meta, open, pages, answer, loads>>

ReplaceMeta(p) ==
    /\ CacheStep(p, "commit", "idle")
    /\ meta' = (meta \/ tmpMeta)
    /\ tmpMeta' = FALSE
    /\ Answers(p, IF tmpMeta \/ p \in Loaders THEN "fetched" ELSE "error")
    /\ UNCHANGED <<inode, tmpTable, table, open, pages, loads>>

-----------------------------------------------------------------------------
(* Deleting, and ends of processes *)

(* _delete_persistent_cache_series finds entries by their metadata.        *)
DeleteMeta(p) ==
    /\ p \in Deleters /\ meta
    /\ CacheStep(p, "idle", "trash")
    /\ meta' = FALSE
    /\ UNCHANGED <<inode, tmpTable, table, tmpMeta, open, pages, answer, loads>>

DeleteTable(p) ==
    /\ CacheStep(p, "trash", "idle")
    /\ table' = 0
    /\ UNCHANGED <<inode, tmpTable, tmpMeta, meta, open, pages, answer, loads>>

LoaderEnds(p) ==
    /\ at[p] # "idle"
    /\ at' = [at EXCEPT ![p] = "idle"]
    /\ inode' = [i \in DOMAIN inode |->
                    IF p \in inode[i].writers
                    THEN [inode[i] EXCEPT !.writers = @ \ {p}, !.cut = TRUE]
                    ELSE inode[i]]
    /\ UNCHANGED <<tmpTable, table, tmpMeta, meta, open, pages, answer, loads>>

CacheNext ==
    \/ \E p \in Loaders \cup DirectLoaders :
          \/ LookUp(p) \/ OpenTable(p) \/ ParseTable(p)
          \/ \E P \in SUBSET AllPages : FetchSeries(p, P)
          \/ FetchPage(p) \/ EndPages(p)
          \/ WriteTable(p) \/ TableWritten(p) \/ ReplaceTable(p)
          \/ WriteMeta(p) \/ ReplaceMeta(p)
          \/ LoaderEnds(p)
    \/ \E p \in Deleters : DeleteMeta(p) \/ DeleteTable(p) \/ LoaderEnds(p)

CacheSpec == CacheInit /\ [][CacheNext]_cacheVars

-----------------------------------------------------------------------------
(* A series served from the cache is one that a process saved as a whole:  *)
(* no load returns the rows of a table whose writer was interrupted or is  *)
(* still writing, whatever ends, is saved again or is deleted in between.  *)
(* The exception is the temporary table, whose name is fixed               *)
(* (write_csv_atomic): of two processes that save at the same time, one    *)
(* may publish what the other is still writing.                            *)
CacheHitsAreWhole == \A p \in CacheProcs : answer[p] = "torn" => inode[open[p]].shared
=============================================================================
