---------------------------- MODULE PineSources ----------------------------
(***************************************************************************)
(* Pine sources and their compiled artifacts.                              *)
(*                                                                         *)
(* A source is a row of the table pine_sources.  The gateway reads the     *)
(* table into memory once, when it starts, and serves every route from     *)
(* that copy (`loaded' are its keys, `obj' the PineSource objects, which a *)
(* compile task keeps using after the key is gone); every CLI command is a *)
(* process of its own with a fresh copy.  An artifact is a directory under *)
(* the source's directory; its id is derived from what was sealed in it:   *)
(* the text the translator was given and the AST it translated.            *)
(*                                                                         *)
(* The gateway's handlers run on one event loop and give way only at an    *)
(* await; the CLI's processes interleave with all of it, also between the  *)
(* file operations of one handler (`inHandler').                           *)
(***************************************************************************)
EXTENDS Naturals, FiniteSets

CONSTANTS
    SourceIds,      \* ids add_source may hand out
    SourceNames,    \* names of sources
    Texts,          \* Pine texts
    BadTexts,       \* the texts that do not parse
    CompileTasks,   \* background compile tasks of the gateway
    PineClis,       \* CLI processes
    RunFiles,       \* texts of files given to `openpine run'
    MaxEdits,       \* bound on creations, edits, archivings and restarts
    ByName          \* whether clients may name a source in the compile route

ASSUME PineAssumption ==
    /\ BadTexts \subseteq Texts /\ RunFiles \subseteq Texts
    /\ MaxEdits \in Nat
    /\ ByName \in BOOLEAN
    /\ CompileTasks \cap SourceIds = {} /\ "none" \notin CompileTasks \cup SourceIds

VARIABLES
    db,         \* pine_sources: id -> row
    obj,        \* the gateway's PineSource objects
    loaded,     \* keys of the gateway registry's _mem
    dirs,       \* artifact directories below each source directory
    compiling,  \* the gateway's compile tasks
    pineCli,    \* the CLI processes
    inHandler,  \* the handler in the middle of its file operations
    removing,   \* sources whose directory was removed on the way to deletion
    edits       \* how many edits were made

pineVars == <<db, obj, loaded, dirs, compiling, pineCli, inHandler, removing, edits>>

NoArtifact == <<"none">>
FailedArtifact == <<"failed">>
NoRow == [name |-> "", text |-> "", archived |-> FALSE, active |-> NoArtifact]
Idle == [at |-> "idle"]

ArtifactIds == (Texts \X Texts) \cup {NoArtifact, FailedArtifact}
Rows == [name: SourceNames, text: Texts, archived: BOOLEAN, active: ArtifactIds]
Stored == [id: ArtifactIds, pine: Texts]

\* What stands for a missing row is none.
ASSUME NoRowAssumption == NoRow \notin Rows

PineTypeOK ==
    /\ db \in [SourceIds -> Rows \cup {NoRow}]
    /\ obj \in [SourceIds -> Rows \cup {NoRow}]
    /\ loaded \subseteq SourceIds
    /\ dirs \in [SourceIds \cup SourceNames -> SUBSET Stored]
    /\ \A k \in CompileTasks :
         compiling[k].at \in {"idle", "parse", "translate", "save", "activate", "completed", "failed"}
    /\ \A p \in PineClis : pineCli[p].at \in {"idle", "save", "list", "activate", "backtest", "dirs", "row"}
    /\ inHandler \in CompileTasks \cup SourceIds \cup {"none"}
    /\ removing \subseteq SourceIds
    /\ edits \in 0..MaxEdits

PineInit ==
    /\ db = [s \in SourceIds |-> NoRow]
    /\ obj = [s \in SourceIds |-> NoRow]
    /\ loaded = {}
    /\ dirs = [r \in SourceIds \cup SourceNames |-> {}]
    /\ compiling = [k \in CompileTasks |-> Idle]
    /\ pineCli = [p \in PineClis |-> Idle]
    /\ inHandler = "none"
    /\ removing = {}
    /\ edits = 0

Exists(s) == db[s] # NoRow

\* The UNIQUE constraint on the column name.
NameTaken(n, s) == \E o \in SourceIds \ {s} : Exists(o) /\ db[o].name = n

\* _make_source_id: a new id per text and millisecond, so never one handed out before.
Unused(s) == ~Exists(s) /\ obj[s] = NoRow /\ s \notin removing

\* PineSourceRegistry.get_source on a copy with the keys `keys': by id, then by name.
get_source(ref, keys, copy) ==
    IF ref \in keys THEN {ref} ELSE {s \in keys : copy[s].name = ref}

Edit == edits < MaxEdits /\ edits' = edits + 1

-----------------------------------------------------------------------------
(***************************************************************************)
(* The artifact store.                                                     *)
(***************************************************************************)

\* Mutant: the bytes are saved unchecked.
VerifySealed_Skipped(id, pine) == TRUE

\* _verify_sealed_payload: the bytes to be saved are the ones the envelope seals.
VerifySealed(id, pine) == id[1] = pine

\* _save_sealed_artifact: written to a temporary directory and renamed, and a
\* no-operation when the same envelope is there already.
SaveSealed(r, id, pine) ==
    dirs' = [dirs EXCEPT ![r] =
               IF \E a \in @ : a.id = id THEN @ ELSE @ \cup {[id |-> id, pine |-> pine]}]

\* save_artifact without an envelope: the diagnostics of a failed compile,
\* rewritten in place under one id per source.
SaveFailed(r, pine) ==
    dirs' = [dirs EXCEPT ![r] =
               {a \in @ : a.id # FailedArtifact} \cup {[id |-> FailedArtifact, pine |-> pine]}]

ArtifactsOf(r) == {a.id : a \in dirs[r]}

\* UPDATE pine_sources SET active_artifact_id ... WHERE id: nothing when the row is gone.
UpdateActive(s, id) ==
    db' = IF Exists(s) THEN [db EXCEPT ![s].active = id] ELSE db

-----------------------------------------------------------------------------
(***************************************************************************)
(* The gateway's routes.                                                   *)
(***************************************************************************)

GatewayFree == inHandler = "none"

\* create_source: 409 when the gateway's copy knows the name, and an error of the
\* database when the table does.
CreateSource(s, n, t) ==
    /\ GatewayFree /\ Unused(s) /\ Edit
    /\ get_source(n, loaded, obj) = {} /\ ~NameTaken(n, s)
    /\ LET row == [name |-> n, text |-> t, archived |-> FALSE, active |-> NoArtifact]
       IN /\ db' = [db EXCEPT ![s] = row]
          /\ obj' = [obj EXCEPT ![s] = row]
    /\ loaded' = loaded \cup {s}
    /\ UNCHANGED <<dirs, compiling, pineCli, inHandler, removing>>

\* update_source: the object is changed first, then the row, which the
\* database refuses when the new name is taken; the object stays changed.
UpdateSource(s, n, t, arch) ==
    /\ GatewayFree /\ s \in loaded /\ Edit
    /\ obj' = [obj EXCEPT ![s].name = n, ![s].text = t, ![s].archived = arch]
    /\ db' = IF Exists(s) /\ ~NameTaken(n, s)
             THEN [db EXCEPT ![s].name = n, ![s].text = t, ![s].archived = arch]
             ELSE db
    /\ UNCHANGED <<loaded, dirs, compiling, pineCli, inHandler, removing>>

\* archive_source and unarchive_source through set_archived.
SetSourceArchived(s, arch) ==
    /\ GatewayFree /\ s \in loaded /\ obj[s].archived # arch /\ Edit
    /\ obj' = [obj EXCEPT ![s].archived = arch]
    /\ db' = IF Exists(s) THEN [db EXCEPT ![s].archived = arch] ELSE db
    /\ UNCHANGED <<loaded, dirs, compiling, pineCli, inHandler, removing>>

\* delete_source up to shutil.rmtree: a failure of either part is a 500 that
\* leaves the row; files may be gone by then.
DeleteFiles(s) ==
    /\ GatewayFree /\ s \in loaded
    /\ removing' = removing \cup {s}
    /\ \E left \in {{}, dirs[s]} : dirs' = [dirs EXCEPT ![s] = left]
    /\ inHandler' \in {s, "none"}
    /\ inHandler' = s => dirs'[s] = {}
    /\ UNCHANGED <<db, obj, loaded, compiling, pineCli, edits>>

\* ... and remove_source at its end.
DeleteRow(s) ==
    /\ inHandler = s
    /\ db' = [db EXCEPT ![s] = NoRow]
    /\ loaded' = loaded \ {s}
    /\ inHandler' = "none"
    /\ UNCHANGED <<obj, dirs, compiling, pineCli, removing, edits>>

\* The gateway stops and starts again: its tasks are lost, its copy is read anew.
RestartGateway ==
    /\ Edit
    /\ loaded' = {s \in SourceIds : Exists(s)}
    /\ obj' = [s \in SourceIds |-> IF Exists(s) THEN db[s] ELSE obj[s]]
    /\ compiling' = [k \in CompileTasks |-> Idle]
    /\ inHandler' = "none"
    /\ UNCHANGED <<db, dirs, pineCli, removing>>

-----------------------------------------------------------------------------
(***************************************************************************)
(* compile_pine and its background task, which awaits a progress message   *)
(* before each of its three stages and reads src.source_text in each.      *)
(***************************************************************************)

Failed(k) == compiling' = [compiling EXCEPT ![k] = [at |-> "failed"]]

\* The route: the reference is kept as the client wrote it.
CompilePine(k, ref, s) ==
    /\ GatewayFree
    /\ compiling[k].at \in {"idle", "completed", "failed"}
    /\ s \in get_source(ref, loaded, obj)
    /\ compiling' = [compiling EXCEPT ![k] = [at |-> "parse", ref |-> ref, id |-> s]]
    /\ UNCHANGED <<db, obj, loaded, dirs, pineCli, inHandler, removing, edits>>

\* Stage 1: pine2ast; blocking diagnostics end the task.
ParseSource(k) ==
    /\ GatewayFree /\ compiling[k].at = "parse"
    /\ LET t == obj[compiling[k].id].text
       IN IF t \in BadTexts THEN Failed(k)
          ELSE compiling' = [compiling EXCEPT ![k] =
                 [at |-> "translate", ref |-> @.ref, id |-> @.id, ast |-> t]]
    /\ UNCHANGED <<db, obj, loaded, dirs, pineCli, inHandler, removing, edits>>

\* Stage 2: ast2python (external) gets the AST and the text as it is now, and may
\* refuse them.
TranslateSource(k) ==
    /\ GatewayFree /\ compiling[k].at = "translate"
    /\ \/ Failed(k)
       \/ compiling' = [compiling EXCEPT ![k] =
            [at |-> "save", ref |-> @.ref, id |-> @.id, art |-> <<obj[@.id].text, @.ast>>]]
    /\ UNCHANGED <<db, obj, loaded, dirs, pineCli, inHandler, removing, edits>>

\* Stage 3, saving: under the reference of the request, with the text as it is now.
SaveCompiled(k) ==
    /\ GatewayFree /\ compiling[k].at = "save"
    /\ LET c == compiling[k]
           pine == obj[c.id].text
       IN IF VerifySealed(c.art, pine)
          THEN /\ SaveSealed(c.ref, c.art, pine)
               /\ compiling' = [compiling EXCEPT ![k].at = "activate"]
               /\ inHandler' = k
          ELSE Failed(k) /\ UNCHANGED <<dirs, inHandler>>
    /\ UNCHANGED <<db, obj, loaded, pineCli, removing, edits>>

\* ... and set_active_artifact, which raises when the source is no longer loaded.
ActivateCompiled(k) ==
    /\ inHandler = k
    /\ LET c == compiling[k]
           found == get_source(c.ref, loaded, obj)
       IN IF found = {} THEN Failed(k) /\ UNCHANGED <<db, obj>>
          ELSE \E s \in found :
                 /\ obj' = [obj EXCEPT ![s].active = c.art]
                 /\ UpdateActive(s, c.art)
                 /\ compiling' = [compiling EXCEPT ![k] = [at |-> "completed"]]
    /\ inHandler' = "none"
    /\ UNCHANGED <<loaded, dirs, pineCli, removing, edits>>

-----------------------------------------------------------------------------
(***************************************************************************)
(* The CLI: every command opens the registry, finds its source and works   *)
(* on the copy it read.                                                    *)
(***************************************************************************)

CliGoes(p, to) == pineCli' = [pineCli EXCEPT ![p] = to]

\* pine_add.
PineAdd(p, s, n, t) ==
    /\ pineCli[p].at = "idle" /\ Unused(s) /\ ~NameTaken(n, s) /\ Edit
    /\ db' = [db EXCEPT ![s] =
               [name |-> n, text |-> t, archived |-> FALSE, active |-> NoArtifact]]
    /\ UNCHANGED <<obj, loaded, dirs, compiling, pineCli, inHandler, removing>>

\* pine_compile, pine_rollback and pine_activate, pine_remove: get_source.
PineOpen(p, s, cmd) ==
    /\ pineCli[p].at = "idle" /\ Exists(s)
    /\ CliGoes(p, [at |-> cmd, id |-> s, text |-> db[s].text, file |-> ""])
    /\ UNCHANGED <<db, obj, loaded, dirs, compiling, inHandler, removing, edits>>

\* run_pine_file: pine-add under a name made from the file's name, carrying on with
\* the source of that name when the addition fails, then pine-compile.
RunPineFile(p, s, n, file) ==
    /\ pineCli[p].at = "idle" /\ Edit
    /\ IF NameTaken(n, s)
       THEN UNCHANGED db
       ELSE /\ Unused(s)
            /\ db' = [db EXCEPT ![s] =
                  [name |-> n, text |-> file, archived |-> FALSE, active |-> NoArtifact]]
    /\ \E o \in SourceIds :
         /\ db'[o] # NoRow /\ db'[o].name = n
         /\ CliGoes(p, [at |-> "save", id |-> o, text |-> db'[o].text, file |-> file])
    /\ UNCHANGED <<obj, loaded, dirs, compiling, inHandler, removing>>

\* compile_pipeline: the artifact of the text read, or the diagnostics.
PineCompile(p) ==
    /\ pineCli[p].at = "save"
    /\ LET c == pineCli[p]
       IN IF c.text \in BadTexts
          THEN SaveFailed(c.id, c.text) /\ CliGoes(p, Idle)
          ELSE /\ SaveSealed(c.id, <<c.text, c.text>>, c.text)
               /\ CliGoes(p, [at |-> "activate", id |-> c.id,
                              art |-> <<c.text, c.text>>, file |-> c.file])
    /\ UNCHANGED <<db, obj, loaded, compiling, inHandler, removing, edits>>

\* pine_rollback --to-version and pine_activate: the artifact must be listed.
PineChoose(p, id) ==
    /\ pineCli[p].at = "list" /\ id \in ArtifactsOf(pineCli[p].id)
    /\ CliGoes(p, [at |-> "activate", id |-> pineCli[p].id, art |-> id, file |-> ""])
    /\ UNCHANGED <<db, obj, loaded, dirs, compiling, inHandler, removing, edits>>

\* set_active_artifact on the command's copy.
PineActivate(p) ==
    /\ pineCli[p].at = "activate"
    /\ UpdateActive(pineCli[p].id, pineCli[p].art)
    /\ CliGoes(p, IF pineCli[p].file = "" THEN Idle ELSE [pineCli[p] EXCEPT !.at = "backtest"])
    /\ UNCHANGED <<obj, loaded, dirs, compiling, inHandler, removing, edits>>

\* pine_remove: the artifact directories listed are removed, then the row.
PineRemoveFiles(p) ==
    /\ pineCli[p].at = "dirs"
    /\ dirs' = [dirs EXCEPT ![pineCli[p].id] = {}]
    /\ removing' = removing \cup {pineCli[p].id}
    /\ CliGoes(p, [at |-> "row", id |-> pineCli[p].id])
    /\ UNCHANGED <<db, obj, loaded, compiling, inHandler, edits>>

PineRemoveRow(p) ==
    /\ pineCli[p].at = "row"
    /\ db' = [db EXCEPT ![pineCli[p].id] = NoRow]
    /\ CliGoes(p, Idle)
    /\ UNCHANGED <<obj, loaded, dirs, compiling, inHandler, removing, edits>>

\* The second half of run_pine_file: `strategy create', `strategy backtest' and the
\* comparison, each a process of its own (StrategyCli).
RunCreated(p) ==
    /\ pineCli[p].at = "backtest"
    /\ CliGoes(p, Idle)
    /\ UNCHANGED <<db, obj, loaded, dirs, compiling, inHandler, removing, edits>>

\* A command ends early: nothing listed, an unreadable artifact, an interrupt.
PineEnds(p) ==
    /\ pineCli[p].at # "idle"
    /\ CliGoes(p, Idle)
    /\ UNCHANGED <<db, obj, loaded, dirs, compiling, inHandler, removing, edits>>

-----------------------------------------------------------------------------
PineNext ==
    \/ \E s \in SourceIds, n \in SourceNames, t \in Texts : CreateSource(s, n, t)
    \/ \E s \in SourceIds, n \in SourceNames, t \in Texts, arch \in BOOLEAN :
         UpdateSource(s, n, t, arch)
    \/ \E s \in SourceIds, arch \in BOOLEAN : SetSourceArchived(s, arch)
    \/ \E s \in SourceIds : DeleteFiles(s) \/ DeleteRow(s)
    \/ RestartGateway
    \/ \E k \in CompileTasks, s \in SourceIds,
          ref \in IF ByName THEN SourceIds \cup SourceNames ELSE SourceIds :
         CompilePine(k, ref, s)
    \/ \E k \in CompileTasks :
         ParseSource(k) \/ TranslateSource(k) \/ SaveCompiled(k) \/ ActivateCompiled(k)
    \/ \E p \in PineClis, s \in SourceIds, n \in SourceNames, t \in Texts : PineAdd(p, s, n, t)
    \/ \E p \in PineClis, s \in SourceIds, n \in SourceNames, t \in RunFiles : RunPineFile(p, s, n, t)
    \/ \E p \in PineClis, s \in SourceIds, cmd \in {"save", "list", "dirs"} : PineOpen(p, s, cmd)
    \/ \E p \in PineClis, id \in ArtifactIds : PineChoose(p, id)
    \/ \E p \in PineClis :
         \/ PineCompile(p) \/ PineActivate(p)
         \/ PineRemoveFiles(p) \/ PineRemoveRow(p) \/ RunCreated(p) \/ PineEnds(p)

PineSpec == PineInit /\ [][PineNext]_pineVars

-----------------------------------------------------------------------------
(***************************************************************************)
(* Every stored artifact holds the Pine text its envelope seals, although  *)
(* a compile task reads the text three times with awaits between and the   *)
(* editor may save in any of them (ArtifactStore._save_sealed_artifact).   *)
(***************************************************************************)
ArtifactsAreSealed ==
    \A r \in SourceIds \cup SourceNames : \A a \in dirs[r] :
        a.id # FailedArtifact => a.id[1] = a.pine

(***************************************************************************)
(* The artifact a row names as active is on disk in that source's          *)
(* directory, unless someone has set about removing the source: saving     *)
(* precedes activating in compile_pine, pine_compile, rollback and         *)
(* activate, in every interleaving of the gateway with CLI commands.       *)
(***************************************************************************)
ActiveIsStored ==
    \A s \in SourceIds :
        (Exists(s) /\ db[s].active # NoArtifact /\ s \notin removing)
            => db[s].active \in ArtifactsOf(s)
=============================================================================
