----------------------------- MODULE CodeProofs -----------------------------
(***************************************************************************)
(* From a Pine source to a run: what compile_pipeline seals, what the      *)
(* registry and the artifact store hold while the gateway and the command  *)
(* line work on them, and the identity a run and the trials of a search    *)
(* execute under, for any number of sources, tasks, processes and runs.    *)
(***************************************************************************)
EXTENDS CompileAdapter, OptimizerSearch, TLAPS

-----------------------------------------------------------------------------
(* A call of the compile adapter                                           *)

(* Where a call of compile_pipeline is, and what it may have done by then. *)
CompInv ==
    /\ CompTypeOK /\ request \in CompileRequests
    /\ compileStep \notin {"profile", "pipeline", "done"} => ~ProfileRefused
    /\ compileStep \in {"profile", "adapter", "parse", "translate", "tools", "run_parser", "run_translator"} =>
         compileResult = "none"
    /\ compileStep \in {"parse", "translate"} => meta.adapter = "library"
    /\ compileStep = "translate" /\ Production => ~meta.rewritten
    /\ compileStep = "cleanup" => compileResult \in {"failed", "unsealed"}
    /\ compileStep # "done" => artifact = "none"
    /\ artifact = "OK" => compileResult = "sealed"
    /\ compileResult = "sealed" =>
         /\ meta.adapter = "library"
         /\ Production => /\ ~meta.rewritten /\ ~meta.dirty
                          /\ meta.passed \subseteq {"invalid_ast"}

LEMMA CompStarts == CompInit => CompInv
BY DEF CompInit, CompInv, CompTypeOK, CompileRequests, Allowances

LEMMA CompStep == ASSUME CompInv, CompNext PROVE CompInv'
<1>0. meta \in [adapter: {"none", "library", "subprocess"}, rewritten: BOOLEAN,
                dirty: BOOLEAN, passed: SUBSET Allowances]
    BY Zenon DEF CompInv, CompTypeOK
<1>1. CASE CheckProfile
    BY <1>1, Zenon DEF CheckProfile, CompInv, CompTypeOK, CompileAnswers, Proceeds, ProfileRefused, Production
<1>2. CASE ChooseAdapter
    <2>1. compileStep = "adapter" /\ UNCHANGED <<request, temps>>
        BY <1>2, Zenon DEF ChooseAdapter
    <2>2. \/ meta' = [meta EXCEPT !.adapter = "library"] /\ Proceeds("parse")
          \/ meta' = [meta EXCEPT !.adapter = "subprocess"] /\ Proceeds("tools")
          \/ meta' = meta /\ CompileAnswers("failed")
        BY <1>2, Zenon DEF ChooseAdapter
    <2>. QED BY <2>1, <2>2, <1>0, Zenon DEF CompInv, CompTypeOK, CompileAnswers, Proceeds, ProfileRefused,
    Production
<1>3. CASE ParseLibrary
    <2>1. PICK parse \in LibraryParse :
            /\ meta' = [meta EXCEPT !.rewritten = parse = "rewritten"]
            /\ IF parse = "errors" \/ (Production /\ request.badRequest)
               THEN CompileAnswers("failed") ELSE Proceeds("translate")
        BY <1>3, Zenon DEF ParseLibrary
    <2>2. compileStep = "parse" /\ UNCHANGED <<request, temps>>
        BY <1>3, Zenon DEF ParseLibrary
    <2>3. Production => parse # "rewritten"
        BY <2>2, Zenon DEF CompInv, ProfileRefused, LibraryParse, MayRewrite
    <2>4. (parse = "rewritten") \in BOOLEAN
        BY Zenon
    <2> DEFINE b == parse = "rewritten"
    <2>5. meta' = [meta EXCEPT !.rewritten = b] /\ b \in BOOLEAN /\ (Production => ~b)
        BY <2>1, <2>3, <2>4, Zenon
    <2> HIDE DEF b
    <2>6. \/ CompileAnswers("failed") \/ Proceeds("translate")
        BY <2>1, Zenon
    <2>7. /\ meta' \in [adapter: {"none", "library", "subprocess"}, rewritten: BOOLEAN,
                        dirty: BOOLEAN, passed: SUBSET Allowances]
          /\ meta'.adapter = meta.adapter /\ meta'.dirty = meta.dirty /\ meta'.passed = meta.passed
          /\ Production => ~meta'.rewritten
        BY <2>5, <1>0, Zenon
    <2>. QED BY <2>2, <2>6, <2>7, Zenon DEF CompInv, CompTypeOK, CompileAnswers, Proceeds, ProfileRefused,
    Production
<1>4. CASE TranslateLibrary
    <2> DEFINE P == (request.allow \cup request.kwargs) \cap {"library_stubs", "request_stubs", "invalid_ast"}
    <2>1. PICK d \in BOOLEAN : meta' = [meta EXCEPT !.dirty = d, !.passed = P]
        BY <1>4, Zenon DEF TranslateLibrary
    <2>2. /\ compileStep = "translate" /\ UNCHANGED <<request, temps>>
          /\ CompileAnswers("failed") \/ (~Blocked(meta'.dirty) /\ CompileAnswers("sealed"))
        BY <1>4, Zenon DEF TranslateLibrary
    <2>3. P \in SUBSET Allowances
        BY Zenon DEF Allowances
    <2>4. Production => P \subseteq {"invalid_ast"}
        BY <2>2, Zenon DEF CompInv, ProfileRefused, RefusedOptions
    <2> HIDE DEF P
    <2>5. /\ meta' \in [adapter: {"none", "library", "subprocess"}, rewritten: BOOLEAN,
                        dirty: BOOLEAN, passed: SUBSET Allowances]
          /\ meta'.adapter = meta.adapter /\ meta'.rewritten = meta.rewritten /\ meta'.dirty = d /\ meta'.passed = P
        BY <2>1, <2>3, <1>0, Zenon
    <2>. QED BY <2>2, <2>4, <2>5, Zenon DEF CompInv, CompTypeOK, CompileAnswers, ProfileRefused,
    Production, Blocked
<1>5. CASE FindTools
    BY <1>5, <1>0, Zenon DEF FindTools, CompInv, CompTypeOK, CompileAnswers, Proceeds, ProfileRefused,
       Production
<1>6. CASE RunParser
    BY <1>6, <1>0, Zenon DEF RunParser, CompInv, CompTypeOK, Fails, Proceeds, ProfileRefused, Production
<1>7. CASE RunTranslator
    BY <1>7, <1>0, Zenon DEF RunTranslator, CompInv, CompTypeOK, Fails, ProfileRefused, Production
<1>8. CASE TranslatorTimesOut
    BY <1>8, <1>0, Zenon DEF TranslatorTimesOut, CompInv, CompTypeOK, CompileAnswers, ProfileRefused,
       Production
<1>9. CASE Cleanup
    BY <1>9, <1>0, Zenon DEF Cleanup, CompInv, CompTypeOK, ProfileRefused, Production
<1>10. CASE PipelineSaves
    <2>1. /\ artifact' \in {"none", "OK", "FAILED"}
          /\ artifact' = "OK" => compileResult = "sealed"
        BY <1>10, Zenon DEF PipelineSaves
    <2>. QED BY <1>10, <2>1, Zenon DEF PipelineSaves, CompInv, CompTypeOK, ProfileRefused, Production
<1>. QED BY <1>1, <1>2, <1>3, <1>4, <1>5, <1>6, <1>7, <1>8, <1>9, <1>10, Zenon DEF CompNext

LEMMA CompStutters == ASSUME CompInv, UNCHANGED compVars PROVE CompInv'
BY Zenon DEF CompInv, CompTypeOK, compVars, ProfileRefused, Production

(* A compile task of the gateway, and a command, in each of their stages.  *)
Compiling ==
    [at : {"idle", "completed", "failed"}]
    \cup [at : {"parse"}, ref : SourceIds, id : SourceIds]
    \cup [at : {"translate"}, ref : SourceIds, id : SourceIds, ast : Texts]
    \cup [at : {"save", "activate"}, ref : SourceIds, id : SourceIds, art : Texts \X Texts]

Commanding ==
    [at : {"idle"}]
    \cup [at : {"save", "list", "dirs"}, id : SourceIds, text : Texts, file : Texts \cup {""}]
    \cup [at : {"activate", "backtest"}, id : SourceIds, art : ArtifactIds, file : Texts \cup {""}]
    \cup [at : {"row"}, id : SourceIds]

PineTypes ==
    /\ db \in [SourceIds -> Rows \cup {NoRow}]
    /\ obj \in [SourceIds -> Rows \cup {NoRow}]
    /\ loaded \in SUBSET SourceIds
    /\ dirs \in [SourceIds \cup SourceNames -> SUBSET Stored]
    /\ compiling \in [CompileTasks -> Compiling]
    /\ pineCli \in [PineClis -> Commanding]
    /\ inHandler \in CompileTasks \cup SourceIds \cup {"none"}
    /\ removing \in SUBSET SourceIds
    /\ edits \in 0..MaxEdits

(* The gateway's objects are there: of what it has loaded, and of what it  *)
(* compiles although the source may have been removed since.               *)
ObjectsAreThere ==
    /\ \A s \in loaded : obj[s] # NoRow
    /\ \A k \in CompileTasks :
         compiling[k].at \in {"parse", "translate", "save", "activate"} => obj[compiling[k].id] # NoRow

(* What is about to become active is on disk, or is being removed.         *)
IsKept(rem, d, s, id) == s \in rem \/ \E a \in d[s] : a.id = id

ChosenIsStored ==
    /\ \A k \in CompileTasks :
         inHandler = k => compiling[k].at = "activate" /\ IsKept(removing, dirs, compiling[k].ref, compiling[k].art)
    /\ \A p \in PineClis : pineCli[p].at = "activate" =>
         IsKept(removing, dirs, pineCli[p].id, pineCli[p].art)

PineInv == PineTypes /\ ObjectsAreThere /\ ChosenIsStored /\ ArtifactsAreSealed /\ ActiveIsStored

LEMMA PineStarts == PineInit => PineInv
<1> SUFFICES ASSUME PineInit PROVE PineInv
    BY Zenon
<1>1. PineTypes
    BY PineAssumption DEF PineInit, PineTypes, Idle, Compiling, Commanding
<1>2. ObjectsAreThere /\ ChosenIsStored
    BY PineAssumption, Zenon DEF PineInit, ObjectsAreThere, ChosenIsStored, Idle
<1>3. ArtifactsAreSealed /\ ActiveIsStored
    BY Zenon DEF PineInit, ArtifactsAreSealed, ActiveIsStored, Exists
<1>. QED BY <1>1, <1>2, <1>3, Zenon DEF PineInv

(* What the stages say of a task and of a command.                         *)
LEMMA TaskStages ==
    ASSUME NEW c \in Compiling
    PROVE  /\ c.at \in {"idle", "completed", "failed", "parse", "translate", "save", "activate"}
           /\ c.at \in {"parse", "translate", "save", "activate"} => c.ref \in SourceIds /\ c.id \in SourceIds
           /\ c.at = "translate" => c.ast \in Texts
           /\ c.at \in {"save", "activate"} =>
                 /\ c \in [at : {"save", "activate"}, ref : SourceIds, id : SourceIds, art : Texts \X Texts]
                 /\ c.art \in Texts \X Texts
BY Zenon DEF Compiling

LEMMA CommandStages ==
    ASSUME NEW c \in Commanding
    PROVE  /\ c.at \in {"idle", "save", "list", "activate", "backtest", "dirs", "row"}
           /\ c.at # "idle" => c.id \in SourceIds
           /\ c.at \in {"save", "list", "dirs"} => c.text \in Texts /\ c.file \in Texts \cup {""}
           /\ c.at \in {"activate", "backtest"} =>
                 /\ c \in [at : {"activate", "backtest"}, id : SourceIds, art : ArtifactIds, file : Texts \cup {""}]
                 /\ c.art \in ArtifactIds /\ c.file \in Texts \cup {""}
BY Zenon DEF Commanding

LEMMA ArtifactTyped == Texts \X Texts \subseteq ArtifactIds /\ NoArtifact \in ArtifactIds /\ FailedArtifact \in ArtifactIds
BY Zenon DEF ArtifactIds

(* Nothing that is stored goes away unless its source is being removed.    *)
Grows ==
    /\ removing \subseteq removing'
    /\ \A s \in SourceIds : s \in removing' \/ \A a \in dirs[s] : \E b \in dirs'[s] : b.id = a.id

LEMMA KeptStays ==
    ASSUME Grows, NEW s \in SourceIds, NEW id, IsKept(removing, dirs, s, id)
    PROVE  IsKept(removing', dirs', s, id)
BY Zenon DEF Grows, IsKept

LEMMA SameDirsGrow == ASSUME UNCHANGED <<dirs, removing>> PROVE Grows
BY Zenon DEF Grows

LEMMA SealedStays == ASSUME PineInv, UNCHANGED dirs PROVE ArtifactsAreSealed'
BY Zenon DEF PineInv, ArtifactsAreSealed

(* Rows whose active artifact changes to nothing, or to what is kept.      *)
LEMMA ActiveStays ==
    ASSUME PineInv, Grows,
           \A s \in SourceIds : \/ db'[s] = NoRow
                                \/ db'[s].active = NoArtifact
                                \/ IsKept(removing', dirs', s, db'[s].active)
                                \/ db[s] # NoRow /\ db'[s].active = db[s].active
    PROVE  ActiveIsStored'
<1> SUFFICES ASSUME NEW s \in SourceIds, db'[s] # NoRow, db'[s].active # NoArtifact, s \notin removing'
             PROVE  \E a \in dirs'[s] : a.id = db'[s].active
    BY Zenon DEF ActiveIsStored, Exists, ArtifactsOf
<1>1. CASE IsKept(removing', dirs', s, db'[s].active)
    BY <1>1, Zenon DEF IsKept
<1>2. CASE db[s] # NoRow /\ db'[s].active = db[s].active
    <2>1. s \notin removing
        BY Zenon DEF Grows
    <2>2. \E a \in dirs[s] : a.id = db[s].active
        BY <1>2, <2>1, Zenon DEF PineInv, ActiveIsStored, Exists, ArtifactsOf
    <2>. QED BY <1>2, <2>2, Zenon DEF Grows
<1>. QED BY <1>1, <1>2, Zenon

LEMMA ChosenStays ==
    ASSUME PineInv, Grows,
           \A k \in CompileTasks : inHandler' = k =>
               \/ inHandler = k /\ compiling'[k] = compiling[k]
               \/ compiling'[k].at = "activate" /\ IsKept(removing', dirs', compiling'[k].ref, compiling'[k].art),
           \A p \in PineClis : pineCli'[p].at = "activate" =>
               \/ pineCli'[p] = pineCli[p]
               \/ IsKept(removing', dirs', pineCli'[p].id, pineCli'[p].art)
    PROVE  ChosenIsStored'
<1>1. ASSUME NEW k \in CompileTasks, inHandler' = k
      PROVE  compiling'[k].at = "activate" /\ IsKept(removing', dirs', compiling'[k].ref, compiling'[k].art)
    <2>1. CASE inHandler = k /\ compiling'[k] = compiling[k]
        <3>1. compiling[k].at = "activate" /\ IsKept(removing, dirs, compiling[k].ref, compiling[k].art)
            BY <2>1, Zenon DEF PineInv, ChosenIsStored
        <3>2. compiling[k].ref \in SourceIds
            BY <3>1, TaskStages, Zenon DEF PineInv, PineTypes
        <3>3. IsKept(removing', dirs', compiling[k].ref, compiling[k].art)
            BY <3>1, <3>2, KeptStays, Zenon
        <3>. QED BY <2>1, <3>1, <3>3, Zenon
    <2>. QED BY <1>1, <2>1, Zenon
<1>2. ASSUME NEW p \in PineClis, pineCli'[p].at = "activate"
      PROVE  IsKept(removing', dirs', pineCli'[p].id, pineCli'[p].art)
    <2>1. CASE pineCli'[p] = pineCli[p]
        <3>1. IsKept(removing, dirs, pineCli[p].id, pineCli[p].art)
            BY <1>2, <2>1, Zenon DEF PineInv, ChosenIsStored
        <3>2. pineCli[p].id \in SourceIds
            BY <1>2, <2>1, CommandStages, Zenon DEF PineInv, PineTypes
        <3>3. IsKept(removing', dirs', pineCli[p].id, pineCli[p].art)
            BY <3>1, <3>2, KeptStays, Zenon
        <3>. QED BY <2>1, <3>3, Zenon
    <2>. QED BY <1>2, <2>1, Zenon
<1>. QED BY <1>1, <1>2, Zenon DEF ChosenIsStored

LEMMA NewRow ==
    ASSUME NEW n \in SourceNames, NEW t \in Texts
    PROVE  /\ [name |-> n, text |-> t, archived |-> FALSE, active |-> NoArtifact] \in Rows
           /\ [name |-> n, text |-> t, archived |-> FALSE, active |-> NoArtifact].active = NoArtifact
BY ArtifactTyped, Zenon DEF Rows

LEMMA EditsTyped == ASSUME PineTypes, Edit PROVE edits' \in 0..MaxEdits
BY PineAssumption DEF PineTypes, Edit

(* Steps that change rows and objects only.                                *)
LEMMA RowsKeep ==
    ASSUME PineInv, UNCHANGED <<dirs, compiling, pineCli, inHandler, removing>>,
           db' \in [SourceIds -> Rows \cup {NoRow}], obj' \in [SourceIds -> Rows \cup {NoRow}],
           loaded' \in SUBSET SourceIds, edits' \in 0..MaxEdits,
           \A s \in SourceIds : obj[s] # NoRow => obj'[s] # NoRow,
           \A s \in loaded' : s \in loaded \/ obj'[s] # NoRow,
           \A s \in SourceIds : \/ db'[s] = NoRow \/ db'[s].active = NoArtifact
                                \/ db[s] # NoRow /\ db'[s].active = db[s].active
    PROVE  PineInv'
<1>1. PineTypes'
    BY Zenon DEF PineInv, PineTypes
<1>2. ObjectsAreThere'
    <2>1. \A k \in CompileTasks : compiling[k] \in Compiling
        BY Zenon DEF PineInv, PineTypes
    <2>2. \A k \in CompileTasks : compiling[k].at \in {"parse", "translate", "save", "activate"} => compiling[k].id \in SourceIds
        BY <2>1, TaskStages, Zenon
    <2>. QED BY <2>2, Zenon DEF PineInv, PineTypes, ObjectsAreThere
<1>3. Grows
    BY SameDirsGrow, Zenon
<1>4. ChosenIsStored'
    BY <1>3, ChosenStays, Zenon
<1>5. ActiveIsStored'
    BY <1>3, ActiveStays, Zenon
<1>. QED BY <1>1, <1>2, <1>4, <1>5, SealedStays, Zenon DEF PineInv

LEMMA CreateSourceKeeps ==
    ASSUME PineInv, NEW s \in SourceIds, NEW n \in SourceNames, NEW t \in Texts, CreateSource(s, n, t)
    PROVE  PineInv'
<1> DEFINE r == [name |-> n, text |-> t, archived |-> FALSE, active |-> NoArtifact]
<1>1. r \in Rows /\ r.active = NoArtifact
    BY NewRow, Zenon
<1>2. r # NoRow
    BY <1>1, NoRowAssumption, Zenon
<1>3. db' = [db EXCEPT ![s] = r] /\ obj' = [obj EXCEPT ![s] = r] /\ loaded' = loaded \cup {s}
      /\ UNCHANGED <<dirs, compiling, pineCli, inHandler, removing>> /\ edits' \in 0..MaxEdits
    BY EditsTyped, Zenon DEF CreateSource, PineInv
<1>. HIDE DEF r
<1>. QED BY <1>1, <1>2, <1>3, RowsKeep, Zenon DEF PineInv, PineTypes

LEMMA UpdateSourceKeeps ==
    ASSUME PineInv, NEW s \in SourceIds, NEW n \in SourceNames, NEW t \in Texts, NEW arch \in BOOLEAN,
           UpdateSource(s, n, t, arch)
    PROVE  PineInv'
<1> DEFINE up(r) == [r EXCEPT !.name = n, !.text = t, !.archived = arch]
<1>1. ASSUME NEW r \in Rows PROVE up(r) \in Rows /\ up(r).active = r.active
    BY Zenon DEF Rows
<1>2. obj[s] \in Rows
    BY Zenon DEF UpdateSource, PineInv, PineTypes, ObjectsAreThere
<1>3. /\ obj' = [obj EXCEPT ![s] = up(obj[s])]
      /\ \/ db' = db
         \/ db[s] # NoRow /\ db' = [db EXCEPT ![s] = up(db[s])]
      /\ UNCHANGED <<loaded, dirs, compiling, pineCli, inHandler, removing>> /\ edits' \in 0..MaxEdits
    BY <1>2, EditsTyped, Zenon DEF UpdateSource, PineInv, PineTypes, Exists, Rows
<1>4. db[s] # NoRow => db[s] \in Rows
    BY Zenon DEF PineInv, PineTypes
<1> HIDE DEF up
<1>. QED BY <1>1, <1>2, <1>3, <1>4, RowsKeep, NoRowAssumption, Zenon DEF PineInv, PineTypes

LEMMA SetSourceArchivedKeeps ==
    ASSUME PineInv, NEW s \in SourceIds, NEW arch \in BOOLEAN, SetSourceArchived(s, arch)
    PROVE  PineInv'
<1> DEFINE up(r) == [r EXCEPT !.archived = arch]
<1>1. ASSUME NEW r \in Rows PROVE up(r) \in Rows /\ up(r).active = r.active
    BY Zenon DEF Rows
<1>2. obj[s] \in Rows
    BY Zenon DEF SetSourceArchived, PineInv, PineTypes, ObjectsAreThere
<1>3. /\ obj' = [obj EXCEPT ![s] = up(obj[s])]
      /\ \/ db' = db
         \/ db[s] # NoRow /\ db' = [db EXCEPT ![s] = up(db[s])]
      /\ UNCHANGED <<loaded, dirs, compiling, pineCli, inHandler, removing>> /\ edits' \in 0..MaxEdits
    BY <1>2, EditsTyped, Zenon DEF SetSourceArchived, PineInv, PineTypes, Exists
<1>4. db[s] # NoRow => db[s] \in Rows
    BY Zenon DEF PineInv, PineTypes
<1> HIDE DEF up
<1>. QED BY <1>1, <1>2, <1>3, <1>4, RowsKeep, NoRowAssumption, Zenon DEF PineInv, PineTypes

LEMMA PineAddKeeps ==
    ASSUME PineInv, NEW p \in PineClis, NEW s \in SourceIds, NEW n \in SourceNames, NEW t \in Texts,
           PineAdd(p, s, n, t)
    PROVE  PineInv'
<1> DEFINE r == [name |-> n, text |-> t, archived |-> FALSE, active |-> NoArtifact]
<1>1. r \in Rows /\ r.active = NoArtifact
    BY NewRow, Zenon
<1>2. /\ db' = [db EXCEPT ![s] = r] /\ UNCHANGED <<obj, loaded, dirs, compiling, pineCli, inHandler, removing>>
      /\ edits' \in 0..MaxEdits
    BY EditsTyped, Zenon DEF PineAdd, PineInv
<1>. HIDE DEF r
<1>. QED BY <1>1, <1>2, RowsKeep, Zenon DEF PineInv, PineTypes

(* delete_source, its files and then its row.                              *)
LEMMA DeleteFilesKeeps ==
    ASSUME PineInv, NEW s \in SourceIds, DeleteFiles(s)
    PROVE  PineInv'
<1>1. PICK left \in {{}, dirs[s]} : dirs' = [dirs EXCEPT ![s] = left]
    BY Zenon DEF DeleteFiles
<1>2. /\ removing' = removing \cup {s} /\ inHandler' \in {s, "none"} /\ inHandler = "none"
      /\ UNCHANGED <<db, obj, loaded, compiling, pineCli, edits>>
    BY Zenon DEF DeleteFiles, GatewayFree
<1>3. PineTypes'
    BY <1>1, <1>2, Zenon DEF PineInv, PineTypes
<1>4. ObjectsAreThere'
    BY <1>2, Zenon DEF PineInv, ObjectsAreThere
<1>5. Grows
    BY <1>1, <1>2, Zenon DEF Grows, PineInv, PineTypes
<1>6. ChosenIsStored'
    <2>1. \A k \in CompileTasks : inHandler' # k
        BY <1>2, PineAssumption, Zenon
    <2>. QED BY <1>2, <1>5, <2>1, ChosenStays, Zenon
<1>7. ActiveIsStored'
    BY <1>2, <1>5, ActiveStays, Zenon
<1>8. ArtifactsAreSealed'
    BY <1>1, Zenon DEF PineInv, PineTypes, ArtifactsAreSealed
<1>. QED BY <1>3, <1>4, <1>6, <1>7, <1>8, Zenon DEF PineInv

LEMMA DeleteRowKeeps ==
    ASSUME PineInv, NEW s \in SourceIds, DeleteRow(s)
    PROVE  PineInv'
<1>1. /\ db' = [db EXCEPT ![s] = NoRow] /\ loaded' = loaded \ {s} /\ inHandler' = "none"
      /\ UNCHANGED <<obj, dirs, compiling, pineCli, removing, edits>>
    BY Zenon DEF DeleteRow
<1>2. PineTypes'
    BY <1>1, Zenon DEF PineInv, PineTypes
<1>3. ObjectsAreThere'
    BY <1>1, Zenon DEF PineInv, ObjectsAreThere
<1>4. Grows
    BY <1>1, SameDirsGrow, Zenon
<1>5. ChosenIsStored'
    BY <1>1, <1>4, ChosenStays, PineAssumption, Zenon
<1>6. ActiveIsStored'
    BY <1>1, <1>4, ActiveStays, Zenon DEF PineInv, PineTypes
<1>. QED BY <1>1, <1>2, <1>3, <1>5, <1>6, SealedStays, Zenon DEF PineInv

LEMMA RestartGatewayKeeps ==
    ASSUME PineInv, RestartGateway
    PROVE  PineInv'
<1>1. /\ loaded' = {s \in SourceIds : db[s] # NoRow}
      /\ obj' = [s \in SourceIds |-> IF db[s] # NoRow THEN db[s] ELSE obj[s]]
      /\ compiling' = [k \in CompileTasks |-> Idle] /\ inHandler' = "none"
      /\ UNCHANGED <<db, dirs, pineCli, removing>> /\ edits' \in 0..MaxEdits
    BY EditsTyped, Zenon DEF RestartGateway, Exists, PineInv
<1>2. PineTypes'
    <2>1. Idle \in Compiling
        BY Zenon DEF Idle, Compiling
    <2>. QED BY <1>1, <2>1, Zenon DEF PineInv, PineTypes
<1>3. ObjectsAreThere'
    BY <1>1, Zenon DEF ObjectsAreThere, Idle
<1>4. Grows
    BY <1>1, SameDirsGrow, Zenon
<1>5. ChosenIsStored'
    BY <1>1, <1>4, ChosenStays, PineAssumption, Zenon
<1>6. ActiveIsStored'
    BY <1>1, <1>4, ActiveStays, Zenon
<1>. QED BY <1>1, <1>2, <1>3, <1>5, <1>6, SealedStays, Zenon DEF PineInv

(* A compile task moves on while no handler is in the middle of its work.  *)
LEMMA TaskKeeps ==
    ASSUME PineInv, inHandler = "none", NEW k \in CompileTasks, NEW c \in Compiling,
           compiling' = [compiling EXCEPT ![k] = c],
           c.at \in {"parse", "translate", "save", "activate"} => obj[c.id] # NoRow,
           UNCHANGED <<db, obj, loaded, dirs, pineCli, inHandler, removing, edits>>
    PROVE  PineInv'
<1>1. PineTypes'
    BY Zenon DEF PineInv, PineTypes
<1>2. ObjectsAreThere'
    BY Zenon DEF PineInv, PineTypes, ObjectsAreThere
<1>3. Grows
    BY SameDirsGrow, Zenon
<1>4. ChosenIsStored'
    BY <1>3, ChosenStays, PineAssumption, Zenon
<1>5. ActiveIsStored'
    BY <1>3, ActiveStays, Zenon
<1>. QED BY <1>1, <1>2, <1>4, <1>5, SealedStays, Zenon DEF PineInv

LEMMA CompilePineKeeps ==
    ASSUME PineInv, NEW k \in CompileTasks, NEW ref \in SourceIds, NEW s \in SourceIds, CompilePine(k, ref, s)
    PROVE  PineInv'
<1> DEFINE c == [at |-> "parse", ref |-> ref, id |-> s]
<1>1. c \in Compiling /\ c.id = s
    BY Zenon DEF Compiling
<1>2. s \in loaded
    BY Zenon DEF CompilePine, get_source
<1>3. /\ compiling' = [compiling EXCEPT ![k] = c] /\ inHandler = "none"
      /\ UNCHANGED <<db, obj, loaded, dirs, pineCli, inHandler, removing, edits>>
    BY Zenon DEF CompilePine, GatewayFree
<1>4. obj[s] # NoRow
    BY <1>2, Zenon DEF PineInv, ObjectsAreThere
<1> HIDE DEF c
<1>. QED BY <1>1, <1>3, <1>4, TaskKeeps, Zenon

LEMMA FailedTask == [at |-> "failed"] \in Compiling /\ [at |-> "failed"].at = "failed"
BY Zenon DEF Compiling

LEMMA ParseSourceKeeps ==
    ASSUME PineInv, NEW k \in CompileTasks, ParseSource(k)
    PROVE  PineInv'
<1> DEFINE o == compiling[k]
           t == obj[o.id].text
           c == [at |-> "translate", ref |-> o.ref, id |-> o.id, ast |-> t]
<1>1. o \in Compiling /\ o.at = "parse" /\ inHandler = "none"
      /\ UNCHANGED <<db, obj, loaded, dirs, pineCli, inHandler, removing, edits>>
    BY Zenon DEF ParseSource, GatewayFree, PineInv, PineTypes
<1>2. o.ref \in SourceIds /\ o.id \in SourceIds /\ obj[o.id] # NoRow
    BY <1>1, TaskStages, Zenon DEF PineInv, ObjectsAreThere
<1>3. t \in Texts
    BY <1>2, Zenon DEF PineInv, PineTypes, Rows
<1>4. compiling' = [compiling EXCEPT ![k] = [at |-> "failed"]] \/ compiling' = [compiling EXCEPT ![k] = c]
    BY Zenon DEF ParseSource, Failed, PineInv, PineTypes
<1>5. c \in Compiling /\ c.id = o.id
    BY <1>2, <1>3, Zenon DEF Compiling
<1> HIDE DEF c, o
<1>. QED BY <1>1, <1>2, <1>4, <1>5, TaskKeeps, FailedTask, Zenon

LEMMA TranslateSourceKeeps ==
    ASSUME PineInv, NEW k \in CompileTasks, TranslateSource(k)
    PROVE  PineInv'
<1> DEFINE o == compiling[k]
           c == [at |-> "save", ref |-> o.ref, id |-> o.id, art |-> <<obj[o.id].text, o.ast>>]
<1>1. o \in Compiling /\ o.at = "translate" /\ inHandler = "none"
      /\ UNCHANGED <<db, obj, loaded, dirs, pineCli, inHandler, removing, edits>>
    BY Zenon DEF TranslateSource, GatewayFree, PineInv, PineTypes
<1>2. o.ref \in SourceIds /\ o.id \in SourceIds /\ obj[o.id] # NoRow /\ o.ast \in Texts
    BY <1>1, TaskStages, Zenon DEF PineInv, ObjectsAreThere
<1>3. obj[o.id].text \in Texts
    BY <1>2, Zenon DEF PineInv, PineTypes, Rows
<1>4. compiling' = [compiling EXCEPT ![k] = [at |-> "failed"]] \/ compiling' = [compiling EXCEPT ![k] = c]
    BY Zenon DEF TranslateSource, Failed, PineInv, PineTypes
<1>5. c \in Compiling /\ c.id = o.id
    BY <1>2, <1>3, Zenon DEF Compiling
<1> HIDE DEF c, o
<1>. QED BY <1>1, <1>2, <1>4, <1>5, TaskKeeps, FailedTask, Zenon

(* _save_sealed_artifact: afterwards the artifact is there, sealed over    *)
(* the bytes it has, and so is everything that was.                        *)
LEMMA SaveSealedKeeps ==
    ASSUME PineInv, NEW r \in SourceIds, NEW id \in Texts \X Texts, NEW pine \in Texts,
           VerifySealed(id, pine), SaveSealed(r, id, pine), UNCHANGED removing
    PROVE  /\ dirs' \in [SourceIds \cup SourceNames -> SUBSET Stored]
           /\ ArtifactsAreSealed' /\ Grows /\ IsKept(removing', dirs', r, id)
<1> DEFINE e == [id |-> id, pine |-> pine]
           D == IF \E a \in dirs[r] : a.id = id THEN dirs[r] ELSE dirs[r] \cup {e}
<1>1. dirs \in [SourceIds \cup SourceNames -> SUBSET Stored]
    BY Zenon DEF PineInv, PineTypes
<1>2. e \in Stored /\ e.id = id /\ e.pine = pine /\ id[1] = pine
    BY ArtifactTyped, Zenon DEF Stored, VerifySealed
<1>3. dirs' = [dirs EXCEPT ![r] = D]
    BY <1>1, Zenon DEF SaveSealed
<1> HIDE DEF e
<1>4. /\ D \in SUBSET Stored /\ dirs[r] \subseteq D
      /\ \E a \in D : a.id = id
      /\ \A a \in D : a \in dirs[r] \/ a = e
    BY <1>1, <1>2, Zenon
<1> HIDE DEF D
<1>5. dirs' \in [SourceIds \cup SourceNames -> SUBSET Stored]
    BY <1>1, <1>3, <1>4, Zenon
<1>6. ArtifactsAreSealed'
    <2>1. ASSUME NEW q \in SourceIds \cup SourceNames, NEW a \in dirs'[q], a.id # FailedArtifact
          PROVE  a.id[1] = a.pine
        <3>1. a \in dirs[q] \/ a = e
            BY <1>1, <1>3, <1>4, Zenon
        <3>2. CASE a \in dirs[q]
            BY <2>1, <3>2, Zenon DEF PineInv, ArtifactsAreSealed
        <3>3. CASE a = e
            BY <3>3, <1>2, Zenon
        <3>. QED BY <3>1, <3>2, <3>3, Zenon
    <2>. QED BY <2>1, Zenon DEF ArtifactsAreSealed
<1>7. Grows
    BY <1>1, <1>3, <1>4, Zenon DEF Grows
<1>8. IsKept(removing', dirs', r, id)
    BY <1>1, <1>3, <1>4, Zenon DEF IsKept
<1>. QED BY <1>5, <1>6, <1>7, <1>8, Zenon

LEMMA SaveCompiledKeeps ==
    ASSUME PineInv, NEW k \in CompileTasks, SaveCompiled(k)
    PROVE  PineInv'
<1> DEFINE o == compiling[k]
           pine == obj[o.id].text
           c == [o EXCEPT !.at = "activate"]
<1>1. o \in Compiling /\ o.at = "save" /\ inHandler = "none" /\ UNCHANGED <<db, obj, loaded, pineCli, removing, edits>>
    BY Zenon DEF SaveCompiled, GatewayFree, PineInv, PineTypes
<1>2. o.ref \in SourceIds /\ o.id \in SourceIds /\ obj[o.id] # NoRow /\ o.art \in Texts \X Texts
      /\ o \in [at : {"save", "activate"}, ref : SourceIds, id : SourceIds, art : Texts \X Texts]
    BY <1>1, TaskStages, Zenon DEF PineInv, ObjectsAreThere
<1>3. pine \in Texts
    BY <1>2, Zenon DEF PineInv, PineTypes, Rows
<1>4. CASE VerifySealed(o.art, pine)
    <2>1. SaveSealed(o.ref, o.art, pine) /\ compiling' = [compiling EXCEPT ![k] = c] /\ inHandler' = k
        BY <1>4, Zenon DEF SaveCompiled
    <2>2. c \in Compiling /\ c.at = "activate" /\ c.ref = o.ref /\ c.id = o.id /\ c.art = o.art
        BY <1>2, Zenon DEF Compiling
    <2> HIDE DEF c
    <2>3. /\ dirs' \in [SourceIds \cup SourceNames -> SUBSET Stored]
          /\ ArtifactsAreSealed' /\ Grows /\ IsKept(removing', dirs', o.ref, o.art)
        BY <1>1, <1>2, <1>3, <1>4, <2>1, SaveSealedKeeps, Zenon
    <2>4. compiling'[k] = c
        BY <2>1, Zenon DEF PineInv, PineTypes
    <2>5. PineTypes'
        BY <1>1, <2>1, <2>2, <2>3, Zenon DEF PineInv, PineTypes
    <2>6. ObjectsAreThere'
        BY <1>1, <1>2, <2>1, <2>2, Zenon DEF PineInv, PineTypes, ObjectsAreThere
    <2>7. ChosenIsStored'
        BY <1>1, <2>1, <2>2, <2>3, <2>4, ChosenStays, Zenon
    <2>8. ActiveIsStored'
        BY <1>1, <2>3, ActiveStays, Zenon
    <2>. QED BY <2>3, <2>5, <2>6, <2>7, <2>8, Zenon DEF PineInv
<1>5. CASE ~VerifySealed(o.art, pine)
    <2>1. compiling' = [compiling EXCEPT ![k] = [at |-> "failed"]] /\ UNCHANGED <<dirs, inHandler>>
        BY <1>5, Zenon DEF SaveCompiled, Failed
    <2>. QED BY <1>1, <2>1, FailedTask, TaskKeeps, Zenon
<1>. QED BY <1>4, <1>5, Zenon

(* set_active_artifact for an artifact that is kept: the row stays one.    *)
LEMMA ActivatedRow ==
    ASSUME PineInv, NEW s \in SourceIds, NEW id \in ArtifactIds, UpdateActive(s, id)
    PROVE  /\ db' \in [SourceIds -> Rows \cup {NoRow}]
           /\ \A q \in SourceIds : \/ db'[q] = NoRow
                                   \/ q = s /\ db'[q].active = id
                                   \/ db[q] # NoRow /\ db'[q].active = db[q].active
<1>1. db \in [SourceIds -> Rows \cup {NoRow}]
    BY Zenon DEF PineInv, PineTypes
<1>2. CASE Exists(s)
    <2> DEFINE r == [db[s] EXCEPT !.active = id]
    <2>1. db[s] \in Rows
        BY <1>1, <1>2, Zenon DEF Exists
    <2>2. r \in Rows /\ r.active = id
        BY <2>1, Zenon DEF Rows
    <2>3. db' = [db EXCEPT ![s] = r]
        BY <1>1, <1>2, Zenon DEF UpdateActive
    <2> HIDE DEF r
    <2>. QED BY <1>1, <2>2, <2>3, Zenon
<1>3. CASE ~Exists(s)
    BY <1>1, <1>3, Zenon DEF UpdateActive
<1>. QED BY <1>2, <1>3, Zenon

LEMMA ActivateCompiledKeeps ==
    ASSUME SourceIds \cap SourceNames = {}, PineInv, NEW k \in CompileTasks, ActivateCompiled(k)
    PROVE  PineInv'
<1> DEFINE c == compiling[k]
           found == get_source(c.ref, loaded, obj)
<1>1. inHandler = k /\ inHandler' = "none" /\ UNCHANGED <<loaded, dirs, pineCli, removing, edits>>
    BY Zenon DEF ActivateCompiled
<1>2. c \in Compiling /\ c.at = "activate" /\ IsKept(removing, dirs, c.ref, c.art)
    BY <1>1, Zenon DEF PineInv, PineTypes, ChosenIsStored
<1>3. c.ref \in SourceIds /\ c.art \in Texts \X Texts
    BY <1>2, TaskStages, Zenon
<1>4. c.art \in ArtifactIds
    BY <1>3, ArtifactTyped, Zenon
<1>5. \A s \in loaded : s \in SourceIds /\ obj[s] \in Rows /\ obj[s] # NoRow
    BY Zenon DEF PineInv, PineTypes, ObjectsAreThere
<1>6. \A s \in loaded : obj[s].name \in SourceNames
    BY <1>5, Zenon DEF Rows
<1>7. found \subseteq {c.ref} /\ (found # {} => c.ref \in loaded)
    BY <1>3, <1>6, Zenon DEF get_source
<1>8. Grows
    BY <1>1, SameDirsGrow, Zenon
<1>9. CASE found = {}
    <2>1. compiling' = [compiling EXCEPT ![k] = [at |-> "failed"]] /\ UNCHANGED <<db, obj>>
        BY <1>9, Zenon DEF ActivateCompiled, Failed
    <2>2. PineTypes'
        BY <1>1, <2>1, FailedTask, Zenon DEF PineInv, PineTypes
    <2>3. ObjectsAreThere'
        BY <1>1, <2>1, FailedTask, Zenon DEF PineInv, PineTypes, ObjectsAreThere
    <2>4. ChosenIsStored'
        BY <1>1, <1>8, ChosenStays, PineAssumption, Zenon
    <2>5. ActiveIsStored'
        BY <1>8, <2>1, ActiveStays, Zenon
    <2>. QED BY <1>1, <2>2, <2>3, <2>4, <2>5, SealedStays, Zenon DEF PineInv
<1>10. CASE found # {}
    <2> DEFINE s == c.ref
               r == [obj[s] EXCEPT !.active = c.art]
               d == [at |-> "completed"]
    <2>1. /\ obj' = [obj EXCEPT ![s].active = c.art]
          /\ UpdateActive(s, c.art)
          /\ compiling' = [compiling EXCEPT ![k] = d]
        BY <1>7, <1>10, Zenon DEF ActivateCompiled
    <2>2. r \in Rows /\ r # NoRow
        <3>1. obj[s] \in Rows
            BY <1>5, <1>7, <1>10, Zenon
        <3>2. r \in Rows
            BY <3>1, <1>4, Zenon DEF Rows
        <3>. QED BY <3>2, NoRowAssumption, Zenon
    <2>3. obj' = [obj EXCEPT ![s] = r]
        BY <2>1, <1>3, Zenon DEF PineInv, PineTypes
    <2>4. d \in Compiling /\ d.at = "completed"
        BY Zenon DEF Compiling
    <2> HIDE DEF d, r
    <2>5. /\ db' \in [SourceIds -> Rows \cup {NoRow}]
          /\ \A q \in SourceIds : \/ db'[q] = NoRow
                                  \/ q = s /\ db'[q].active = c.art
                                  \/ db[q] # NoRow /\ db'[q].active = db[q].active
        BY <1>3, <1>4, <2>1, ActivatedRow, Zenon
    <2>6. PineTypes'
        <3>1. obj' \in [SourceIds -> Rows \cup {NoRow}]
            BY <1>3, <2>2, <2>3, Zenon DEF PineInv, PineTypes
        <3>2. compiling' \in [CompileTasks -> Compiling]
            BY <2>1, <2>4, Zenon DEF PineInv, PineTypes
        <3>. QED BY <1>1, <2>5, <3>1, <3>2, Zenon DEF PineInv, PineTypes
    <2>7. ObjectsAreThere'
        <3>1. \A q \in SourceIds : obj[q] # NoRow => obj'[q] # NoRow
            BY <1>3, <2>2, <2>3, Zenon DEF PineInv, PineTypes
        <3>2. \A j \in CompileTasks : compiling'[j] = compiling[j] \/ compiling'[j].at = "completed"
            BY <2>1, <2>4, Zenon DEF PineInv, PineTypes
        <3>3. \A j \in CompileTasks : compiling[j] \in Compiling
            BY Zenon DEF PineInv, PineTypes
        <3>4. \A j \in CompileTasks : compiling[j].at \in {"parse", "translate", "save", "activate"} => compiling[j].id \in SourceIds
            BY <3>3, TaskStages, Zenon
        <3>. QED BY <1>1, <3>1, <3>2, <3>4, Zenon DEF PineInv, PineTypes, ObjectsAreThere
    <2>8. ChosenIsStored'
        BY <1>1, <1>8, ChosenStays, PineAssumption, Zenon
    <2>9. ActiveIsStored'
        <3>1. IsKept(removing', dirs', s, c.art)
            BY <1>1, <1>2, Zenon
        <3>. QED BY <1>8, <2>5, <3>1, ActiveStays, Zenon
    <2>. QED BY <1>1, <2>6, <2>7, <2>8, <2>9, SealedStays, Zenon DEF PineInv
<1>. QED BY <1>9, <1>10, Zenon

(* A CLI command moves on, with the files as they are or with more.        *)
LEMMA CommandKeeps ==
    ASSUME PineInv, NEW p \in PineClis, NEW c \in Commanding, CliGoes(p, c),
           UNCHANGED <<obj, loaded, compiling, inHandler>>, Grows, ArtifactsAreSealed',
           db' \in [SourceIds -> Rows \cup {NoRow}],
           dirs' \in [SourceIds \cup SourceNames -> SUBSET Stored],
           removing' \in SUBSET SourceIds, edits' \in 0..MaxEdits,
           c.at = "activate" => IsKept(removing', dirs', c.id, c.art),
           \A s \in SourceIds : \/ db'[s] = NoRow
                                \/ db'[s].active = NoArtifact
                                \/ IsKept(removing', dirs', s, db'[s].active)
                                \/ db[s] # NoRow /\ db'[s].active = db[s].active
    PROVE  PineInv'
<1>1. pineCli' = [pineCli EXCEPT ![p] = c]
    BY Zenon DEF CliGoes
<1>2. PineTypes'
    BY <1>1, Zenon DEF PineInv, PineTypes
<1>3. ObjectsAreThere'
    BY Zenon DEF PineInv, ObjectsAreThere
<1>4. \A q \in PineClis : pineCli'[q] = pineCli[q] \/ pineCli'[q] = c
    BY <1>1, Zenon DEF PineInv, PineTypes
<1>5. ChosenIsStored'
    BY <1>4, ChosenStays, Zenon
<1>6. ActiveIsStored'
    BY ActiveStays, Zenon
<1>. QED BY <1>2, <1>3, <1>5, <1>6, Zenon DEF PineInv

LEMMA IdleCommand == Idle \in Commanding /\ Idle.at = "idle"
BY Zenon DEF Idle, Commanding

(* ... with nothing else changed.                                          *)
LEMMA CommandAlone ==
    ASSUME PineInv, NEW p \in PineClis, NEW c \in Commanding, CliGoes(p, c),
           UNCHANGED <<db, obj, loaded, dirs, compiling, inHandler, removing, edits>>,
           c.at = "activate" => IsKept(removing, dirs, c.id, c.art)
    PROVE  PineInv'
<1>1. Grows /\ ArtifactsAreSealed'
    BY SameDirsGrow, SealedStays, Zenon
<1>2. /\ db' \in [SourceIds -> Rows \cup {NoRow}]
      /\ dirs' \in [SourceIds \cup SourceNames -> SUBSET Stored]
      /\ removing' \in SUBSET SourceIds /\ edits' \in 0..MaxEdits
    BY Zenon DEF PineInv, PineTypes
<1>. QED BY <1>1, <1>2, CommandKeeps, Zenon

LEMMA PineOpenKeeps ==
    ASSUME PineInv, NEW p \in PineClis, NEW s \in SourceIds, NEW cmd \in {"save", "list", "dirs"}, PineOpen(p, s, cmd)
    PROVE  PineInv'
<1> DEFINE c == [at |-> cmd, id |-> s, text |-> db[s].text, file |-> ""]
<1>1. db[s].text \in Texts
    BY Zenon DEF PineOpen, Exists, PineInv, PineTypes, Rows
<1>2. c \in Commanding /\ c.at # "activate"
    BY <1>1, Zenon DEF Commanding
<1>3. CliGoes(p, c) /\ UNCHANGED <<db, obj, loaded, dirs, compiling, inHandler, removing, edits>>
    BY Zenon DEF PineOpen
<1> HIDE DEF c
<1>. QED BY <1>2, <1>3, CommandAlone, Zenon

LEMMA RunPineFileKeeps ==
    ASSUME PineInv, NEW p \in PineClis, NEW s \in SourceIds, NEW n \in SourceNames, NEW file \in RunFiles,
           RunPineFile(p, s, n, file)
    PROVE  PineInv'
<1> DEFINE r == [name |-> n, text |-> file, archived |-> FALSE, active |-> NoArtifact]
<1>1. file \in Texts
    BY PineAssumption, Zenon
<1>2. r \in Rows /\ r.active = NoArtifact
    BY <1>1, NewRow, Zenon
<1>3. db' = db \/ db' = [db EXCEPT ![s] = r]
    BY Zenon DEF RunPineFile
<1> HIDE DEF r
<1>4. db \in [SourceIds -> Rows \cup {NoRow}]
    BY Zenon DEF PineInv, PineTypes
<1>5. db' \in [SourceIds -> Rows \cup {NoRow}]
    BY <1>2, <1>3, <1>4, Zenon
<1>6. \A q \in SourceIds : \/ db'[q] = NoRow
                           \/ db'[q].active = NoArtifact
                           \/ db[q] # NoRow /\ db'[q].active = db[q].active
    BY <1>2, <1>3, <1>4, Zenon
<1>7. PICK o \in SourceIds :
         /\ db'[o] # NoRow
         /\ CliGoes(p, [at |-> "save", id |-> o, text |-> db'[o].text, file |-> file])
    BY Zenon DEF RunPineFile
<1> DEFINE t == db'[o].text
           c == [at |-> "save", id |-> o, text |-> t, file |-> file]
<1>8. t \in Texts
    BY <1>5, <1>7, Zenon DEF Rows
<1>9. CliGoes(p, c)
    BY <1>7, Zenon
<1> HIDE DEF t
<1>10. c \in Commanding /\ c.at # "activate"
    BY <1>1, <1>8, Zenon DEF Commanding
<1> HIDE DEF c
<1>11. UNCHANGED <<obj, loaded, dirs, compiling, inHandler, removing>> /\ edits' \in 0..MaxEdits
    BY EditsTyped, Zenon DEF RunPineFile, PineInv
<1>12. Grows /\ ArtifactsAreSealed'
    BY <1>11, SameDirsGrow, SealedStays, Zenon
<1>13. dirs' \in [SourceIds \cup SourceNames -> SUBSET Stored] /\ removing' \in SUBSET SourceIds
    BY <1>11, Zenon DEF PineInv, PineTypes
<1>. QED BY <1>5, <1>6, <1>9, <1>10, <1>11, <1>12, <1>13, CommandKeeps, Zenon

(* The diagnostics of a failed compile replace those of the last one.      *)
LEMMA SaveFailedKeeps ==
    ASSUME PineInv, NEW r \in SourceIds, NEW pine \in Texts, SaveFailed(r, pine), UNCHANGED removing
    PROVE  /\ dirs' \in [SourceIds \cup SourceNames -> SUBSET Stored]
           /\ ArtifactsAreSealed' /\ Grows
<1> DEFINE e == [id |-> FailedArtifact, pine |-> pine]
           D == {a \in dirs[r] : a.id # FailedArtifact} \cup {e}
<1>1. dirs \in [SourceIds \cup SourceNames -> SUBSET Stored]
    BY Zenon DEF PineInv, PineTypes
<1>2. e \in Stored /\ e.id = FailedArtifact
    BY ArtifactTyped, Zenon DEF Stored
<1>3. dirs' = [dirs EXCEPT ![r] = D]
    BY <1>1, Zenon DEF SaveFailed
<1> HIDE DEF e
<1>4. /\ D \in SUBSET Stored /\ \A a \in dirs[r] : \E b \in D : b.id = a.id
      /\ \A a \in D : a \in dirs[r] \/ a = e
    BY <1>1, <1>2
<1> HIDE DEF D
<1>5. dirs' \in [SourceIds \cup SourceNames -> SUBSET Stored]
    BY <1>1, <1>3, <1>4, Zenon
<1>6. ArtifactsAreSealed'
    <2>1. ASSUME NEW q \in SourceIds \cup SourceNames, NEW a \in dirs'[q], a.id # FailedArtifact
          PROVE  a.id[1] = a.pine
        <3>1. a \in dirs[q]
            BY <1>1, <1>2, <1>3, <1>4, <2>1, Zenon
        <3>. QED BY <2>1, <3>1, Zenon DEF PineInv, ArtifactsAreSealed
    <2>. QED BY <2>1, Zenon DEF ArtifactsAreSealed
<1>7. Grows
    BY <1>1, <1>3, <1>4, Zenon DEF Grows
<1>. QED BY <1>5, <1>6, <1>7, Zenon

LEMMA PineCompileKeeps ==
    ASSUME PineInv, NEW p \in PineClis, PineCompile(p)
    PROVE  PineInv'
<1> DEFINE o == pineCli[p]
           t == o.text
           c == [at |-> "activate", id |-> o.id, art |-> <<t, t>>, file |-> o.file]
<1>1. o \in Commanding /\ o.at = "save" /\ UNCHANGED <<db, obj, loaded, compiling, inHandler, removing, edits>>
    BY Zenon DEF PineCompile, PineInv, PineTypes
<1>2. o.id \in SourceIds /\ t \in Texts /\ o.file \in Texts \cup {""}
    BY <1>1, CommandStages, Zenon
<1>3. /\ db' \in [SourceIds -> Rows \cup {NoRow}] /\ removing' \in SUBSET SourceIds /\ edits' \in 0..MaxEdits
      /\ \A q \in SourceIds : db'[q] = NoRow \/ (db[q] # NoRow /\ db'[q].active = db[q].active)
    BY <1>1, Zenon DEF PineInv, PineTypes
<1>4. CASE t \in BadTexts
    <2>1. SaveFailed(o.id, t) /\ CliGoes(p, Idle)
        BY <1>4, Zenon DEF PineCompile
    <2>2. /\ dirs' \in [SourceIds \cup SourceNames -> SUBSET Stored]
          /\ ArtifactsAreSealed' /\ Grows
        BY <1>1, <1>2, <2>1, SaveFailedKeeps, Zenon
    <2>. QED BY <1>1, <1>3, <2>1, <2>2, IdleCommand, CommandKeeps, Zenon
<1>5. CASE t \notin BadTexts
    <2>1. SaveSealed(o.id, <<t, t>>, t) /\ CliGoes(p, c)
        BY <1>5, Zenon DEF PineCompile
    <2>2. <<t, t>> \in Texts \X Texts /\ VerifySealed(<<t, t>>, t)
        BY <1>2, Zenon DEF VerifySealed
    <2>3. /\ dirs' \in [SourceIds \cup SourceNames -> SUBSET Stored]
          /\ ArtifactsAreSealed' /\ Grows /\ IsKept(removing', dirs', o.id, <<t, t>>)
        BY <1>1, <1>2, <2>1, <2>2, SaveSealedKeeps, Zenon
    <2>4. c \in Commanding /\ c.id = o.id /\ c.art = <<t, t>>
        BY <1>2, <2>2, ArtifactTyped, Zenon DEF Commanding
    <2> HIDE DEF c
    <2>. QED BY <1>1, <1>3, <2>1, <2>3, <2>4, CommandKeeps, Zenon
<1>. QED BY <1>4, <1>5, Zenon

LEMMA PineChooseKeeps ==
    ASSUME PineInv, NEW p \in PineClis, NEW id \in ArtifactIds, PineChoose(p, id)
    PROVE  PineInv'
<1> DEFINE o == pineCli[p]
           c == [at |-> "activate", id |-> o.id, art |-> id, file |-> ""]
<1>1. o \in Commanding /\ o.at = "list"
    BY Zenon DEF PineChoose, PineInv, PineTypes
<1>2. o.id \in SourceIds
    BY <1>1, CommandStages, Zenon
<1>3. c \in Commanding /\ c.id = o.id /\ c.art = id
    BY <1>2, Zenon DEF Commanding
<1>4. IsKept(removing, dirs, o.id, id)
    BY Zenon DEF PineChoose, ArtifactsOf, IsKept
<1>5. CliGoes(p, c) /\ UNCHANGED <<db, obj, loaded, dirs, compiling, inHandler, removing, edits>>
    BY Zenon DEF PineChoose
<1> HIDE DEF c
<1>. QED BY <1>3, <1>4, <1>5, CommandAlone, Zenon

LEMMA PineActivateKeeps ==
    ASSUME PineInv, NEW p \in PineClis, PineActivate(p)
    PROVE  PineInv'
<1> DEFINE o == pineCli[p]
           c == IF o.file = "" THEN Idle ELSE [o EXCEPT !.at = "backtest"]
<1>1. /\ o \in Commanding /\ o.at = "activate" /\ UpdateActive(o.id, o.art) /\ CliGoes(p, c)
      /\ UNCHANGED <<obj, loaded, dirs, compiling, inHandler, removing, edits>>
    BY Zenon DEF PineActivate, PineInv, PineTypes
<1>2. /\ o.id \in SourceIds /\ o.art \in ArtifactIds
      /\ o \in [at : {"activate", "backtest"}, id : SourceIds, art : ArtifactIds, file : Texts \cup {""}]
    BY <1>1, CommandStages, Zenon
<1>3. c \in Commanding /\ c.at # "activate"
    <2>1. CASE o.file = ""
        BY <2>1, IdleCommand, Zenon
    <2>2. CASE o.file # ""
        BY <2>2, <1>2, Zenon DEF Commanding
    <2>. QED BY <2>1, <2>2, Zenon
<1> HIDE DEF c
<1>4. IsKept(removing', dirs', o.id, o.art)
    BY <1>1, Zenon DEF PineInv, ChosenIsStored
<1>5. /\ db' \in [SourceIds -> Rows \cup {NoRow}]
      /\ \A q \in SourceIds : \/ db'[q] = NoRow
                              \/ q = o.id /\ db'[q].active = o.art
                              \/ db[q] # NoRow /\ db'[q].active = db[q].active
    BY <1>1, <1>2, ActivatedRow, Zenon
<1>6. Grows /\ ArtifactsAreSealed'
    BY <1>1, SameDirsGrow, SealedStays, Zenon
<1>7. /\ dirs' \in [SourceIds \cup SourceNames -> SUBSET Stored]
      /\ removing' \in SUBSET SourceIds /\ edits' \in 0..MaxEdits
    BY <1>1, Zenon DEF PineInv, PineTypes
<1>8. \A q \in SourceIds : \/ db'[q] = NoRow
                           \/ IsKept(removing', dirs', q, db'[q].active)
                           \/ db[q] # NoRow /\ db'[q].active = db[q].active
    BY <1>4, <1>5, Zenon
<1>. QED BY <1>1, <1>3, <1>5, <1>6, <1>7, <1>8, CommandKeeps, Zenon

LEMMA PineRemoveFilesKeeps ==
    ASSUME PineInv, NEW p \in PineClis, PineRemoveFiles(p)
    PROVE  PineInv'
<1> DEFINE o == pineCli[p]
           c == [at |-> "row", id |-> o.id]
<1>1. /\ o \in Commanding /\ o.at = "dirs" /\ CliGoes(p, c)
      /\ dirs' = [dirs EXCEPT ![o.id] = {}] /\ removing' = removing \cup {o.id}
      /\ UNCHANGED <<db, obj, loaded, compiling, inHandler, edits>>
    BY Zenon DEF PineRemoveFiles, PineInv, PineTypes
<1>2. o.id \in SourceIds
    BY <1>1, CommandStages, Zenon
<1>3. c \in Commanding /\ c.at # "activate"
    BY <1>2, Zenon DEF Commanding
<1> HIDE DEF c
<1>4. /\ dirs' \in [SourceIds \cup SourceNames -> SUBSET Stored]
      /\ removing' \in SUBSET SourceIds /\ edits' \in 0..MaxEdits
      /\ db' \in [SourceIds -> Rows \cup {NoRow}]
      /\ \A r \in SourceIds \cup SourceNames : dirs'[r] \subseteq dirs[r]
      /\ \A r \in SourceIds : r # o.id => dirs'[r] = dirs[r]
    BY <1>1, <1>2, Zenon DEF PineInv, PineTypes
<1>5. Grows
    BY <1>1, <1>4, Zenon DEF Grows
<1>6. ArtifactsAreSealed'
    BY <1>4, Zenon DEF PineInv, ArtifactsAreSealed
<1>. QED BY <1>1, <1>3, <1>4, <1>5, <1>6, CommandKeeps, Zenon

LEMMA PineRemoveRowKeeps ==
    ASSUME PineInv, NEW p \in PineClis, PineRemoveRow(p)
    PROVE  PineInv'
<1> DEFINE o == pineCli[p]
<1>1. /\ o \in Commanding /\ o.at = "row" /\ CliGoes(p, Idle)
      /\ db' = [db EXCEPT ![o.id] = NoRow]
      /\ UNCHANGED <<obj, loaded, dirs, compiling, inHandler, removing, edits>>
    BY Zenon DEF PineRemoveRow, PineInv, PineTypes
<1>2. o.id \in SourceIds
    BY <1>1, CommandStages, Zenon
<1>3. /\ dirs' \in [SourceIds \cup SourceNames -> SUBSET Stored]
      /\ removing' \in SUBSET SourceIds /\ edits' \in 0..MaxEdits
      /\ db' \in [SourceIds -> Rows \cup {NoRow}]
      /\ \A q \in SourceIds : db'[q] = NoRow \/ (db[q] # NoRow /\ db'[q].active = db[q].active)
    <2>1. db \in [SourceIds -> Rows \cup {NoRow}]
        BY Zenon DEF PineInv, PineTypes
    <2>2. /\ db' \in [SourceIds -> Rows \cup {NoRow}]
          /\ \A q \in SourceIds : db'[q] = NoRow \/ db'[q] = db[q]
        BY <1>1, <1>2, <2>1, Zenon
    <2>3. /\ dirs' \in [SourceIds \cup SourceNames -> SUBSET Stored]
          /\ removing' \in SUBSET SourceIds /\ edits' \in 0..MaxEdits
        BY <1>1, Zenon DEF PineInv, PineTypes
    <2>4. \A q \in SourceIds : db'[q] = NoRow \/ (db[q] # NoRow /\ db'[q].active = db[q].active)
        <3> SUFFICES ASSUME NEW q \in SourceIds, db'[q] # NoRow
                     PROVE  db[q] # NoRow /\ db'[q].active = db[q].active
            BY Zenon
        <3>1. db'[q] = db[q]
            BY <2>2, Zenon
        <3>. QED BY <3>1, Zenon
    <2>. QED BY <2>2, <2>3, <2>4, Zenon
<1>4. Grows /\ ArtifactsAreSealed'
    BY <1>1, SameDirsGrow, SealedStays, Zenon
<1>. QED BY <1>1, <1>3, <1>4, IdleCommand, CommandKeeps, Zenon

LEMMA CommandEndsKeeps ==
    ASSUME PineInv, NEW p \in PineClis, RunCreated(p) \/ PineEnds(p)
    PROVE  PineInv'
<1>1. CliGoes(p, Idle) /\ UNCHANGED <<db, obj, loaded, dirs, compiling, inHandler, removing, edits>>
    BY Zenon DEF RunCreated, PineEnds
<1>. QED BY <1>1, IdleCommand, CommandAlone, Zenon

(* Every route and every command keeps the sources and their artifacts in  *)
(* order, where clients name a source by its id.                           *)
LEMMA PineStep ==
    ASSUME ByName = FALSE, SourceIds \cap SourceNames = {}, PineInv, [PineNext]_pineVars
    PROVE  PineInv'
<1>1. CASE \E s \in SourceIds, n \in SourceNames, t \in Texts : CreateSource(s, n, t)
    BY <1>1, CreateSourceKeeps, Zenon
<1>2. CASE \E s \in SourceIds, n \in SourceNames, t \in Texts, arch \in BOOLEAN : UpdateSource(s, n, t, arch)
    BY <1>2, UpdateSourceKeeps, Zenon
<1>3. CASE \E s \in SourceIds, arch \in BOOLEAN : SetSourceArchived(s, arch)
    BY <1>3, SetSourceArchivedKeeps, Zenon
<1>4. CASE \E s \in SourceIds : DeleteFiles(s) \/ DeleteRow(s)
    BY <1>4, DeleteFilesKeeps, DeleteRowKeeps, Zenon
<1>5. CASE RestartGateway
    BY <1>5, RestartGatewayKeeps, Zenon
<1>6. CASE \E k \in CompileTasks, s \in SourceIds,
              ref \in IF ByName THEN SourceIds \cup SourceNames ELSE SourceIds : CompilePine(k, ref, s)
    <2>1. \E k \in CompileTasks, s \in SourceIds, ref \in SourceIds : CompilePine(k, ref, s)
        BY <1>6, Zenon
    <2>. QED BY <2>1, CompilePineKeeps, Zenon
<1>7. CASE \E k \in CompileTasks :
             ParseSource(k) \/ TranslateSource(k) \/ SaveCompiled(k) \/ ActivateCompiled(k)
    BY <1>7, ParseSourceKeeps, TranslateSourceKeeps, SaveCompiledKeeps, ActivateCompiledKeeps, Zenon
<1>8. CASE \E p \in PineClis, s \in SourceIds, n \in SourceNames, t \in Texts : PineAdd(p, s, n, t)
    BY <1>8, PineAddKeeps, Zenon
<1>9. CASE \E p \in PineClis, s \in SourceIds, n \in SourceNames, t \in RunFiles : RunPineFile(p, s, n, t)
    BY <1>9, RunPineFileKeeps, Zenon
<1>10. CASE \E p \in PineClis, s \in SourceIds, cmd \in {"save", "list", "dirs"} : PineOpen(p, s, cmd)
    BY <1>10, PineOpenKeeps, Zenon
<1>11. CASE \E p \in PineClis, id \in ArtifactIds : PineChoose(p, id)
    BY <1>11, PineChooseKeeps, Zenon
<1>12. CASE \E p \in PineClis :
              \/ PineCompile(p) \/ PineActivate(p)
              \/ PineRemoveFiles(p) \/ PineRemoveRow(p) \/ RunCreated(p) \/ PineEnds(p)
    BY <1>12, PineCompileKeeps, PineActivateKeeps, PineRemoveFilesKeeps, PineRemoveRowKeeps,
       CommandEndsKeeps, Zenon
<1>13. CASE UNCHANGED pineVars
    <2>1. UNCHANGED <<db, obj, loaded, dirs, compiling, pineCli, inHandler, removing, edits>>
        BY <1>13, Zenon DEF pineVars
    <2>2. /\ db' \in [SourceIds -> Rows \cup {NoRow}] /\ obj' \in [SourceIds -> Rows \cup {NoRow}]
          /\ loaded' \in SUBSET SourceIds /\ edits' \in 0..MaxEdits
        BY <2>1, Zenon DEF PineInv, PineTypes
    <2>. QED BY <2>1, <2>2, RowsKeep, Zenon
<1>. QED BY <1>1, <1>2, <1>3, <1>4, <1>5, <1>6, <1>7, <1>8, <1>9, <1>10, <1>11, <1>12, <1>13,
Zenon DEF PineNext

LEMMA PineTyped == PineTypes => PineTypeOK
<1> SUFFICES ASSUME PineTypes PROVE PineTypeOK
    BY Zenon
<1>1. ASSUME NEW k \in CompileTasks
      PROVE  compiling[k].at \in {"idle", "parse", "translate", "save", "activate", "completed", "failed"}
    <2>1. compiling[k] \in Compiling
        BY Zenon DEF PineTypes
    <2>. QED BY <2>1, TaskStages, Zenon
<1>2. ASSUME NEW p \in PineClis
      PROVE  pineCli[p].at \in {"idle", "save", "list", "activate", "backtest", "dirs", "row"}
    <2>1. pineCli[p] \in Commanding
        BY Zenon DEF PineTypes
    <2>. QED BY <2>1, CommandStages, Zenon
<1>. QED BY <1>1, <1>2, Zenon DEF PineTypes, PineTypeOK

(* Pine sources and their artifacts (pine/registry.py, pine/artifacts.py,  *)
(* the gateway's source and compile routes and the pine commands): the     *)
(* invariant of the project's argument, for clients that name a source by  *)
(* its id.                                                                 *)
THEOREM PineInductive ==
    ASSUME ByName = FALSE, SourceIds \cap SourceNames = {}
    PROVE  PineSpec => []PineInv
<1>1. PineInv /\ [PineNext]_pineVars => PineInv'
    BY PineStep, Zenon
<1>. QED BY <1>1, PineStarts, PTL DEF PineSpec

(* compile_pipeline and its adapters: where a call is, and what the        *)
(* metadata and the artifact say by then.                                  *)
THEOREM CompInductive == CompSpec => []CompInv
<1>1. CompInv /\ [CompNext]_compVars => CompInv'
    BY CompStep, CompStutters, Zenon
<1>. QED BY <1>1, CompStarts, PTL DEF CompSpec

(* Compiled code is usable: whatever the gateway, its compile tasks and    *)
(* the CLI do at the same time, every stored artifact holds the text its   *)
(* envelope seals and the active artifact of a source is on disk, and      *)
(* compile_pipeline seals in production only what the library translated   *)
(* from a clean, unrewritten tree.                                         *)
THEOREM CodeArtifactsAreUsable ==
    ASSUME ByName = FALSE, SourceIds \cap SourceNames = {}
    PROVE  PineSpec /\ CompSpec => []ArtifactsAreUsable
<1>1. PineInv /\ CompInv => ArtifactsAreUsable
    <2> SUFFICES ASSUME PineInv, CompInv PROVE ArtifactsAreUsable
        BY Zenon
    <2>1. PineTypeOK /\ ArtifactsAreSealed /\ ActiveIsStored
        BY PineTyped, Zenon DEF PineInv
    <2>2. CompTypeOK /\ ProductionIsClean
        BY Zenon DEF CompInv, ProductionIsClean
    <2>. QED BY <2>1, <2>2, Zenon DEF ArtifactsAreUsable
<1>. QED BY <1>1, PineInductive, CompInductive, PTL

-----------------------------------------------------------------------------
(* The identity of a run                                                   *)

RunArtifacts == [stack : Stacks \cup {Absent}, sealed : BOOLEAN]

Places == Readings \cup {"off", "ready", "loaded", "read", "writing", "link", "compare",
                        "published", "running"}

Executor ==
    [at : Places, build : Stacks, deployment : Stacks \cup {Absent},
     admitted : Stacks \cup {Absent}, run : RunIds \cup {Absent}, art : RunArtifacts,
     data : Nat, profile : Profiles \cup {Absent}, payload : Identities]

AdmissionTypes ==
    /\ manifest \in [stack : Stacks, sound : BOOLEAN]
    /\ wheelhouse \in Stacks /\ installed \in Stacks
    /\ runArtifact \in [stack : Stacks, sealed : BOOLEAN]
    /\ data \in Nat /\ clock \in Nat
    /\ ident \in [RunIds -> Identities]
    /\ ex \in [Executors -> Executor]

(* Where the identity of the run is computed, and where it is published.   *)
Admitted == {"read", "writing", "link", "compare", "published", "running"}

Published == {"published", "running"}

(* The executor has read a deployment, and has a run.                      *)
Deployed(e, at) ==
    \/ at \in Admitted \cup {"loaded"}
    \/ e \in Gateways /\ at \in {"ready", "artifact", "bars"}
    \/ e \notin Gateways /\ at = "manifest"

Serving(e, at) ==
    \/ at \in Admitted \cup {"loaded", "artifact", "bars"}
    \/ e \notin Gateways /\ at \in {"deployment", "manifest"}

(* What holds of an executor at every point of its way to a run.           *)
ExecutorOK(e, x, ids) ==
    /\ Deployed(e, x.at) => x.deployment # Absent
    /\ Serving(e, x.at) => x.run \in RunIds
    /\ x.at \in Admitted =>
         /\ x.admitted = x.deployment /\ x.build = x.admitted
         /\ x.profile \in AdmittedProfiles
         /\ x.payload.stack = x.deployment /\ x.payload.art = x.art.stack
         /\ x.payload.data = x.data /\ x.payload.profile = x.profile
    /\ x.at \in Published => ids[x.run] = x.payload
    /\ x.at = "running" => x.art.stack = x.admitted

AdmissionInv == AdmissionTypes /\ \A e \in Executors : ExecutorOK(e, ex[e], ident)

LEMMA NoIdentityIsAbsent == NoIdentity.stack = Absent
BY Zenon DEF NoIdentity

LEMMA FreshOK ==
    ASSUME NEW b \in Stacks, NEW e, NEW ids
    PROVE  Fresh(b) \in Executor /\ ExecutorOK(e, Fresh(b), ids)
<1>1. NoIdentity \in Identities
  BY Zenon DEF NoIdentity, Identities
<1>2. NoRunArtifact \in RunArtifacts
  BY Zenon DEF NoRunArtifact, RunArtifacts
<1>3. Fresh(b) \in Executor
  BY <1>1, <1>2, Zenon DEF Fresh, Executor, Places
<1>4. Fresh(b).at = "off"
  BY Zenon DEF Fresh
<1> QED BY <1>3, <1>4, Zenon DEF ExecutorOK, Deployed, Serving, Admitted, Published

(* What a step of one executor may do: replace its own state, and publish  *)
(* under a run id that has no identity yet.                                *)
Publishes ==
    \/ ident' = ident
    \/ \E r \in RunIds, i \in Identities :
          ident[r] = NoIdentity /\ ident' = [ident EXCEPT ![r] = i]

(* An executor that does nothing keeps its part of the invariant: the      *)
(* identity it has published is not one that can be published again.       *)
LEMMA OthersKept ==
    ASSUME AdmissionInv, Publishes, NEW f \in Executors
    PROVE  ExecutorOK(f, ex[f], ident')
<1>1. ExecutorOK(f, ex[f], ident) /\ ex[f] \in Executor
  BY Zenon DEF AdmissionInv, AdmissionTypes
<1>2. ASSUME ex[f].at \in Published PROVE ident'[ex[f].run] = ident[ex[f].run]
  <2>1. /\ ex[f].run \in RunIds /\ ident[ex[f].run] = ex[f].payload
        /\ ex[f].payload.stack = ex[f].deployment /\ ex[f].deployment # Absent
    BY <1>1, <1>2, Zenon DEF ExecutorOK, Published, Admitted, Deployed, Serving
  <2>2. ident[ex[f].run] # NoIdentity
    BY <2>1 DEF NoIdentity
  <2> QED BY <2>1, <2>2, Zenon DEF Publishes, AdmissionInv, AdmissionTypes
<1> QED BY <1>1, <1>2, Zenon DEF ExecutorOK

(* The invariant holds after a step if it holds of what the step wrote.    *)
LEMMA StepOK ==
    ASSUME AdmissionInv, Publishes, NEW e \in Executors, NEW x \in Executor,
           ex' = [ex EXCEPT ![e] = x], ExecutorOK(e, x, ident'),
           UNCHANGED <<manifest, wheelhouse, installed, runArtifact, data, clock>>
    PROVE  AdmissionInv'
<1>1. ident' \in [RunIds -> Identities]
  BY Zenon DEF AdmissionInv, AdmissionTypes, Publishes
<1>2. AdmissionTypes'
  BY <1>1, Zenon DEF AdmissionInv, AdmissionTypes
<1>3. ASSUME NEW f \in Executors PROVE ExecutorOK(f, ex'[f], ident')
  <2>1. CASE f = e
    BY <2>1, Zenon DEF AdmissionInv, AdmissionTypes
  <2>2. CASE f # e
    BY <2>2, OthersKept, Zenon DEF AdmissionInv, AdmissionTypes
  <2> QED BY <2>1, <2>2, Zenon
<1> QED BY <1>2, <1>3, Zenon DEF AdmissionInv

(* A run that is refused or over: a gateway serves on, a command ends.     *)
LEMMA RefuseOK ==
    ASSUME AdmissionInv, NEW e \in Executors, Refuse(e), UNCHANGED outside,
           Deployed(e, ex[e].at) \/ e \notin Gateways
    PROVE  AdmissionInv'
<1>1. ex[e] \in Executor /\ ExecutorOK(e, ex[e], ident) /\ installed \in Stacks
  BY Zenon DEF AdmissionInv, AdmissionTypes
<1>2. Publishes
  BY Zenon DEF outside, Publishes
<1>3. CASE e \in Gateways
  <2>1. PICK fresh \in Executor : fresh = Fresh(ex[e].build)
    BY <1>1, FreshOK, Zenon DEF Executor
  <2>2. PICK x : x = [fresh EXCEPT !.at = "ready", !.deployment = ex[e].deployment,
                                   !.admitted = ex[e].admitted]
    BY Zenon
  <2>3. x \in Executor /\ x.at = "ready" /\ x.deployment = ex[e].deployment
    BY <1>1, <2>2, Zenon DEF Executor, Places
  <2>4. ExecutorOK(e, x, ident')
    BY <1>1, <1>3, <2>3, Zenon DEF ExecutorOK, Deployed, Serving, Admitted, Published
  <2>5. ex' = [ex EXCEPT ![e] = x]
    BY <1>3, <2>1, <2>2, Zenon DEF Refuse
  <2> QED BY <1>2, <2>3, <2>4, <2>5, StepOK, Zenon DEF outside
<1>4. CASE e \notin Gateways
  <2>1. PICK x \in Executor : x = Fresh(installed)
    BY <1>1, FreshOK, Zenon
  <2>2. ExecutorOK(e, x, ident')
    BY <1>1, <2>1, FreshOK, Zenon
  <2>3. ex' = [ex EXCEPT ![e] = x]
    BY <1>4, <2>1, Zenon DEF Refuse
  <2> QED BY <1>2, <2>2, <2>3, StepOK, Zenon DEF outside
<1> QED BY <1>3, <1>4, Zenon

(* A step that resets an executor, whatever it was doing.                  *)
LEMMA ResetOK ==
    ASSUME AdmissionInv, NEW e \in Executors, UNCHANGED outside,
           ex' = [ex EXCEPT ![e] = Fresh(installed)]
    PROVE  AdmissionInv'
<1>1. PICK x \in Executor : x = Fresh(installed)
  BY FreshOK, Zenon DEF AdmissionInv, AdmissionTypes
<1>2. ExecutorOK(e, x, ident')
  BY <1>1, FreshOK, Zenon DEF AdmissionInv, AdmissionTypes
<1> QED BY <1>1, <1>2, StepOK, Zenon DEF outside, Publishes

(* Starting, and reading the deployment and the inputs of a run.           *)
LEMMA ReadingKeeps ==
    ASSUME AdmissionInv, NEW e \in Executors
    PROVE  /\ ExecutorDies(e) => AdmissionInv'
           /\ StartGateway(e) /\ e \in Gateways => AdmissionInv'
           /\ \A r \in RunIds, p \in Profiles : BeginRun(e, r, p) => AdmissionInv'
           /\ LoadAdmitted(e) => AdmissionInv'
           /\ LoadDeployment(e) => AdmissionInv'
           /\ LoadArtifact(e) => AdmissionInv'
           /\ LoadRunBars(e) => AdmissionInv'
<1> DEFINE x == ex[e]
<1>0. /\ x \in Executor /\ ExecutorOK(e, x, ident) /\ ex \in [Executors -> Executor]
      /\ installed \in Stacks /\ runArtifact \in RunArtifacts /\ data \in Nat
      /\ manifest \in [stack : Stacks, sound : BOOLEAN]
  BY Zenon DEF AdmissionInv, AdmissionTypes, RunArtifacts
<1>1. ExecutorDies(e) => AdmissionInv'
  BY ResetOK, Zenon DEF ExecutorDies
<1>2. ASSUME StartGateway(e), e \in Gateways PROVE AdmissionInv'
  <2>1. PICK fresh \in Executor : fresh = Fresh(installed)
    BY <1>0, FreshOK, Zenon
  <2>2. PICK y : y = [fresh EXCEPT !.at = "manifest"]
    BY Zenon
  <2>3. y \in Executor /\ y.at = "manifest"
    BY <2>2, Zenon DEF Executor, Places, Readings
  <2>4. ExecutorOK(e, y, ident')
    BY <1>2, <2>3, Zenon DEF ExecutorOK, Deployed, Serving, Admitted, Published
  <2>5. ex' = [ex EXCEPT ![e] = y] /\ UNCHANGED outside
    BY <1>2, <2>1, <2>2, Zenon DEF StartGateway
  <2> QED BY <2>3, <2>4, <2>5, StepOK, Zenon DEF outside, Publishes
<1>3. ASSUME NEW r \in RunIds, NEW p \in Profiles, BeginRun(e, r, p) PROVE AdmissionInv'
  <2>1. CASE e \in Gateways
    <3>1. PICK y : y = [x EXCEPT !.at = "artifact", !.run = r, !.profile = p]
      BY Zenon
    <3>2. y \in Executor /\ y.at = "artifact" /\ y.run = r /\ y.deployment = x.deployment
      BY <1>0, <3>1, Zenon DEF Executor, Places, Readings
    <3>3. ExecutorOK(e, y, ident')
      BY <1>0, <1>3, <2>1, <3>2, Zenon
         DEF BeginRun, ExecutorOK, Deployed, Serving, Admitted, Published
    <3>4. ex' = [ex EXCEPT ![e] = y] /\ UNCHANGED outside
      BY <1>0, <1>3, <2>1, <3>1, Zenon DEF BeginRun
    <3> QED BY <3>2, <3>3, <3>4, StepOK, Zenon DEF outside, Publishes
  <2>2. CASE e \notin Gateways
    <3>0. PICK fresh \in Executor : fresh = Fresh(installed)
      BY <1>0, FreshOK, Zenon
    <3>1. PICK y : y = [fresh EXCEPT !.at = "bars", !.run = r, !.profile = p]
      BY Zenon
    <3>2. y \in Executor /\ y.at = "bars" /\ y.run = r
      BY <3>1, Zenon DEF Executor, Places, Readings
    <3>3. ExecutorOK(e, y, ident')
      BY <2>2, <3>2, Zenon DEF ExecutorOK, Deployed, Serving, Admitted, Published
    <3>4. ex' = [ex EXCEPT ![e] = y] /\ UNCHANGED outside
      BY <1>0, <1>3, <2>2, <3>0, <3>1, Zenon DEF BeginRun
    <3> QED BY <3>2, <3>3, <3>4, StepOK, Zenon DEF outside, Publishes
  <2> QED BY <2>1, <2>2, Zenon
<1>4. ASSUME LoadAdmitted(e) PROVE AdmissionInv'
  <2>1. PICK y : y = [x EXCEPT !.at = ReadingAfter(e, "manifest"), !.admitted = manifest.stack]
    BY Zenon
  <2>2. /\ y \in Executor /\ y.deployment = x.deployment /\ y.run = x.run
        /\ y.at = IF e \in Gateways THEN "deployment" ELSE "loaded"
    BY <1>0, <2>1, Zenon DEF ReadingAfter, Executor, Places, Readings
  <2>3. ExecutorOK(e, y, ident')
    BY <1>0, <1>4, <2>2, Zenon DEF LoadAdmitted, ExecutorOK, Deployed, Serving, Admitted, Published
  <2>4. ex' = [ex EXCEPT ![e] = y] /\ UNCHANGED outside
    BY <1>0, <1>4, <2>1, Zenon DEF LoadAdmitted
  <2> QED BY <2>2, <2>3, <2>4, StepOK, Zenon DEF outside, Publishes
<1>5. ASSUME LoadDeployment(e) PROVE AdmissionInv'
  <2> DEFINE d == deployment_identity_from_candidate(manifest)
  <2>1. CASE d # Absent /\ wheelhouse = d /\ installed_contract_schema_hashes = d
    <3>0. d \in Stacks
      BY <1>0, <2>1, Zenon DEF deployment_identity_from_candidate
    <3>1. PICK y : y = [x EXCEPT !.at = ReadingAfter(e, "deployment"), !.deployment = d]
      BY Zenon
    <3>2. /\ y \in Executor /\ y.deployment = d /\ y.run = x.run
          /\ y.at = IF e \in Gateways THEN "ready" ELSE "manifest"
      BY <1>0, <3>0, <3>1, Zenon DEF ReadingAfter, Executor, Places, Readings
    <3>3. ExecutorOK(e, y, ident')
      BY <1>0, <1>5, <2>1, <3>2, Zenon
         DEF LoadDeployment, ExecutorOK, Deployed, Serving, Admitted, Published
    <3>4. ex' = [ex EXCEPT ![e] = y] /\ UNCHANGED outside
      BY <1>0, <1>5, <2>1, <3>1, Zenon DEF LoadDeployment
    <3> QED BY <3>2, <3>3, <3>4, StepOK, Zenon DEF outside, Publishes
  <2>2. CASE ~(d # Absent /\ wheelhouse = d /\ installed_contract_schema_hashes = d)
    BY <1>5, <2>2, ResetOK, Zenon DEF LoadDeployment
  <2> QED BY <2>1, <2>2, Zenon
<1>6. ASSUME LoadArtifact(e) PROVE AdmissionInv'
  <2>1. CASE runArtifact.sealed
    <3>1. PICK y : y = [x EXCEPT !.at = ReadingAfter(e, "artifact"), !.art = runArtifact]
      BY Zenon
    <3>2. /\ y \in Executor /\ y.deployment = x.deployment /\ y.run = x.run
          /\ y.at = IF e \in Gateways THEN "bars" ELSE "deployment"
      BY <1>0, <3>1, Zenon DEF ReadingAfter, Executor, Places, Readings
    <3>3. ExecutorOK(e, y, ident')
      BY <1>0, <1>6, <3>2, Zenon DEF LoadArtifact, ExecutorOK, Deployed, Serving, Admitted, Published
    <3>4. ex' = [ex EXCEPT ![e] = y] /\ UNCHANGED outside
      BY <1>0, <1>6, <2>1, <3>1, Zenon DEF LoadArtifact
    <3> QED BY <3>2, <3>3, <3>4, StepOK, Zenon DEF outside, Publishes
  <2>2. CASE ~runArtifact.sealed
    BY <1>6, <2>2, RefuseOK, Zenon DEF LoadArtifact, Deployed
  <2> QED BY <2>1, <2>2, Zenon
<1>7. ASSUME LoadRunBars(e) PROVE AdmissionInv'
  <2>1. CASE ex' = [ex EXCEPT ![e].at = ReadingAfter(e, "bars"), ![e].data = data]
    <3>1. PICK y : y = [x EXCEPT !.at = ReadingAfter(e, "bars"), !.data = data]
      BY Zenon
    <3>2. /\ y \in Executor /\ y.deployment = x.deployment /\ y.run = x.run
          /\ y.at = IF e \in Gateways THEN "loaded" ELSE "artifact"
      BY <1>0, <3>1, Zenon DEF ReadingAfter, Executor, Places, Readings
    <3>3. ExecutorOK(e, y, ident')
      BY <1>0, <1>7, <3>2, Zenon DEF LoadRunBars, ExecutorOK, Deployed, Serving, Admitted, Published
    <3>4. ex' = [ex EXCEPT ![e] = y] /\ UNCHANGED outside
      BY <1>0, <1>7, <2>1, <3>1, Zenon DEF LoadRunBars
    <3> QED BY <3>2, <3>3, <3>4, StepOK, Zenon DEF outside, Publishes
  <2>2. CASE Refuse(e)
    BY <1>7, <2>2, RefuseOK, Zenon DEF LoadRunBars, Deployed
  <2> QED BY <1>7, <2>1, <2>2, Zenon DEF LoadRunBars
<1> QED BY <1>1, <1>2, <1>3, <1>4, <1>5, <1>6, <1>7, Zenon

(* From the admission to the end of the run.  Only Link writes an identity,*)
(* under a name that has none.                                             *)
LEMMA PublishingKeeps ==
    ASSUME AdmissionInv, NEW e \in Executors
    PROVE  /\ AdmitRun(e) => AdmissionInv'
           /\ IdentityFails(e) => AdmissionInv'
           /\ ReadExisting(e) => AdmissionInv'
           /\ WriteTemp(e) => AdmissionInv'
           /\ Link(e) => AdmissionInv'
           /\ Compare(e) => AdmissionInv'
           /\ BuildContext(e) => AdmissionInv'
           /\ FinishRun(e) => AdmissionInv'
<1> DEFINE x == ex[e]
<1>0. /\ x \in Executor /\ ExecutorOK(e, x, ident) /\ ex \in [Executors -> Executor]
      /\ ident \in [RunIds -> Identities] /\ clock \in Nat
  BY Zenon DEF AdmissionInv, AdmissionTypes
<1>a. ASSUME NEW p \in {"writing", "link", "compare"}, x.at \in {"read", "writing", "link"},
             ex' = [ex EXCEPT ![e].at = p], UNCHANGED outside
      PROVE  AdmissionInv'
  <2>1. PICK y : y = [x EXCEPT !.at = p]
    BY Zenon
  <2>2. y \in Executor /\ y.at = p
    BY <1>0, <1>a, <2>1, Zenon DEF Executor, Places
  <2>3. ExecutorOK(e, y, ident')
    BY <1>0, <1>a, <2>1, <2>2, Zenon DEF Executor, ExecutorOK, Deployed, Serving, Admitted, Published
  <2>4. ex' = [ex EXCEPT ![e] = y]
    BY <1>0, <1>a, <2>1, Zenon
  <2> QED BY <1>a, <2>2, <2>3, <2>4, StepOK, Zenon DEF outside, Publishes
<1>1. ASSUME AdmitRun(e) PROVE AdmissionInv'
  <2>1. CASE RunAdmissible(x)
    <3>1. PICK i : i = run_payload(x)
      BY Zenon
    <3>2. /\ i \in Identities /\ i.stack = x.deployment /\ i.art = x.art.stack
          /\ i.data = x.data /\ i.profile = x.profile
      BY <1>0, <3>1, Zenon DEF run_payload, Identities, Executor, RunArtifacts
    <3>3. PICK y : y = [x EXCEPT !.at = "read", !.payload = i]
      BY Zenon
    <3>4. /\ y \in Executor /\ y.at = "read" /\ y.payload = i /\ y.run = x.run
          /\ y.deployment = x.deployment /\ y.admitted = x.admitted /\ y.build = x.build
          /\ y.profile = x.profile /\ y.art = x.art /\ y.data = x.data
      BY <1>0, <3>2, <3>3, Zenon DEF Executor, Places
    <3>5. ExecutorOK(e, y, ident')
      BY <1>0, <1>1, <2>1, <3>2, <3>4, Zenon
         DEF AdmitRun, RunAdmissible, PolicyAdmits, ExecutorOK, Deployed, Serving, Admitted, Published
    <3>6. ex' = [ex EXCEPT ![e] = y] /\ UNCHANGED outside
      BY <1>0, <1>1, <2>1, <3>1, <3>3, Zenon DEF AdmitRun
    <3> QED BY <3>4, <3>5, <3>6, StepOK, Zenon DEF outside, Publishes
  <2>2. CASE ~RunAdmissible(x)
    BY <1>1, <2>2, RefuseOK, Zenon DEF AdmitRun, Deployed
  <2> QED BY <2>1, <2>2, Zenon
<1>2. IdentityFails(e) => AdmissionInv'
  BY RefuseOK, Zenon DEF IdentityFails, Deployed, Admitted
<1>3. ReadExisting(e) => AdmissionInv'
  BY <1>a, Zenon DEF ReadExisting
<1>4. WriteTemp(e) => AdmissionInv'
  BY <1>a, Zenon DEF WriteTemp
<1>5. ASSUME Link(e) PROVE AdmissionInv'
  <2>0. x.at = "link" /\ x.run \in RunIds
    BY <1>0, <1>5, Zenon DEF Link, ExecutorOK, Serving, Admitted
  <2>1. CASE ident[x.run] = NoIdentity
    <3>1. PICK y : y = [x EXCEPT !.at = "published"]
      BY Zenon
    <3>2. /\ y \in Executor /\ y.at = "published" /\ y.payload = x.payload /\ y.run = x.run
          /\ y.deployment = x.deployment /\ y.admitted = x.admitted /\ y.build = x.build
          /\ y.profile = x.profile /\ y.art = x.art /\ y.data = x.data
      BY <1>0, <3>1, Zenon DEF Executor, Places
    <3>3. /\ ident' = [ident EXCEPT ![x.run] = x.payload] /\ ex' = [ex EXCEPT ![e] = y]
          /\ UNCHANGED <<manifest, wheelhouse, installed, runArtifact, data, clock>>
      BY <1>0, <1>5, <2>1, <3>1, Zenon DEF Link
    <3>4. Publishes /\ ident'[y.run] = y.payload
      BY <1>0, <2>0, <2>1, <3>2, <3>3, Zenon DEF Publishes, Executor
    <3>5. ExecutorOK(e, y, ident')
      BY <1>0, <2>0, <3>2, <3>4, Zenon DEF ExecutorOK, Deployed, Serving, Admitted, Published
    <3> QED BY <3>2, <3>3, <3>4, <3>5, StepOK, Zenon
  <2>2. CASE ident[x.run] # NoIdentity
    BY <1>5, <1>a, <2>0, <2>2, Zenon DEF Link, outside
  <2> QED BY <2>1, <2>2, Zenon
<1>b. ASSUME NEW p \in Published, x.at \in Admitted, ident[x.run] = x.payload,
             p = "running" => x.art.stack = x.admitted,
             ex' = [ex EXCEPT ![e].at = p], UNCHANGED outside
      PROVE  AdmissionInv'
  <2>1. PICK y : y = [x EXCEPT !.at = p]
    BY Zenon
  <2>2. /\ y \in Executor /\ y.at = p /\ y.payload = x.payload /\ y.run = x.run
        /\ y.deployment = x.deployment /\ y.admitted = x.admitted /\ y.build = x.build
        /\ y.profile = x.profile /\ y.art = x.art /\ y.data = x.data
    BY <1>0, <1>b, <2>1, Zenon DEF Executor, Places, Published
  <2>3. ExecutorOK(e, y, ident')
    BY <1>0, <1>b, <2>2, Zenon DEF ExecutorOK, Deployed, Serving, Admitted, Published, outside
  <2>4. ex' = [ex EXCEPT ![e] = y]
    BY <1>0, <1>b, <2>1, Zenon
  <2> QED BY <1>b, <2>2, <2>3, <2>4, StepOK, Zenon DEF outside, Publishes
<1>6. ASSUME Compare(e) PROVE AdmissionInv'
  <2>1. CASE ident[x.run] = x.payload
    BY <1>6, <1>b, <2>1, Zenon DEF Compare, Admitted, Published
  <2>2. CASE ident[x.run] # x.payload
    BY <1>6, <2>2, RefuseOK, Zenon DEF Compare, Deployed, Admitted
  <2> QED BY <2>1, <2>2, Zenon
<1>7. ASSUME BuildContext(e) PROVE AdmissionInv'
  <2>0. x.at = "published" /\ ident[x.run] = x.payload
    BY <1>0, <1>7, Zenon DEF BuildContext, ExecutorOK, Published
  <2>1. CASE x.admitted = x.deployment /\ x.art.stack = x.admitted
    BY <1>7, <1>b, <2>0, <2>1, Zenon DEF BuildContext, Admitted, Published
  <2>2. CASE ~(x.admitted = x.deployment /\ x.art.stack = x.admitted)
    BY <1>7, <2>2, RefuseOK, Zenon DEF BuildContext, Deployed, Admitted
  <2> QED BY <2>1, <2>2, Zenon
<1>8. FinishRun(e) => AdmissionInv'
  BY RefuseOK, Zenon DEF FinishRun, Deployed, Admitted
<1> QED BY <1>1, <1>2, <1>3, <1>4, <1>5, <1>6, <1>7, <1>8, Zenon

LEMMA AdmissionStarts == AdmissionInit => AdmissionInv
<1> SUFFICES ASSUME AdmissionInit PROVE AdmissionInv
  BY Zenon
<1>1. /\ manifest \in [stack : Stacks, sound : BOOLEAN] /\ wheelhouse \in Stacks /\ installed \in Stacks
      /\ data \in Nat /\ clock \in Nat
  BY Zenon DEF AdmissionInit
<1>2. ident \in [RunIds -> Identities]
  BY Zenon DEF AdmissionInit, NoIdentity, Identities
<1>3. runArtifact \in [stack : Stacks, sealed : BOOLEAN]
  BY Zenon DEF AdmissionInit
<1>4. ex \in [Executors -> Executor] /\ \A e \in Executors : ExecutorOK(e, ex[e], ident)
  BY <1>1, FreshOK, Zenon DEF AdmissionInit
<1> QED BY <1>1, <1>2, <1>3, <1>4, Zenon DEF AdmissionInv, AdmissionTypes

LEMMA AdmissionSteps == AdmissionInv /\ [AdmissionNext]_admissionVars => AdmissionInv'
<1> SUFFICES ASSUME AdmissionInv, [AdmissionNext]_admissionVars PROVE AdmissionInv'
  BY Zenon
<1>a. ASSUME UNCHANGED <<ident, ex>>, AdmissionTypes' PROVE AdmissionInv'
  BY <1>a, Zenon DEF AdmissionInv
<1>1. CASE OperatorChanges
  <2>a. AdmissionTypes /\ UNCHANGED <<clock, ident, ex>>
    BY <1>1, Zenon DEF OperatorChanges, AdmissionInv
  <2>b. manifest' \in [stack : Stacks, sound : BOOLEAN]
    BY <1>1, <2>a DEF OperatorChanges, AdmissionTypes
  <2>c. wheelhouse' \in Stacks /\ installed' \in Stacks /\ data' \in Nat
    BY <1>1, <2>a DEF OperatorChanges, AdmissionTypes
  <2>d. /\ [runArtifact EXCEPT !.sealed = FALSE] \in [stack : Stacks, sealed : BOOLEAN]
        /\ [stack |-> installed, sealed |-> TRUE] \in [stack : Stacks, sealed : BOOLEAN]
    BY <2>a, Zenon DEF AdmissionTypes
  <2>e. \/ runArtifact' = runArtifact
        \/ runArtifact' = [runArtifact EXCEPT !.sealed = FALSE]
        \/ runArtifact' = [stack |-> installed, sealed |-> TRUE]
    BY <1>1, Zenon DEF OperatorChanges
  <2>1. AdmissionTypes'
    BY <2>a, <2>b, <2>c, <2>d, <2>e, Zenon DEF AdmissionTypes
  <2> QED BY <1>1, <1>a, <2>1, Zenon DEF OperatorChanges
<1>2. CASE ClockTicks
  <2>1. AdmissionTypes'
    BY <1>2 DEF ClockTicks, AdmissionInv, AdmissionTypes
  <2> QED BY <1>2, <1>a, <2>1, Zenon DEF ClockTicks
<1>3. CASE UNCHANGED admissionVars
  BY <1>3, Zenon DEF admissionVars, AdmissionInv, AdmissionTypes
<1>4. ASSUME NEW e \in Executors,
             \/ ExecutorDies(e) \/ LoadAdmitted(e) \/ LoadDeployment(e) \/ LoadArtifact(e)
             \/ LoadRunBars(e) \/ \E r \in RunIds, p \in Profiles : BeginRun(e, r, p)
      PROVE  AdmissionInv'
  BY <1>4, ReadingKeeps, Zenon
<1>5. ASSUME NEW e \in Executors,
             \/ AdmitRun(e) \/ IdentityFails(e) \/ ReadExisting(e) \/ WriteTemp(e)
             \/ Link(e) \/ Compare(e) \/ BuildContext(e) \/ FinishRun(e)
      PROVE  AdmissionInv'
  BY <1>5, PublishingKeeps, Zenon
<1>6. ASSUME NEW e \in Gateways, StartGateway(e) PROVE AdmissionInv'
  BY <1>6, ReadingKeeps, Zenon DEF Executors
<1> QED BY <1>1, <1>2, <1>3, <1>4, <1>5, <1>6, Zenon DEF AdmissionNext

(* Everything an executor holds on its way to a run agrees with what it    *)
(* has read and published, for any operator changes and crashes: the       *)
(* inductive invariant of admit_and_persist_run_identity.                  *)
THEOREM AdmissionInductive == AdmissionSpec => []AdmissionInv
BY AdmissionStarts, AdmissionSteps, PTL DEF AdmissionSpec

LEMMA ExecutorsArePublished == ASSUME AdmissionInv PROVE ExecutesAsPublished
<1> SUFFICES ASSUME NEW e \in Executors, ex[e].at = "running"
    PROVE  /\ ident[ex[e].run] = ex[e].payload
           /\ ident[ex[e].run].stack = ex[e].build /\ ident[ex[e].run].art = ex[e].build
           /\ ident[ex[e].run].data = ex[e].data
           /\ ident[ex[e].run].profile \in AdmittedProfiles
  BY Zenon DEF ExecutesAsPublished
<1>1. ExecutorOK(e, ex[e], ident)
  BY Zenon DEF AdmissionInv
<1>2. ex[e].at \in Admitted /\ ex[e].at \in Published
  BY Zenon DEF Admitted, Published
<1> QED BY <1>1, <1>2, Zenon DEF ExecutorOK

(* Whatever executes does so under the published identity that names its   *)
(* stack, artifact, bars and profile (execution_context_from_admission).   *)
THEOREM AdmissionExecutesAsPublished == AdmissionSpec => []ExecutesAsPublished
<1>1. AdmissionInv => ExecutesAsPublished
  BY ExecutorsArePublished, Zenon
<1> QED BY <1>1, AdmissionInductive, PTL

(* No step of the admission replaces an identity.                          *)
LEMMA IdentityKept ==
    ASSUME AdmissionInv, [AdmissionNext]_admissionVars
    PROVE  \A r \in RunIds : ident[r] # NoIdentity => ident'[r] = ident[r]
<1>1. ASSUME NEW e \in Executors, Link(e), NEW r \in RunIds, ident[r] # NoIdentity
      PROVE  ident'[r] = ident[r]
  BY <1>1, Zenon DEF Link, AdmissionInv, AdmissionTypes
<1>2. ident' = ident \/ \E e \in Executors : Link(e)
  BY Zenon DEF AdmissionNext, OperatorChanges, ClockTicks, ExecutorDies, LoadAdmitted,
       LoadDeployment, LoadArtifact, LoadRunBars, AdmitRun, IdentityFails, ReadExisting,
       WriteTemp, Compare, BuildContext, FinishRun, BeginRun, StartGateway, outside,
       admissionVars
<1> QED BY <1>1, <1>2, Zenon

(* persist_run_identity never replaces an identity: os.link refuses an     *)
(* existing name, whoever published it and whoever crashed meanwhile.      *)
THEOREM AdmissionIdentityImmutable == AdmissionSpec => IdentityIsImmutable
<1> DEFINE Kept == \A r \in RunIds : ident[r] # NoIdentity => ident'[r] = ident[r]
<1>1. AdmissionInv /\ [AdmissionNext]_admissionVars => [Kept]_admissionVars
  BY IdentityKept, Zenon
<1> QED BY <1>1, AdmissionInductive, PTL DEF AdmissionSpec, IdentityIsImmutable

-----------------------------------------------------------------------------
(* The optimizer's searches.                                               *)

JobStates == {"none", "queued", "running", "lapsed", "cancelled", "succeeded", "failed"}

Searches ==
    [at : {"none", "queued", "trials", "done"}, trials : TrialCounts \cup {0}, tried : Nat,
     completed : Nat, result : {"none", "completed", "failed"}]

SearchTypes ==
    /\ search \in [Gateways -> Searches] /\ job \in [RunIds -> JobStates]
    /\ replied \in [RunIds -> {"none", "completed", "failed", "500", "503"}]

(* A trial of the run was made under the identity that is published.       *)
Tested(r) ==
    ident[r] # NoIdentity /\ \E t \in trialIds : t[1] = r /\ t[3] = ident[r].data

(* A search that is under way has its run, which has no answer yet, to     *)
(* itself; its job is where the search believes it is, unless it was lost. *)
SearchOK(e) ==
    search[e].at # "none" =>
      /\ ex[e].at = "running" /\ replied[ex[e].run] = "none"
      /\ search[e].at = "queued" => job[ex[e].run] \in {"queued", "cancelled"}
      /\ search[e].at \in {"trials", "done"} => job[ex[e].run] \in {"running", "lapsed", "cancelled"}
      /\ search[e].completed > 0 => Tested(ex[e].run)
      /\ search[e].at = "done" =>
           /\ search[e].result \in {"completed", "failed"}
           /\ search[e].result = "completed" => search[e].completed > 0

Alone(e) ==
    \A f \in Gateways : search[e].at # "none" /\ search[f].at # "none" /\ ex[f].run = ex[e].run => f = e

(* An answer is what the job of the run says.                              *)
AnswerOK(r) ==
    /\ replied[r] = "completed" => job[r] \in {"lapsed", "cancelled", "succeeded"} /\ Tested(r)
    /\ replied[r] \in {"failed", "500"} => job[r] \in {"lapsed", "cancelled", "failed"}
    /\ replied[r] = "503" => job[r] \in {"lapsed", "cancelled", "none"}

SearchInv ==
    /\ SearchTypes
    /\ \A e \in Gateways : SearchOK(e) /\ Alone(e)
    /\ \A r \in RunIds : AnswerOK(r)

OptimizerInv == AdmissionInv /\ SearchInv

(* What is tested stays so: identities are kept and trials only added.     *)
LEMMA TestedStays ==
    ASSUME NEW r \in RunIds, Tested(r), ident[r] # NoIdentity => ident'[r] = ident[r],
           trialIds \subseteq trialIds'
    PROVE  Tested(r)'
BY Zenon DEF Tested

(* The run of a search that is under way is a run id.                      *)
LEMMA SearchHasRun ==
    ASSUME OptimizerInv, NEW e \in Gateways, search[e].at # "none"
    PROVE  ex[e].run \in RunIds /\ ex[e].at = "running"
<1>1. ex[e].at = "running" /\ e \in Executors
  BY Zenon DEF OptimizerInv, SearchInv, SearchOK, Executors
<1>2. ExecutorOK(e, ex[e], ident)
  BY <1>1, Zenon DEF OptimizerInv, AdmissionInv
<1> QED BY <1>1, <1>2, Zenon DEF ExecutorOK, Serving, Admitted

(* A step that starts no search and leaves the jobs and the answers alone: *)
(* a step of the admission, or the end of a process.                       *)
LEMMA ElsewhereKeepsSearch ==
    ASSUME OptimizerInv, UNCHANGED <<job, trialIds, replied>>,
           \A r \in RunIds : ident[r] # NoIdentity => ident'[r] = ident[r],
           search' \in [Gateways -> Searches],
           \A e \in Gateways : search'[e].at # "none" => search'[e] = search[e] /\ ex'[e] = ex[e]
    PROVE  SearchInv'
<1>1. SearchTypes'
  BY Zenon DEF OptimizerInv, SearchInv, SearchTypes
<1>2. \A r \in RunIds : Tested(r) => Tested(r)'
  BY TestedStays, Zenon
<1>3. ASSUME NEW e \in Gateways PROVE SearchOK(e)'
  <2> SUFFICES ASSUME search'[e].at # "none" PROVE SearchOK(e)'
    BY Zenon DEF SearchOK
  <2>1. search'[e] = search[e] /\ ex'[e] = ex[e]
    BY Zenon
  <2>2. search[e].at # "none" /\ SearchOK(e)
    BY <2>1, Zenon DEF OptimizerInv, SearchInv
  <2>3. ex[e].run \in RunIds
    BY <2>2, SearchHasRun, Zenon
  <2>4. Tested(ex[e].run) => Tested(ex[e].run)'
    <3>1. Tested(ex[e].run) => \E r \in RunIds : r = ex[e].run /\ Tested(r)'
      BY <1>2, <2>3, Zenon
    <3> QED BY <2>1, <3>1, Zenon DEF Tested
  <2> QED BY <2>1, <2>2, <2>4, Zenon DEF SearchOK
<1>4. ASSUME NEW e \in Gateways PROVE Alone(e)'
  BY <1>4, Zenon DEF OptimizerInv, SearchInv, Alone
<1>5. ASSUME NEW r \in RunIds PROVE AnswerOK(r)'
  BY <1>2, <1>5, Zenon DEF OptimizerInv, SearchInv, AnswerOK
<1> QED BY <1>1, <1>3, <1>4, <1>5, Zenon DEF SearchInv

(* A job that has an owner is lost to it.                                  *)
LEMMA LosingKeepsSearch ==
    ASSUME OptimizerInv, NEW r \in RunIds, NEW v,
           \/ job[r] = "running" /\ v = "lapsed"
           \/ job[r] \in {"queued", "running"} /\ v = "cancelled",
           job' = [job EXCEPT ![r] = v],
           UNCHANGED <<ident, ex, search, trialIds, replied>>
    PROVE  SearchInv'
<1>1. /\ job \in [RunIds -> JobStates] /\ v \in JobStates
      /\ v \in {"lapsed", "cancelled"} /\ job[r] \in {"queued", "running"}
      /\ (v = "lapsed" => job[r] = "running")
  BY Zenon DEF OptimizerInv, SearchInv, SearchTypes, JobStates
<1>2. job'[r] = v /\ job' \in [RunIds -> JobStates] /\ \A q \in RunIds : q # r => job'[q] = job[q]
  BY <1>1, Zenon
<1>3. SearchTypes'
  BY <1>2, Zenon DEF OptimizerInv, SearchInv, SearchTypes
<1>4. \A q : Tested(q)' <=> Tested(q)
  BY Zenon DEF Tested
<1>5. ASSUME NEW e \in Gateways PROVE SearchOK(e)'
  <2> SUFFICES ASSUME search[e].at # "none" PROVE SearchOK(e)'
    BY Zenon DEF SearchOK
  <2>1. ex[e].run \in RunIds /\ SearchOK(e)
    BY SearchHasRun, Zenon DEF OptimizerInv, SearchInv
  <2>2. search[e].at = "queued" => job'[ex[e].run] \in {"queued", "cancelled"}
    <3>1. search[e].at = "queued" => job[ex[e].run] \in {"queued", "cancelled"}
      BY <2>1, Zenon DEF SearchOK
    <3> QED BY <1>1, <1>2, <2>1, <3>1, Zenon
  <2>3. search[e].at \in {"trials", "done"} => job'[ex[e].run] \in {"running", "lapsed", "cancelled"}
    <3>1. search[e].at \in {"trials", "done"} => job[ex[e].run] \in {"running", "lapsed", "cancelled"}
      BY <2>1, Zenon DEF SearchOK
    <3> QED BY <1>1, <1>2, <2>1, <3>1, Zenon
  <2>4. search[e].completed > 0 => Tested(ex[e].run)'
    <3>1. search[e].completed > 0 => Tested(ex[e].run)
      BY <2>1, Zenon DEF SearchOK
    <3> QED BY <3>1, Zenon DEF Tested
  <2> QED BY <2>1, <2>2, <2>3, <2>4, Zenon DEF SearchOK
<1>6. ASSUME NEW e \in Gateways PROVE Alone(e)'
  BY <1>6, Zenon DEF OptimizerInv, SearchInv, Alone
<1>7. ASSUME NEW q \in RunIds PROVE AnswerOK(q)'
  <2>1. AnswerOK(q)
    BY Zenon DEF OptimizerInv, SearchInv
  <2>2. job'[q] = job[q] \/ job'[q] \in {"lapsed", "cancelled"}
    BY <1>1, <1>2, Zenon
  <2> QED BY <1>4, <2>1, <2>2, Zenon DEF AnswerOK
<1> QED BY <1>3, <1>5, <1>6, <1>7, Zenon DEF SearchInv

(* A step of the one search of a run r, which may end it: the other        *)
(* searches have other runs.                                               *)
LEMMA OwnStepKeepsSearch ==
    ASSUME OptimizerInv, NEW e \in Gateways, NEW r \in RunIds,
           ident' = ident, trialIds \subseteq trialIds', SearchTypes',
           \A f \in Gateways \ {e} : search'[f] = search[f] /\ ex'[f] = ex[f],
           \A f \in Gateways \ {e} : search[f].at # "none" => ex[f].run # r,
           \A q \in RunIds \ {r} : job'[q] = job[q] /\ replied'[q] = replied[q],
           SearchOK(e)', AnswerOK(r)',
           search'[e].at # "none" => ex'[e].run = r
    PROVE  SearchInv'
<1>1. \A q \in RunIds : Tested(q) => Tested(q)'
  BY TestedStays, Zenon
<1>2. ASSUME NEW f \in Gateways PROVE SearchOK(f)'
  <2>1. CASE f = e
    BY <2>1, Zenon DEF SearchOK, Tested
  <2>2. CASE f # e
    <3> SUFFICES ASSUME search'[f].at # "none" PROVE SearchOK(f)'
      BY Zenon DEF SearchOK
    <3>1. search'[f] = search[f] /\ ex'[f] = ex[f]
      BY <2>2, Zenon
    <3>2. search[f].at # "none" /\ SearchOK(f)
      BY <3>1, Zenon DEF OptimizerInv, SearchInv
    <3>3. ex[f].run \in RunIds \ {r}
      BY <2>2, <3>2, SearchHasRun, Zenon
    <3>4. job'[ex[f].run] = job[ex[f].run] /\ replied'[ex[f].run] = replied[ex[f].run]
      BY <3>3, Zenon
    <3>5. Tested(ex[f].run) => Tested(ex[f].run)'
      <4>1. Tested(ex[f].run) => \E q \in RunIds : q = ex[f].run /\ Tested(q)'
        BY <1>1, <3>3, Zenon
      <4> QED BY <3>1, <4>1, Zenon DEF Tested
    <3> QED BY <3>1, <3>2, <3>4, <3>5, Zenon DEF SearchOK
  <2> QED BY <2>1, <2>2, Zenon
<1>3. ASSUME NEW f \in Gateways PROVE Alone(f)'
  <2> SUFFICES ASSUME NEW g \in Gateways, search'[f].at # "none", search'[g].at # "none",
                      ex'[g].run = ex'[f].run
      PROVE  g = f
    BY Zenon DEF Alone
  <2>1. CASE f # e /\ g # e
    BY <2>1, ZenonT(40) DEF OptimizerInv, SearchInv, Alone
  <2>2. CASE f = e /\ g # e
    BY <2>2, Zenon
  <2>3. CASE f # e /\ g = e
    BY <2>3, Zenon
  <2> QED BY <2>1, <2>2, <2>3, Zenon
<1>4. ASSUME NEW q \in RunIds PROVE AnswerOK(q)'
  <2>1. CASE q = r
    BY <2>1, Zenon DEF AnswerOK, Tested
  <2>2. CASE q # r
    <3>1. job'[q] = job[q] /\ replied'[q] = replied[q] /\ AnswerOK(q)
      BY <2>2, Zenon DEF OptimizerInv, SearchInv
    <3> QED BY <1>1, <3>1, Zenon DEF AnswerOK
  <2> QED BY <2>1, <2>2, Zenon
<1> QED BY <1>2, <1>3, <1>4, Zenon DEF SearchInv

(* The search of a run is answered, and the gateway is ready again.        *)
LEMMA AnswerKeeps ==
    ASSUME OptimizerInv, NEW e \in Gateways, NEW r \in RunIds, ex[e].run = r,
           ex[e].at = "running",
           NEW what \in {"completed", "failed", "500", "503"}, Answer(e, what),
           trialIds' = trialIds, job' \in [RunIds -> JobStates],
           \A q \in RunIds \ {r} : job'[q] = job[q],
           \A f \in Gateways \ {e} : search[f].at # "none" => ex[f].run # r,
           what = "completed" => job'[r] \in {"lapsed", "cancelled", "succeeded"} /\ Tested(r),
           what \in {"failed", "500"} => job'[r] \in {"lapsed", "cancelled", "failed"},
           what = "503" => job'[r] \in {"lapsed", "cancelled", "none"}
    PROVE  OptimizerInv'
<1>1. /\ replied' = [replied EXCEPT ![r] = what] /\ search' = [search EXCEPT ![e] = NoSearch]
      /\ Refuse(e) /\ UNCHANGED outside
  BY Zenon DEF Answer
<1>2. e \in Executors
  BY Zenon DEF Executors
<1>3. AdmissionInv'
  <2>1. AdmissionInv
    BY Zenon DEF OptimizerInv
  <2>2. Deployed(e, ex[e].at)
    BY Zenon DEF Deployed, Admitted
  <2> QED BY <1>1, <1>2, <2>1, <2>2, RefuseOK, Zenon
<1>4. NoSearch \in Searches /\ NoSearch.at = "none"
  BY Zenon DEF NoSearch, Searches
<1>5. search'[e] = NoSearch /\ search' \in [Gateways -> Searches]
      /\ \A f \in Gateways \ {e} : search'[f] = search[f]
  BY <1>1, <1>4, Zenon DEF OptimizerInv, SearchInv, SearchTypes
<1>6. /\ replied' \in [RunIds -> {"none", "completed", "failed", "500", "503"}]
      /\ replied'[r] = what /\ \A q \in RunIds \ {r} : replied'[q] = replied[q]
  BY <1>1, Zenon DEF OptimizerInv, SearchInv, SearchTypes
<1>7. SearchTypes'
  BY <1>5, <1>6, Zenon DEF SearchTypes
<1>8. ident' = ident
  BY <1>1, Zenon DEF outside
<1>9. \A f \in Gateways \ {e} : ex'[f] = ex[f]
  BY <1>1, Zenon DEF Refuse, OptimizerInv, AdmissionInv, AdmissionTypes, Executors
<1>10. SearchOK(e)'
  BY <1>4, <1>5, Zenon DEF SearchOK
<1>11. Tested(r) => Tested(r)'
  BY <1>8, Zenon DEF Tested
<1>12. AnswerOK(r)'
  BY <1>6, <1>11, Zenon DEF AnswerOK
<1>13. search'[e].at = "none"
  BY <1>4, <1>5, Zenon
<1> QED BY <1>3, <1>5, <1>6, <1>7, <1>8, <1>9, <1>10, <1>12, <1>13, OwnStepKeepsSearch, Zenon
        DEF OptimizerInv

(* A search goes on, and nobody is answered.                               *)
LEMMA SearchGoesOn ==
    ASSUME OptimizerInv, NEW e \in Gateways, NEW r \in RunIds, ex[e].run = r,
           ex[e].at = "running", replied[r] = "none", UNCHANGED <<admissionVars, replied>>,
           trialIds \subseteq trialIds', job' \in [RunIds -> JobStates],
           \A q \in RunIds \ {r} : job'[q] = job[q],
           \A f \in Gateways \ {e} : search[f].at # "none" => ex[f].run # r,
           NEW s \in Searches, search' = [search EXCEPT ![e] = s],
           s.at = "queued" => job'[r] \in {"queued", "cancelled"},
           s.at \in {"trials", "done"} => job'[r] \in {"running", "lapsed", "cancelled"},
           s.completed > 0 => Tested(r)',
           s.at = "done" => /\ s.result \in {"completed", "failed"}
                            /\ s.result = "completed" => s.completed > 0
    PROVE  OptimizerInv'
<1>1. ident' = ident /\ ex' = ex /\ replied' = replied
  BY Zenon DEF admissionVars
<1>2. AdmissionInv'
  BY AdmissionSteps, Zenon DEF OptimizerInv
<1>3. search'[e] = s /\ search' \in [Gateways -> Searches]
      /\ \A f \in Gateways \ {e} : search'[f] = search[f]
  BY Zenon DEF OptimizerInv, SearchInv, SearchTypes
<1>4. SearchTypes'
  BY <1>1, <1>3, Zenon DEF OptimizerInv, SearchInv, SearchTypes
<1>5. Tested(ex[e].run)' <=> Tested(r)'
  BY <1>1, Zenon DEF Tested
<1>6. SearchOK(e)'
  BY <1>1, <1>3, <1>5, Zenon DEF SearchOK
<1>7. AnswerOK(r)'
  <2>1. replied'[r] = "none"
    BY <1>1, Zenon
  <2>2. /\ replied'[r] # "completed" /\ replied'[r] \notin {"failed", "500"}
        /\ replied'[r] # "503"
    BY <2>1, Zenon
  <2> QED BY <2>2, Zenon DEF AnswerOK
<1> QED BY <1>1, <1>2, <1>3, <1>4, <1>6, <1>7, OwnStepKeepsSearch, Zenon DEF OptimizerInv

(* The job of a run is created once, whoever asks for it.                  *)
LEMMA CreateJobKeeps ==
    ASSUME OptimizerInv, NEW e \in Gateways, NEW n \in TrialCounts, CreateJob(e, n)
    PROVE  OptimizerInv'
<1> DEFINE r == ex[e].run
<1>1. ex[e].at = "running" /\ job[r] = "none" /\ replied[r] = "none" /\ trialIds' = trialIds
  BY Zenon DEF CreateJob
<1>2. r \in RunIds
  <2>1. ExecutorOK(e, ex[e], ident)
    BY Zenon DEF OptimizerInv, AdmissionInv, Executors
  <2> QED BY <1>1, <2>1, Zenon DEF ExecutorOK, Serving, Admitted
<1>3. ASSUME NEW f \in Gateways \ {e}, search[f].at # "none" PROVE ex[f].run # r
  <2>1. SearchOK(f) /\ search[f] \in Searches
    BY <1>3, Zenon DEF OptimizerInv, SearchInv, SearchTypes
  <2>2. search[f].at \in {"queued", "trials", "done"}
    BY <1>3, <2>1, Zenon DEF Searches
  <2>3. job[ex[f].run] \in {"queued", "running", "lapsed", "cancelled"}
    BY <1>3, <2>1, <2>2, Zenon DEF SearchOK
  <2>4. job[ex[f].run] # "none"
    BY <2>3, Zenon
  <2> QED BY <1>1, <2>4, Zenon
<1>4. job \in [RunIds -> JobStates]
  BY Zenon DEF OptimizerInv, SearchInv, SearchTypes
<1>5. CASE Answer(e, "503") /\ UNCHANGED job
  <2>1. "503" \notin {"failed", "500"} /\ "503" # "completed"
    BY Zenon
  <2> HIDE DEF r
  <2>2. ex[e].run = r
    BY Zenon DEF r
  <2> QED BY <1>1, <1>2, <1>3, <1>4, <1>5, <2>1, <2>2, AnswerKeeps, Zenon
<1>6. CASE /\ job' = [job EXCEPT ![r] = "queued"]
           /\ search' = [search EXCEPT ![e] = [NoSearch EXCEPT !.at = "queued", !.trials = n]]
           /\ UNCHANGED <<admissionVars, replied>>
  <2>1. PICK s : s = [NoSearch EXCEPT !.at = "queued", !.trials = n]
    BY Zenon
  <2>2. s = [at |-> "queued", trials |-> n, tried |-> 0, completed |-> 0, result |-> "none"]
    BY <2>1, Zenon DEF NoSearch
  <2>3. /\ s \in Searches /\ s.at = "queued" /\ ~(s.completed > 0)
        /\ s.at \notin {"trials", "done"} /\ s.at # "done"
    BY <2>2 DEF Searches
  <2>4. "queued" \in JobStates
    BY Zenon DEF JobStates
  <2>5. job' \in [RunIds -> JobStates] /\ job'[r] = "queued"
        /\ \A q \in RunIds \ {r} : job'[q] = job[q]
    BY <1>2, <1>4, <1>6, <2>4, Zenon
  <2>6. search' = [search EXCEPT ![e] = s]
    BY <1>6, <2>1, Zenon
  <2> HIDE DEF r
  <2>7. ex[e].run = r
    BY Zenon DEF r
  <2>8. UNCHANGED <<admissionVars, replied>>
    BY <1>6, Zenon
  <2> QED BY <1>1, <1>2, <1>3, <2>3, <2>5, <2>6, <2>7, <2>8, SearchGoesOn, Zenon
<1> QED BY <1>5, <1>6, Zenon DEF CreateJob

(* The steps of a search that is under way.                                *)
LEMMA ActiveSearchKeeps ==
    ASSUME OptimizerInv, NEW e \in Gateways,
           \/ MarkSearchRunning(e) \/ RunTrial(e) \/ OptimizerReturns(e)
           \/ Terminalize(e) \/ SearchRaises(e)
    PROVE  OptimizerInv'
<1>1. search[e].at \in {"queued", "trials", "done"}
  BY Zenon DEF MarkSearchRunning, RunTrial, OptimizerReturns, Terminalize, SearchRaises
<1>2. search[e].at # "none"
  BY <1>1, Zenon
<1>3. PICK r \in RunIds : ex[e].run = r
  BY <1>2, SearchHasRun, Zenon
<1>4. ex[e].at = "running"
  BY <1>2, SearchHasRun, Zenon
<1>5. /\ replied[r] = "none"
      /\ search[e].at = "queued" => job[r] \in {"queued", "cancelled"}
      /\ search[e].at \in {"trials", "done"} => job[r] \in {"running", "lapsed", "cancelled"}
      /\ search[e].completed > 0 => Tested(r)
      /\ search[e].at = "done" => /\ search[e].result \in {"completed", "failed"}
                                  /\ search[e].result = "completed" => search[e].completed > 0
  BY <1>2, <1>3, Zenon DEF OptimizerInv, SearchInv, SearchOK
<1>6. \A f \in Gateways \ {e} : search[f].at # "none" => ex[f].run # r
  BY <1>2, <1>3, Zenon DEF OptimizerInv, SearchInv, Alone
<1>7. /\ job \in [RunIds -> JobStates] /\ search[e] \in Searches
      /\ search \in [Gateways -> Searches]
  BY Zenon DEF OptimizerInv, SearchInv, SearchTypes
<1>8. ASSUME NEW v \in JobStates, job' = [job EXCEPT ![r] = v]
      PROVE  /\ job' \in [RunIds -> JobStates] /\ job'[r] = v
             /\ \A q \in RunIds \ {r} : job'[q] = job[q]
  BY <1>7, <1>8, Zenon
<1>9. {"running", "succeeded", "failed"} \subseteq JobStates
  BY Zenon DEF JobStates
<1>10. "503" \notin {"failed", "500"} /\ "503" # "completed"
  BY Zenon
<1>11. CASE MarkSearchRunning(e)
  <2>1. search[e].at = "queued" /\ trialIds' = trialIds
    BY <1>11, Zenon DEF MarkSearchRunning
  <2>2. CASE job[r] = "queued"
    <3>1. /\ job' = [job EXCEPT ![r] = "running"] /\ search' = [search EXCEPT ![e].at = "trials"]
          /\ UNCHANGED <<admissionVars, replied>>
      BY <1>3, <1>11, <2>2, Zenon DEF MarkSearchRunning
    <3>2. PICK s : s = [search[e] EXCEPT !.at = "trials"]
      BY Zenon
    <3>3. s \in Searches /\ s.at = "trials" /\ s.completed = search[e].completed
      BY <1>7, <3>2, Zenon DEF Searches
    <3>4. s.at # "queued" /\ s.at # "done"
      BY <3>3, Zenon
    <3>5. search' = [search EXCEPT ![e] = s]
      BY <1>7, <3>1, <3>2, Zenon
    <3>6. /\ job' \in [RunIds -> JobStates] /\ job'[r] = "running"
          /\ \A q \in RunIds \ {r} : job'[q] = job[q]
      BY <1>8, <1>9, <3>1, Zenon
    <3>7. s.completed > 0 => Tested(r)'
      <4>1. s.completed > 0 => Tested(r)
        BY <1>5, <3>3, Zenon
      <4> QED BY <2>1, <3>1, <4>1, Zenon DEF Tested, admissionVars
    <3> QED BY <1>3, <1>4, <1>5, <1>6, <2>1, <3>1, <3>3, <3>4, <3>5, <3>6, <3>7,
               SearchGoesOn, Zenon
  <2>3. CASE job[r] # "queued"
    <3>1. Answer(e, "503") /\ job' = job
      BY <1>3, <1>11, <2>3, Zenon DEF MarkSearchRunning
    <3>2. job[r] = "cancelled"
      BY <1>5, <2>1, <2>3, Zenon
    <3> QED BY <1>3, <1>4, <1>6, <1>7, <1>10, <2>1, <3>1, <3>2, AnswerKeeps, Zenon
  <2> QED BY <2>2, <2>3, Zenon
<1>12. CASE RunTrial(e)
  <2>1. PICK ok \in {0, 1} :
           search' = [search EXCEPT ![e].tried = @ + 1, ![e].completed = @ + ok]
    BY <1>12, Zenon DEF RunTrial
  <2>2. /\ search[e].at = "trials" /\ ex[e].data = ex[e].payload.data
        /\ trialIds' = trialIds \cup {<<r, search[e].tried + 1, ex[e].data>>}
        /\ UNCHANGED <<admissionVars, job, replied>>
    BY <1>3, <1>12, Zenon DEF RunTrial
  <2>3. PICK s : s = [search[e] EXCEPT !.tried = @ + 1, !.completed = @ + ok]
    BY Zenon
  <2>4. s \in Searches /\ s.at = "trials"
    <3>1. search[e].tried + 1 \in Nat /\ search[e].completed + ok \in Nat
      BY <1>7, <2>1 DEF Searches
    <3> QED BY <1>7, <2>2, <2>3, <3>1, Zenon DEF Searches
  <2>5. s.at # "queued" /\ s.at # "done"
    BY <2>4, Zenon
  <2>6. search' = [search EXCEPT ![e] = s]
    BY <1>7, <2>1, <2>3, Zenon
  <2>7. Tested(r)'
    <3>1. ExecutorOK(e, ex[e], ident)
      BY Zenon DEF OptimizerInv, AdmissionInv, Executors
    <3>2. /\ ident[r] = ex[e].payload /\ ex[e].payload.stack = ex[e].deployment
          /\ ex[e].deployment # Absent
      BY <1>3, <1>4, <3>1, Zenon DEF ExecutorOK, Published, Admitted, Deployed
    <3>3. ident[r] # NoIdentity
      BY <3>2, NoIdentityIsAbsent, Zenon
    <3>4. PICK t : t = <<r, search[e].tried + 1, ex[e].data>>
      BY Zenon
    <3>5. t[1] = r /\ t[3] = ex[e].data /\ t \in trialIds'
      BY <2>2, <3>4, Zenon
    <3>6. ident' = ident
      BY <2>2, Zenon DEF admissionVars
    <3> QED BY <2>2, <3>2, <3>3, <3>5, <3>6, Zenon DEF Tested
  <2>8. trialIds \subseteq trialIds' /\ job' = job
    BY <2>2, Zenon
  <2> QED BY <1>3, <1>4, <1>5, <1>6, <1>7, <2>2, <2>4, <2>5, <2>6, <2>7, <2>8,
             SearchGoesOn, Zenon
<1>13. CASE OptimizerReturns(e)
  <2>1. search[e].at = "trials" /\ UNCHANGED <<admissionVars, job, trialIds, replied>>
    BY <1>13, Zenon DEF OptimizerReturns
  <2>2. PICK res \in {"completed", "failed"} :
          /\ search' = [search EXCEPT ![e].at = "done", ![e].result = res]
          /\ res = "completed" => search[e].completed > 0
    <3>1. CASE /\ search[e].completed > 0
               /\ search' = [search EXCEPT ![e].at = "done", ![e].result = "completed"]
      BY <3>1, Zenon
    <3>2. CASE search' = [search EXCEPT ![e].at = "done", ![e].result = "failed"]
      <4>1. "failed" # "completed"
        BY Zenon
      <4> QED BY <3>2, <4>1, Zenon
    <3> QED BY <1>13, <3>1, <3>2, Zenon DEF OptimizerReturns
  <2>3. PICK s : s = [search[e] EXCEPT !.at = "done", !.result = res]
    BY Zenon
  <2>4. s \in Searches /\ s.at = "done" /\ s.result = res /\ s.completed = search[e].completed
    BY <1>7, <2>2, <2>3, Zenon DEF Searches
  <2>5. s.at # "queued"
    BY <2>4, Zenon
  <2>6. search' = [search EXCEPT ![e] = s]
    BY <1>7, <2>2, <2>3, Zenon
  <2>7. s.completed > 0 => Tested(r)'
    <3>1. s.completed > 0 => Tested(r)
      BY <1>5, <2>4, Zenon
    <3> QED BY <2>1, <3>1, Zenon DEF Tested, admissionVars
  <2>8. trialIds \subseteq trialIds' /\ job' = job
    BY <2>1, Zenon
  <2> QED BY <1>3, <1>4, <1>5, <1>6, <1>7, <2>1, <2>2, <2>4, <2>5, <2>6, <2>7, <2>8,
             SearchGoesOn, Zenon
<1>14. CASE Terminalize(e)
  <2>1. /\ search[e].at = "done" /\ Answer(e, search[e].result) /\ trialIds' = trialIds
        /\ job' = IF job[r] # "running" THEN job
                  ELSE [job EXCEPT ![r] = IF search[e].result = "completed" THEN "succeeded"
                                          ELSE "failed"]
    BY <1>3, <1>14, Zenon DEF Terminalize
  <2>2. PICK what \in {"completed", "failed"} : what = search[e].result
    BY <1>5, <2>1, Zenon
  <2>3. what = "completed" => Tested(r)
    BY <1>5, <2>1, <2>2, Zenon
  <2>4. /\ job' \in [RunIds -> JobStates]
        /\ \A q \in RunIds \ {r} : job'[q] = job[q]
        /\ what = "completed" => job'[r] \in {"lapsed", "cancelled", "succeeded"}
        /\ what # "completed" => job'[r] \in {"lapsed", "cancelled", "failed"}
    <3>1. CASE job[r] # "running"
      BY <1>5, <1>7, <2>1, <3>1, Zenon
    <3>2. CASE job[r] = "running" /\ what = "completed"
      <4>1. job' = [job EXCEPT ![r] = "succeeded"]
        BY <2>1, <2>2, <3>2, Zenon
      <4> QED BY <1>8, <1>9, <3>2, <4>1, Zenon
    <3>3. CASE job[r] = "running" /\ what # "completed"
      <4>1. job' = [job EXCEPT ![r] = "failed"]
        BY <2>1, <2>2, <3>3, Zenon
      <4> QED BY <1>8, <1>9, <3>3, <4>1, Zenon
    <3> QED BY <3>1, <3>2, <3>3, Zenon
  <2>5. what # "503" /\ (what \in {"failed", "500"} => what # "completed")
    BY <2>2, Zenon
  <2>6. what \in {"completed", "failed", "500", "503"} /\ Answer(e, what) /\ trialIds' = trialIds
    BY <2>1, <2>2, Zenon
  <2>7. /\ what = "completed" =>
             job'[r] \in {"lapsed", "cancelled", "succeeded"} /\ Tested(r)
        /\ what \in {"failed", "500"} => job'[r] \in {"lapsed", "cancelled", "failed"}
        /\ what = "503" => job'[r] \in {"lapsed", "cancelled", "none"}
    BY <2>3, <2>4, <2>5, Zenon
  <2>8. job' \in [RunIds -> JobStates] /\ \A q \in RunIds \ {r} : job'[q] = job[q]
    BY <2>4, Zenon
  <2> QED BY <1>3, <1>4, <1>6, <2>6, <2>7, <2>8, AnswerKeeps, Zenon
<1>15. CASE SearchRaises(e)
  <2>1. search[e].at = "trials" /\ trialIds' = trialIds
    BY <1>15, Zenon DEF SearchRaises
  <2>2. CASE job[r] = "running"
    <3>1. job' = [job EXCEPT ![r] = "failed"] /\ Answer(e, "500")
      BY <1>3, <1>15, <2>2, Zenon DEF SearchRaises
    <3>2. /\ job' \in [RunIds -> JobStates] /\ job'[r] = "failed"
          /\ \A q \in RunIds \ {r} : job'[q] = job[q]
      BY <1>8, <1>9, <3>1, Zenon
    <3>3. "500" # "503" /\ "500" # "completed"
      BY Zenon
    <3> QED BY <1>3, <1>4, <1>6, <2>1, <3>1, <3>2, <3>3, AnswerKeeps, Zenon
  <2>3. CASE job[r] # "running"
    <3>1. Answer(e, "503") /\ job' = job
      BY <1>3, <1>15, <2>3, Zenon DEF SearchRaises
    <3>2. job[r] \in {"lapsed", "cancelled"}
      BY <1>5, <2>1, <2>3, Zenon
    <3> QED BY <1>3, <1>4, <1>6, <1>7, <1>10, <2>1, <3>1, <3>2, AnswerKeeps, Zenon
  <2> QED BY <2>2, <2>3, Zenon
<1> QED BY <1>11, <1>12, <1>13, <1>14, <1>15, Zenon

LEMMA OptimizerStarts == OptimizerInit => OptimizerInv
<1> SUFFICES ASSUME OptimizerInit PROVE OptimizerInv
  BY Zenon
<1>1. /\ AdmissionInv /\ search = [e \in Gateways |-> NoSearch]
      /\ job = [r \in RunIds |-> "none"] /\ replied = [r \in RunIds |-> "none"]
  BY AdmissionStarts, Zenon DEF OptimizerInit
<1>2. NoSearch \in Searches /\ NoSearch.at = "none" /\ "none" \in JobStates
  BY Zenon DEF NoSearch, Searches, JobStates
<1>3. \A e \in Gateways : search[e].at = "none"
  BY <1>1, <1>2, Zenon
<1>4. \A r \in RunIds : replied[r] # "completed" /\ replied[r] \notin {"failed", "500"}
                        /\ replied[r] # "503"
  BY <1>1, Zenon
<1>5. SearchTypes
  BY <1>1, <1>2, Zenon DEF SearchTypes
<1> QED BY <1>1, <1>3, <1>4, <1>5, Zenon DEF OptimizerInv, SearchInv, SearchOK, Alone, AnswerOK

LEMMA OptimizerSteps == OptimizerInv /\ [OptimizerNext]_optimizerVars => OptimizerInv'
<1> SUFFICES ASSUME OptimizerInv, [OptimizerNext]_optimizerVars PROVE OptimizerInv'
  BY Zenon
<1>0. AdmissionInv /\ search \in [Gateways -> Searches]
  BY Zenon DEF OptimizerInv, SearchInv, SearchTypes
<1>1. CASE /\ AdmissionNext /\ \A e \in Gateways : search[e].at # "none" => ex'[e] = ex[e]
           /\ UNCHANGED searchVars
  <2>1. UNCHANGED <<search, job, trialIds, replied>>
    BY <1>1, Zenon DEF searchVars
  <2>2. AdmissionInv'
    BY <1>0, <1>1, AdmissionSteps, Zenon
  <2>3. \A r \in RunIds : ident[r] # NoIdentity => ident'[r] = ident[r]
    BY <1>0, <1>1, IdentityKept, Zenon
  <2> QED BY <1>0, <1>1, <2>1, <2>2, <2>3, ElsewhereKeepsSearch, Zenon DEF OptimizerInv
<1>2. CASE UNCHANGED optimizerVars
  <2>1. UNCHANGED <<search, job, trialIds, replied>> /\ UNCHANGED admissionVars
    BY <1>2, Zenon DEF optimizerVars, searchVars
  <2>2. AdmissionInv'
    BY <1>0, <2>1, AdmissionSteps, Zenon
  <2>3. ident' = ident /\ ex' = ex
    BY <2>1, Zenon DEF admissionVars
  <2> QED BY <1>0, <2>1, <2>2, <2>3, ElsewhereKeepsSearch, Zenon DEF OptimizerInv
<1>3. ASSUME NEW e \in Gateways, SearchCrash(e) PROVE OptimizerInv'
  <2>1. /\ ExecutorDies(e) /\ search' = [search EXCEPT ![e] = NoSearch]
        /\ UNCHANGED <<job, trialIds, replied>>
    BY <1>3, Zenon DEF SearchCrash
  <2>2. e \in Executors
    BY Zenon DEF Executors
  <2>3. AdmissionNext
    BY <2>1, <2>2, Zenon DEF AdmissionNext
  <2>4. AdmissionInv'
    BY <1>0, <2>3, AdmissionSteps, Zenon
  <2>5. \A r \in RunIds : ident[r] # NoIdentity => ident'[r] = ident[r]
    BY <1>0, <2>3, IdentityKept, Zenon
  <2>6. NoSearch \in Searches /\ NoSearch.at = "none"
    BY Zenon DEF NoSearch, Searches
  <2>7. /\ search' \in [Gateways -> Searches] /\ search'[e].at = "none"
        /\ \A f \in Gateways \ {e} : search'[f] = search[f]
    BY <1>0, <2>1, <2>6, Zenon
  <2>8. \A f \in Gateways \ {e} : ex'[f] = ex[f]
    BY <1>0, <2>1, Zenon DEF ExecutorDies, AdmissionInv, AdmissionTypes, Executors
  <2>9. \A f \in Gateways : search'[f].at # "none" => search'[f] = search[f] /\ ex'[f] = ex[f]
    BY <2>7, <2>8, Zenon
  <2> QED BY <2>1, <2>4, <2>5, <2>7, <2>9, ElsewhereKeepsSearch, Zenon DEF OptimizerInv
<1>4. ASSUME NEW r \in RunIds, LeaseLapses(r) \/ CancelJob(r) PROVE OptimizerInv'
  <2>1. UNCHANGED admissionVars /\ UNCHANGED <<search, trialIds, replied>>
    BY <1>4, Zenon DEF LeaseLapses, CancelJob
  <2>2. AdmissionInv'
    BY <1>0, <2>1, AdmissionSteps, Zenon
  <2>3. ident' = ident /\ ex' = ex
    BY <2>1, Zenon DEF admissionVars
  <2>4. \E v : /\ \/ job[r] = "running" /\ v = "lapsed"
                  \/ job[r] \in {"queued", "running"} /\ v = "cancelled"
               /\ job' = [job EXCEPT ![r] = v]
    BY <1>4, Zenon DEF LeaseLapses, CancelJob
  <2> QED BY <2>1, <2>2, <2>3, <2>4, LosingKeepsSearch, Zenon DEF OptimizerInv
<1> QED BY <1>1, <1>2, <1>3, <1>4, CreateJobKeeps, ActiveSearchKeeps, Zenon DEF OptimizerNext

(* A search has its run and its job to itself, whatever crashes, lapses or *)
(* is cancelled: the inductive invariant of run_optimizer on top of the    *)
(* admission's.                                                            *)
THEOREM OptimizerInductive == OptimizerSpec => []OptimizerInv
BY OptimizerStarts, OptimizerSteps, PTL DEF OptimizerSpec

(* No search has completed more trials than it has tried.                  *)
SearchCounts == \A e \in Gateways : search[e].completed <= search[e].tried

LEMMA SearchesCount == OptimizerSpec => []SearchCounts
<1>1. OptimizerInit => SearchCounts
  BY DEF OptimizerInit, SearchCounts, NoSearch
<1>2. OptimizerInv /\ SearchCounts /\ [OptimizerNext]_optimizerVars => SearchCounts'
  <2> SUFFICES ASSUME OptimizerInv, SearchCounts, [OptimizerNext]_optimizerVars PROVE SearchCounts'
    BY Zenon
  <2>1. search \in [Gateways -> Searches]
    BY Zenon DEF OptimizerInv, SearchInv, SearchTypes
  <2>2. CASE UNCHANGED search
    BY <2>2, Zenon DEF SearchCounts
  <2>3. ASSUME NEW e \in Gateways, NEW x, x.completed <= x.tried, search' = [search EXCEPT ![e] = x]
        PROVE  SearchCounts'
    BY <2>1, <2>3, Zenon DEF SearchCounts
  <2>4. NoSearch.completed <= NoSearch.tried
    BY DEF NoSearch
  <2>5. ASSUME NEW e \in Gateways, NEW what, Answer(e, what) PROVE SearchCounts'
    BY <2>3, <2>4, <2>5, Zenon DEF Answer
  <2>6. ASSUME NEW e \in Gateways, NEW n \in TrialCounts, CreateJob(e, n) PROVE SearchCounts'
    <3> DEFINE x == [NoSearch EXCEPT !.at = "queued", !.trials = n]
    <3>1. x.completed <= x.tried
      BY DEF NoSearch
    <3>2. search' = [search EXCEPT ![e] = x] \/ Answer(e, "503")
      BY <2>6, Zenon DEF CreateJob
    <3> HIDE DEF x
    <3> QED BY <2>3, <2>5, <3>1, <3>2, Zenon
  <2>7. ASSUME NEW e \in Gateways, MarkSearchRunning(e) PROVE SearchCounts'
    <3> DEFINE x == [search[e] EXCEPT !.at = "trials"]
    <3>1. x.completed <= x.tried
      BY <2>1, Zenon DEF SearchCounts, Searches
    <3>2. search' = [search EXCEPT ![e] = x] \/ Answer(e, "503")
      BY <2>1, <2>7, Zenon DEF MarkSearchRunning
    <3> HIDE DEF x
    <3> QED BY <2>3, <2>5, <3>1, <3>2, Zenon
  <2>8. ASSUME NEW e \in Gateways, RunTrial(e) PROVE SearchCounts'
    <3>1. PICK ok \in {0, 1} : search' = [search EXCEPT ![e].tried = @ + 1, ![e].completed = @ + ok]
      BY <2>8, Zenon DEF RunTrial
    <3> DEFINE x == [search[e] EXCEPT !.tried = @ + 1, !.completed = @ + ok]
    <3>2. x.completed <= x.tried
      BY <2>1 DEF SearchCounts, Searches
    <3>3. search' = [search EXCEPT ![e] = x]
      BY <2>1, <3>1, Zenon DEF Searches
    <3> HIDE DEF x
    <3> QED BY <2>3, <3>2, <3>3, Zenon
  <2>9. ASSUME NEW e \in Gateways, OptimizerReturns(e) PROVE SearchCounts'
    <3>1. PICK v \in {"completed", "failed"} : search' = [search EXCEPT ![e].at = "done", ![e].result = v]
      BY <2>9, Zenon DEF OptimizerReturns
    <3> DEFINE x == [search[e] EXCEPT !.at = "done", !.result = v]
    <3>2. x.completed <= x.tried
      BY <2>1, Zenon DEF SearchCounts, Searches
    <3>3. search' = [search EXCEPT ![e] = x]
      BY <2>1, <3>1, Zenon DEF Searches
    <3> HIDE DEF x
    <3> QED BY <2>3, <3>2, <3>3, Zenon
  <2>10. ASSUME NEW e \in Gateways, Terminalize(e) \/ SearchRaises(e) PROVE SearchCounts'
    BY <2>5, <2>10, Zenon DEF Terminalize, SearchRaises
  <2>11. ASSUME NEW e \in Gateways, SearchCrash(e) PROVE SearchCounts'
    BY <2>3, <2>4, <2>11, Zenon DEF SearchCrash
  <2>12. CASE \E r \in RunIds : LeaseLapses(r) \/ CancelJob(r)
    BY <2>2, <2>12, Zenon DEF LeaseLapses, CancelJob
  <2>13. CASE UNCHANGED searchVars \/ UNCHANGED optimizerVars
    BY <2>2, <2>13, Zenon DEF searchVars, optimizerVars
  <2> QED BY <2>6, <2>7, <2>8, <2>9, <2>10, <2>11, <2>12, <2>13, Zenon DEF OptimizerNext
<1> QED BY <1>1, <1>2, OptimizerInductive, PTL DEF OptimizerSpec

(* What is executed is what was published, and a search answers what its   *)
(* durable job says (persist_run_identity, run_optimizer), for any number  *)
(* of gateways, runs and trials.                                           *)
THEOREM OptimizerRunsAsPublished == OptimizerSpec => []RunsAsPublished
<1>1. AdmissionInv => ExecutesAsPublished
  BY ExecutorsArePublished, Zenon
<1>2. SearchInv => SearchMatchesJob
  <2> SUFFICES ASSUME SearchInv, NEW r \in RunIds
      PROVE  LET lost == job[r] \in {"lapsed", "cancelled"}
             IN  /\ replied[r] = "completed" =>
                      /\ lost \/ job[r] = "succeeded"
                      /\ \E t \in trialIds : t[1] = r /\ t[3] = ident[r].data
                 /\ replied[r] \in {"failed", "500"} => lost \/ job[r] = "failed"
                 /\ replied[r] = "503" => lost \/ job[r] = "none"
    BY Zenon DEF SearchMatchesJob
  <2> QED BY Zenon DEF SearchInv, AnswerOK, Tested
<1>3. OptimizerInv /\ SearchCounts => OptimizerTypeOK
  <2> SUFFICES ASSUME OptimizerInv, SearchCounts PROVE OptimizerTypeOK
    BY Zenon
  <2>1. AdmissionTypes /\ SearchTypes
    BY Zenon DEF OptimizerInv, AdmissionInv, SearchInv
  <2>2. \A e \in Executors : ex[e].at \in Places
    BY <2>1, Zenon DEF AdmissionTypes, Executor
  <2>3. \A e \in Gateways : search[e].at \in {"none", "queued", "trials", "done"}
    BY <2>1, Zenon DEF SearchTypes, Searches
  <2> QED BY <2>1, <2>2, <2>3, Zenon
             DEF OptimizerTypeOK, AdmissionTypeOK, AdmissionTypes, SearchTypes, SearchCounts, JobStates,
                Places
<1>4. OptimizerInv /\ SearchCounts => RunsAsPublished
  BY <1>1, <1>2, <1>3, Zenon DEF OptimizerInv, RunsAsPublished
<1> QED BY <1>4, OptimizerInductive, SearchesCount, PTL

=============================================================================
