--------------------------- MODULE CompileAdapter ---------------------------
(***************************************************************************)
(* One call of compile_pipeline: the compile profile, the library path and *)
(* the subprocess path of SubprocessCompilerAdapter, their fallbacks, and  *)
(* the saving of the artifact.  pine2ast, ast2python and the tools on PATH *)
(* are external: every answer they may give is a choice.  The artifacts    *)
(* go to the stores of PineSources; the call shares no other state with    *)
(* them, and the two are checked side by side.                             *)
(***************************************************************************)
EXTENDS PineSources

CONSTANT KwargChoices   \* the sets of allowances a caller passes as options

\* Allowances a profile or a caller may enable.
Allowances == {"library_stubs", "request_stubs", "invalid_ast", "subprocess", "version_rewrite"}

ASSUME CompileAssumption == KwargChoices \subseteq SUBSET Allowances

VARIABLES
    request,    \* the call: profile, options, adapter settings, the text's traits
    compileStep,       \* where the call is
    meta,       \* compile_meta: the adapter used and what made the result unsafe
    temps,      \* temporary files on disk
    compileResult,     \* the CompileResult
    artifact    \* compile_status of the artifact the pipeline saved

compVars == <<request, compileStep, meta, temps, compileResult, artifact>>

CompTypeOK ==
    /\ compileStep \in {"profile", "adapter", "parse", "translate", "tools", "run_parser",
                 "run_translator", "cleanup", "pipeline", "done"}
    /\ meta \in [adapter: {"none", "library", "subprocess"}, rewritten: BOOLEAN,
                 dirty: BOOLEAN, passed: SUBSET Allowances]
    /\ temps \subseteq {"pine", "ast"}
    /\ compileResult \in {"none", "failed", "sealed", "unsealed"}
    /\ artifact \in {"none", "OK", "FAILED"}

\* CompileProfile.production() allows nothing; a caller may build any profile.
CompileRequests ==
    [profile: {"production", "diagnostic"}, allow: SUBSET Allowances, kwargs: KwargChoices,
     preferLibrary: BOOLEAN, fallback: BOOLEAN, v5: BOOLEAN, badRequest: BOOLEAN]

CompInit ==
    /\ request \in CompileRequests
    /\ compileStep = "profile"
    /\ meta = [adapter |-> "none", rewritten |-> FALSE, dirty |-> FALSE, passed |-> {}]
    /\ temps = {}
    /\ compileResult = "none"
    /\ artifact = "none"

Production == request.profile = "production"

\* The allowances compile() refuses in a production call's options.
RefusedOptions == {"library_stubs", "request_stubs", "subprocess", "version_rewrite"}

CompileAnswers(r) == compileResult' = r /\ compileStep' = "pipeline" /\ UNCHANGED artifact
Proceeds(to) == compileStep' = to /\ UNCHANGED <<compileResult, artifact>>

\* _profile_from_kwargs and the checks at the head of compile().
ProfileRefused == Production /\ (request.allow # {} \/ request.kwargs \cap RefusedOptions # {})

CheckProfile ==
    /\ compileStep = "profile"
    /\ IF ProfileRefused THEN CompileAnswers("failed") ELSE Proceeds("adapter")
    /\ UNCHANGED <<request, meta, temps>>

\* _load_library_apis: a package or a function of one may be missing.
LibraryLoads == BOOLEAN

\* The library when preferred and importable, the tools when both the adapter and
\* the profile let it fall back.
ChooseAdapter ==
    /\ compileStep = "adapter"
    /\ \E imported \in LibraryLoads :
         CASE request.preferLibrary /\ imported ->
                meta' = [meta EXCEPT !.adapter = "library"] /\ Proceeds("parse")
           [] /\ ~(request.preferLibrary /\ imported)
              /\ request.preferLibrary => request.fallback
              /\ "subprocess" \in request.allow ->
                meta' = [meta EXCEPT !.adapter = "subprocess"] /\ Proceeds("tools")
           [] OTHER -> UNCHANGED meta /\ CompileAnswers("failed")
    /\ UNCHANGED <<request, temps>>

\* _normalize_pine_v5_directive and the retry: only when the one complaint was the
\* version, only when the profile allows it, and marked unsafe.
MayRewrite == request.v5 /\ "version_rewrite" \in request.allow

\* _parse_with_library_api: errors, an AST (diagnostics about visuals do not count),
\* or the AST of the rewritten text.
LibraryParse == {"errors", "as_written"} \cup (IF MayRewrite THEN {"rewritten"} ELSE {})

\* _compile_with_library up to the translation: production refuses request.* calls
\* it cannot lower.
ParseLibrary ==
    /\ compileStep = "parse"
    /\ \E parse \in LibraryParse :
         /\ meta' = [meta EXCEPT !.rewritten = parse = "rewritten"]
         /\ IF parse = "errors" \/ (Production /\ request.badRequest)
            THEN CompileAnswers("failed") ELSE Proceeds("translate")
    /\ UNCHANGED <<request, temps>>

\* _production_metadata_blockers: what the translator reports of its output.
Blocked(dirty) == Production /\ dirty

\* _translate_ast_with_library_api: the options override the profile.
TranslateLibrary ==
    /\ compileStep = "translate"
    /\ meta' \in {[meta EXCEPT !.dirty = d, !.passed =
                     (request.allow \cup request.kwargs)
                        \cap {"library_stubs", "request_stubs", "invalid_ast"}] : d \in BOOLEAN}
    /\ \/ CompileAnswers("failed")
       \/ ~Blocked(meta'.dirty) /\ CompileAnswers("sealed")
    /\ UNCHANGED <<request, temps>>

-----------------------------------------------------------------------------
(***************************************************************************)
(* The subprocess path.                                                    *)
(***************************************************************************)

\* _resolve_subprocess_tools and _write_temp_pine_source.
FindTools ==
    /\ compileStep = "tools"
    /\ \/ CompileAnswers("failed") /\ UNCHANGED temps
       \/ temps' = temps \cup {"pine"} /\ Proceeds("run_parser")
    /\ UNCHANGED <<request, meta>>

Fails == compileResult' = "failed" /\ compileStep' = "cleanup" /\ UNCHANGED artifact

\* _parse_with_pine2ast_subprocess: an exit code, a rewrite or a timeout.
ToolParse == LibraryParse

\* _subprocess_ast_json_or_error, where output that is not JSON is an error too.
RunParser ==
    /\ compileStep = "run_parser"
    /\ \E parse \in ToolParse :
         /\ meta' = [meta EXCEPT !.rewritten = parse = "rewritten"]
         /\ IF parse = "errors" THEN Fails ELSE Proceeds("run_translator")
    /\ UNCHANGED <<request, temps>>

\* _translate_ast_with_subprocess: the AST goes to a temporary file, whose path
\* the caller learns only when the call returns.
RunTranslator ==
    /\ compileStep = "run_translator"
    /\ temps' = temps \cup {"ast"}
    /\ \/ Fails /\ UNCHANGED meta
       \/ /\ compileResult' = "unsealed" /\ compileStep' = "cleanup"
          /\ UNCHANGED <<artifact, meta>>
    /\ UNCHANGED request

\* subprocess.TimeoutExpired out of the translator: ast_path is unbound.
TranslatorTimesOut ==
    /\ compileStep = "run_translator"
    /\ temps' = {"ast"}
    /\ CompileAnswers("failed")
    /\ UNCHANGED <<request, meta>>

\* The finally block.
Cleanup ==
    /\ compileStep = "cleanup"
    /\ temps' = {}
    /\ compileStep' = "pipeline"
    /\ UNCHANGED <<request, meta, compileResult, artifact>>

-----------------------------------------------------------------------------
\* compile_pipeline: a sealed result is saved, an unsealed one raises, and a
\* failure is saved for its diagnostics.
PipelineSaves ==
    /\ compileStep = "pipeline"
    /\ artifact' = CASE compileResult = "sealed" -> "OK"
                     [] compileResult = "failed" -> "FAILED"
                     [] OTHER -> "none"
    /\ compileStep' = "done"
    /\ UNCHANGED <<request, meta, temps, compileResult>>

CompNext ==
    \/ CheckProfile \/ ChooseAdapter \/ ParseLibrary \/ TranslateLibrary
    \/ FindTools \/ RunParser \/ RunTranslator \/ TranslatorTimesOut \/ Cleanup
    \/ PipelineSaves

CompSpec == CompInit /\ [][CompNext]_compVars

-----------------------------------------------------------------------------
(***************************************************************************)
(* An artifact saved as OK by a production compile came from the library   *)
(* path, from the text as written, was not reported unsafe, and no stub    *)
(* was allowed in it; and what the tools produced without a seal is never  *)
(* saved as OK, in any profile (_profile_from_kwargs, compile and          *)
(* _production_metadata_blockers).  allow_invalid_ast is not among the     *)
(* options compile() refuses, so it is not claimed here.                   *)
(***************************************************************************)
ProductionIsClean ==
    artifact = "OK" =>
        /\ meta.adapter = "library"
        /\ Production => /\ ~meta.rewritten /\ ~meta.dirty
                         /\ meta.passed \subseteq {"invalid_ast"}

(* What the stores of code hold can be used: every artifact the gateway    *)
(* finds is sealed over the files it has (ArtifactStore), the active       *)
(* artifact of a source is one that is stored                              *)
(* (SQLitePineSourceRegistry.update_active_artifact), and what a           *)
(* production compile saved as OK is clean (compile_pipeline).             *)
ArtifactsAreUsable ==
    /\ PineTypeOK /\ ArtifactsAreSealed /\ ActiveIsStored
    /\ CompTypeOK /\ ProductionIsClean
=============================================================================
