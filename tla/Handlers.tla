------------------------------ MODULE Handlers ------------------------------
(***************************************************************************)
(* The tool handlers (internal/tools) that ask or tell one language server. *)
(* A handler is the sequence of steps its function takes; a step names what *)
(* it does and where each of its outcomes leads: n >= 1 goes n steps on,    *)
(* Found and Done end the call well with and without an answer, Fail ends   *)
(* it with an error. Calls follow each other; meanwhile the server may      *)
(* crash, and another call may restart it (lsp.LSPClient.Restart).          *)
(* "old" and "new" are the text of the file before and after this call's    *)
(* edit; Offers are the sets of methods a server may declare.               *)
(***************************************************************************)
EXTENDS Integers, Sequences, FiniteSets

CONSTANTS Offers, MaxCalls, MaxCrashes, MaxRestarts

VARIABLES
  client, offered,           \* start_lsp made a client; what its server declares
  proc, caps, folder,        \* the server process; capabilities known; a second folder
  openDocs, known,           \* documents tracked as open; documents the server holds
  restart, snapshot,         \* a restart under way; the documents it re-opens
  tool, pc, asking, result,  \* the call: its handler, step, request and result
  srv, pipe, cache,          \* the file's text at the server, the one a publication
                             \* under way and the cached diagnostics are about
  written, verified, sim,    \* this call wrote, saw diagnostics; its preview session
  adrift, misled,            \* history: tracked, but the didOpen is known to be lost;
                             \* changed at a server that did not hold it otherwise
  gaps, disturbed, late,     \* history: questions that went unanswered; a restart ran;
                             \* a publication of the old text was on its way
  calls, crashes, restarts

serverVars == <<client, offered, proc, caps, folder, restart, snapshot>>
docVars == <<openDocs, known, adrift, misled>>
diagVars == <<srv, pipe, cache, verified, late>>
countVars == <<calls, crashes, restarts>>
hVars == <<serverVars, docVars, diagVars, countVars, tool, pc, asking, result, written,
           sim, gaps, disturbed>>

Doc == {"file", "other"}
Done == 0
Found == -1
Fail == -2

(* What the client asks a server: whether the capability is checked first, and
   whether the request then waits for the workspace to be ready. *)
Request(m, gated, waits) == [name |-> m, gated |-> gated, waits |-> waits]

GetInfoOnLocation == Request("hover", TRUE, TRUE)
GetCompletion == Request("completion", TRUE, TRUE)
GetSignatureHelp == Request("signatureHelp", TRUE, TRUE)
GetCodeActions == Request("codeAction", TRUE, TRUE)
GetDocumentSymbols == Request("documentSymbol", TRUE, TRUE)
GetWorkspaceSymbols == Request("workspaceSymbol", TRUE, TRUE)
GetDefinition == Request("definition", TRUE, TRUE)
GetTypeDefinition == Request("typeDefinition", TRUE, TRUE)
GetImplementation == Request("implementation", TRUE, TRUE)
GetDeclaration == Request("declaration", TRUE, TRUE)
GetReferences == Request("references", TRUE, TRUE)
GetReferencesRaw == Request("references", TRUE, FALSE)
PrepareCallHierarchy == Request("callHierarchy", TRUE, TRUE)
GetIncomingCalls == Request("incoming", FALSE, FALSE)
GetOutgoingCalls == Request("outgoing", FALSE, FALSE)
PrepareTypeHierarchy == Request("typeHierarchy", TRUE, TRUE)
GetSupertypes == Request("supertypes", FALSE, FALSE)
GetSubtypes == Request("subtypes", FALSE, FALSE)
GetInlayHints == Request("inlayHint", TRUE, TRUE)
GetSemanticTokensRequest == Request("semanticTokens", TRUE, TRUE)
DocumentHighlights == Request("documentHighlight", TRUE, TRUE)
FormatDocument == Request("documentFormatting", TRUE, FALSE)
FormatRange == Request("rangeFormatting", TRUE, FALSE)
RenameSymbol == Request("rename", TRUE, FALSE)
PrepareRename == Request("prepareRename", TRUE, FALSE)
ExecuteCommand == Request("executeCommand", FALSE, FALSE)
ResolveCommand == Request("resolve", FALSE, FALSE)
ListEnumOptions == Request("listEnum", FALSE, FALSE)

(* The steps. The answer to Ask is what the tool reports; Try only improves it. *)
CheckInitialized == [do |-> "client"]
Local(outcomes) == [do |-> "local", to |-> outcomes]
Args == Local({1, Fail})
Open(d) == [do |-> "open", doc |-> d, err |-> Fail]
OpenAgain(d, n) == [do |-> "open", doc |-> d, err |-> n]
Ask(m, none, some) ==
  [do |-> "ask", method |-> m, must |-> TRUE, err |-> Fail, none |-> none, some |-> some]
Try(m, err, none, some) ==
  [do |-> "ask", method |-> m, must |-> FALSE, err |-> err, none |-> none, some |-> some]
Write == [do |-> "write"]
Step(what) == [do |-> what]
Manager(op, ok, err) == [do |-> "manager", op |-> op, ok |-> ok, err |-> err]

Reopen(d) == <<[do |-> "didClose", doc |-> d], [do |-> "didOpen", doc |-> d]>>
GetDiagnosticsForFileStatus == <<Step("reset")>> \o Reopen("file") \o <<Step("count")>>
VerifyWorkspaceEditChannels == <<Local({1, Found})>> \o Reopen("other")

(* analysis.go, navigation.go and the tools of one query. *)
Query(m) == <<CheckInitialized, Args, Open("file"), Ask(m, Done, Found)>>

HandleGetInfoOnLocation == Query(GetInfoOnLocation)
HandleGetCompletions == Query(GetCompletion)
HandleGetSignatureHelp == Query(GetSignatureHelp)
HandleGetCodeActions == Query(GetCodeActions)
HandleGetDocumentSymbols == Query(GetDocumentSymbols)
HandleGetDocumentHighlights == Query(DocumentHighlights)
HandleGetInlayHints == Query(GetInlayHints)
HandleGetSemanticTokens == Query(GetSemanticTokensRequest)
HandleGoToTypeDefinition == Query(GetTypeDefinition)
HandleGoToImplementation == Query(GetImplementation)
HandleGoToDeclaration == Query(GetDeclaration)
HandleFormatDocument == Query(FormatDocument)
HandleFormatRange == Query(FormatRange)
\* A method the server does not know is an answer too: unsupported.
HandlePrepareRename == Query(PrepareRename)

\* Up to two candidates of a workspace symbol search for the hovered name.
FuzzyPositionFallback(m) ==
  <<Try(GetInfoOnLocation, Done, Done, 1), Local({1, Done}),
    Try(GetWorkspaceSymbols, Done, Done, 1), Try(m, 1, 1, Found), Try(m, Done, Done, Found)>>
Located(m) ==
  <<CheckInitialized, Args, Open("file"), Ask(m, 1, Found)>> \o FuzzyPositionFallback(m)
HandleGetReferences == Located(GetReferences)
HandleGoToDefinition == Located(GetDefinition)

\* The item's two directions are asked as the direction argument says.
Hierarchy(prepare, one, two) ==
  <<CheckInitialized, Args, Open("file"), Ask(prepare, Done, 1), Local({1, 2}),
    Ask(one, 1, 1), Local({1, Found}), Ask(two, Found, Found)>>
HandleCallHierarchy == Hierarchy(PrepareCallHierarchy, GetIncomingCalls, GetOutgoingCalls)
HandleTypeHierarchy == Hierarchy(PrepareTypeHierarchy, GetSupertypes, GetSubtypes)

HandleExploreSymbol ==
  <<CheckInitialized, Args, Open("file"), Ask(GetInfoOnLocation, 1, 1),
    Try(PrepareCallHierarchy, 2, 2, 1), Try(GetIncomingCalls, 1, 1, 1),
    Try(GetDocumentSymbols, 1, 1, 1), Try(GetReferences, Done, Done, Found)>>

HandleGetSymbolSource ==
  <<CheckInitialized, Args, Open("file"), Ask(GetDocumentSymbols, Fail, 1), Local({Found, Fail})>>

\* The definition, else the candidate itself.
HandleGoToSymbol ==
  <<CheckInitialized, Args, Ask(GetWorkspaceSymbols, Done, 1), Open("other"),
    Ask(GetDefinition, Found, Found)>>

\* Folders that cannot be added are warnings; the hover only names the symbol.
HandleGetCrossRepoReferences ==
  <<Args, CheckInitialized, Args, [do |-> "addFolder", err |-> 1], Open("file"),
    Ask(GetReferences, 1, 3),
    OpenAgain("file", Done), Try(GetInfoOnLocation, Done, Done, Done),
    OpenAgain("file", Found), Try(GetInfoOnLocation, Found, Found, Found)>>

(* blast_radius: two changed files, the first symbol's references with the full
   wait, the others' without; a failure becomes a warning of the result. *)
HandleGetChangeImpact ==
  <<CheckInitialized, Args, OpenAgain("file", 2), Try(GetDocumentSymbols, 1, 1, 1),
    OpenAgain("other", 2), Try(GetDocumentSymbols, 1, 1, 1), Local({1, Done}),
    OpenAgain("file", 2), Try(GetReferences, 1, 1, 1), Local({1, Found}),
    OpenAgain("other", Found), Try(GetReferencesRaw, Found, Found, Found)>>
\* git diff fails, shows no source file, or names the files to look at.
HandleDetectChanges ==
  <<CheckInitialized, Args, Local({1, Done, Fail})>> \o HandleGetChangeImpact

(* symbol_edit.go *)
ResolveInDocument == <<Open("file"), Ask(GetDocumentSymbols, Fail, 1), Local({1, Fail})>>
\* Without a file_path the file is the one of the best workspace symbol.
ResolveSymbolByNamePath ==
  <<Local({1, 3}), Ask(GetWorkspaceSymbols, Fail, 1), Local({1, Fail})>> \o ResolveInDocument
EditSymbol ==
  <<CheckInitialized, Args>> \o ResolveSymbolByNamePath \o <<Write>> \o GetDiagnosticsForFileStatus
HandleReplaceSymbolBody == EditSymbol
HandleInsertAfterSymbol == EditSymbol
HandleInsertBeforeSymbol == EditSymbol
HandleSafeDeleteSymbol ==
  <<CheckInitialized, Args>> \o ResolveInDocument \o <<Ask(GetReferences, 1, Fail), Write>>
    \o GetDiagnosticsForFileStatus

(* workspace.go and refactor.go *)
RenameWithFuzzyFallback ==
  <<Try(GetInfoOnLocation, Done, Done, 1), Local({1, Done}),
    Try(GetWorkspaceSymbols, Done, Done, 1), Try(RenameSymbol, Done, Done, 1)>>
\* After the globs nothing may be left; a dry run stops before the write.
HandleRenameSymbol ==
  <<CheckInitialized, Args, Open("file"), Ask(RenameSymbol, 1, 5)>> \o RenameWithFuzzyFallback
    \o <<Local({1, Done, Found}), Write>> \o GetDiagnosticsForFileStatus
    \o VerifyWorkspaceEditChannels

ExecuteCommandCapturingEdits == Ask(ExecuteCommand, 1, 1)
\* List or pick; then an interactive command, a plain one, or the action's own edit.
HandleRefactor ==
  <<CheckInitialized, Args, Open("file"), Ask(GetCodeActions, 1, 1),
    Local({Done, Found, Fail, 1, 3, 4}), Ask(ResolveCommand, 2, 1),
    Try(ListEnumOptions, Found, Found, Found), ExecuteCommandCapturingEdits,
    Local({1, Done, Found}), Write>> \o GetDiagnosticsForFileStatus
    \o VerifyWorkspaceEditChannels
\* A command that needs input is refused.
HandleExecuteCommand ==
  <<CheckInitialized, Args, Local({1, 2}), Try(ResolveCommand, 1, 1, Fail),
    Ask(ExecuteCommand, Done, Found)>>
HandleApplyEdit == <<CheckInitialized, Args, Write>>

(* session.go, workspace_folders.go, utilities.go, capabilities.go, simulation.go *)
HandleOpenDocument == <<CheckInitialized, Args, Open("file")>>
HandleCloseDocument == <<CheckInitialized, Args, Step("close")>>
HandleRestartLspServer == <<CheckInitialized, Args, Step("restart"), Step("restarted")>>
HandleAddWorkspaceFolder == <<CheckInitialized, Args, [do |-> "addFolder", err |-> Fail]>>
HandleRemoveWorkspaceFolder == <<CheckInitialized, Args, Step("removeFolder")>>
HandleListWorkspaceFolders == <<CheckInitialized>>
HandleDidChangeWatchedFiles == <<CheckInitialized, Args, Step("notify")>>
HandleGetServerCapabilities == <<CheckInitialized>>
HandleSetLogLevel == <<Args>>
\* The toolchain is run as a subprocess, with no language server.
RunToolchain == <<Args, Local({1, Fail}), Local({Found, Fail})>>
HandleRunBuild == RunToolchain
HandleRunTests == RunToolchain
HandleGetTestsForFile == <<Args, Local({Found, Fail}), Local({Found, Fail})>>
HandleGetSymbolDocumentation == <<Args, Local({Found, Done}), Local({Found, Done})>>
HandleSessionTool == <<Args, Local({Found, Fail})>>
\* mutant: an evaluation that fails does not discard
AtomicWithoutDiscard ==
  <<Args, Manager("create", 1, Fail), Manager("edit", 1, 5), Manager("evaluate", 1, 4),
    Manager("discard", 1, 3), Manager("destroy", Found, Found),
    Manager("discard", 1, 1), Manager("destroy", Fail, Fail)>>
\* preview_edit: the session is discarded, then destroyed, on every way out.
HandleSimulateEditAtomic ==
  <<Args, Manager("create", 1, Fail), Manager("edit", 1, 5), Manager("evaluate", 1, 3),
    Manager("discard", 1, 3), Manager("destroy", Found, Found),
    Manager("discard", 1, 1), Manager("destroy", Fail, Fail)>>

Handlers ==
  [inspect_symbol |-> HandleGetInfoOnLocation, get_completions |-> HandleGetCompletions,
   get_signature_help |-> HandleGetSignatureHelp, suggest_fixes |-> HandleGetCodeActions,
   list_symbols |-> HandleGetDocumentSymbols, get_document_highlights |-> HandleGetDocumentHighlights,
   get_inlay_hints |-> HandleGetInlayHints, get_semantic_tokens |-> HandleGetSemanticTokens,
   go_to_type_definition |-> HandleGoToTypeDefinition,
   go_to_implementation |-> HandleGoToImplementation,
   go_to_declaration |-> HandleGoToDeclaration, format_document |-> HandleFormatDocument,
   format_range |-> HandleFormatRange, prepare_rename |-> HandlePrepareRename,
   find_references |-> HandleGetReferences, go_to_definition |-> HandleGoToDefinition,
   find_callers |-> HandleCallHierarchy, type_hierarchy |-> HandleTypeHierarchy,
   explore_symbol |-> HandleExploreSymbol, get_symbol_source |-> HandleGetSymbolSource,
   go_to_symbol |-> HandleGoToSymbol, get_cross_repo_references |-> HandleGetCrossRepoReferences,
   blast_radius |-> HandleGetChangeImpact, detect_changes |-> HandleDetectChanges,
   replace_symbol_body |-> HandleReplaceSymbolBody, insert_after_symbol |-> HandleInsertAfterSymbol,
   insert_before_symbol |-> HandleInsertBeforeSymbol, safe_delete_symbol |-> HandleSafeDeleteSymbol,
   rename_symbol |-> HandleRenameSymbol, refactor |-> HandleRefactor,
   execute_command |-> HandleExecuteCommand, apply_edit |-> HandleApplyEdit,
   open_document |-> HandleOpenDocument, close_document |-> HandleCloseDocument,
   restart_lsp_server |-> HandleRestartLspServer, add_workspace_folder |-> HandleAddWorkspaceFolder,
   remove_workspace_folder |-> HandleRemoveWorkspaceFolder,
   list_workspace_folders |-> HandleListWorkspaceFolders,
   did_change_watched_files |-> HandleDidChangeWatchedFiles,
   get_server_capabilities |-> HandleGetServerCapabilities, set_log_level |-> HandleSetLogLevel,
   run_build |-> HandleRunBuild, run_tests |-> HandleRunTests,
   get_tests_for_file |-> HandleGetTestsForFile,
   get_symbol_documentation |-> HandleGetSymbolDocumentation,
   session_tool |-> HandleSessionTool, preview_edit |-> HandleSimulateEditAtomic]
Tool == DOMAIN Handlers

HandlersInit ==
  /\ client = FALSE /\ offered = {}
  /\ proc = "down" /\ caps = FALSE /\ folder = "no"
  /\ openDocs = {} /\ known = {} /\ restart = "no" /\ snapshot = {}
  /\ tool = "none" /\ pc = 0 /\ asking = "no" /\ result = "none"
  /\ srv = "old" /\ pipe = "no" /\ cache = "no"
  /\ written = FALSE /\ verified = FALSE /\ sim = "no"
  /\ adrift = {} /\ misled = {}
  /\ gaps = {} /\ disturbed = FALSE /\ late = FALSE
  /\ calls = 0 /\ crashes = 0 /\ restarts = 0

Here == Handlers[tool][pc]
At(what) == pc > 0 /\ Here.do = what

\* Goes n steps on, or ends the call.
Advance(n) ==
  IF n > 0 /\ pc + n <= Len(Handlers[tool])
  THEN pc' = pc + n /\ UNCHANGED result
  ELSE /\ pc' = 0
       /\ result' = IF n = Fail THEN "error" ELSE IF n = Done THEN "empty" ELSE "ok"

\* start_lsp; the server may already have published about the file.
StartLsp ==
  /\ ~client /\ pc = 0 /\ calls < MaxCalls /\ client' = TRUE /\ offered' \in Offers
  /\ proc' = "up" /\ caps' = TRUE /\ cache' \in {"no", "old"}
  /\ UNCHANGED <<folder, restart, snapshot, docVars, srv, pipe, verified, late, countVars, tool, pc,
                 asking, result, written, sim, gaps, disturbed>>

\* The text every earlier call left is the old one of this call.
Earlier(t) == IF t = "new" THEN "old" ELSE t

StartCall ==
  /\ pc = 0 /\ calls < MaxCalls /\ calls' = calls + 1
  /\ tool' \in Tool /\ pc' = 1 /\ result' = "none" /\ asking' = "no"
  /\ srv' = Earlier(srv) /\ pipe' = Earlier(pipe) /\ cache' = Earlier(cache)
  /\ written' = FALSE /\ verified' = FALSE /\ sim' = "no" /\ gaps' = {} /\ late' = FALSE
  /\ disturbed' = (restart # "no" \/ ~caps)
  /\ UNCHANGED <<serverVars, docVars, crashes, restarts>>

CheckClient ==
  /\ At("client") /\ Advance(IF client THEN 1 ELSE Fail)
  /\ UNCHANGED <<serverVars, docVars, diagVars, countVars, tool, asking, written, sim, gaps, disturbed>>

Decide ==
  /\ At("local") /\ \E n \in Here.to : Advance(n)
  /\ UNCHANGED <<serverVars, docVars, diagVars, countVars, tool, asking, written, sim, gaps, disturbed>>

(* A notification is sent when there is a process, and honoured when it has
   finished its handshake; one that is still starting may drop it. *)
Sent == proc # "down"
Heard == IF proc = "starting" THEN BOOLEAN ELSE {proc = "up"}
DiskText == IF written THEN "new" ELSE "old"

\* A didChange reaches a server that does not hold the document.
Changed(d, heard) ==
  misled' = IF heard /\ d \in openDocs \ (known \cup adrift) THEN misled \cup {d} ELSE misled

\* client.OpenDocument: didChange for a tracked document, else record and didOpen.
OpenDocument(d) == \E heard \in Heard :
  /\ openDocs' = openDocs \cup {d}
  /\ srv' = IF heard /\ d = "file" THEN DiskText ELSE srv
  /\ IF d \in openDocs
     THEN /\ Changed(d, heard)
          /\ UNCHANGED <<known, adrift>>
     ELSE /\ known' = IF heard THEN known \cup {d} ELSE known
          /\ adrift' = IF heard THEN adrift \ {d} ELSE adrift \cup {d}
          /\ UNCHANGED misled

\* WithDocument: the file must be readable, and the notification sent.
WithDocument ==
  /\ At("open")
  /\ \/ Advance(Here.err) /\ UNCHANGED <<docVars, srv>>
     \/ OpenDocument(Here.doc) /\ Advance(IF Sent THEN 1 ELSE Here.err)
  /\ UNCHANGED <<serverVars, pipe, cache, verified, late, countVars, tool, asking, written,
                 sim, gaps, disturbed>>

\* A question that ended without the server's answer.
Unanswered(why) == gaps' = IF Here.must THEN gaps \cup {why} ELSE gaps

CheckCapability ==
  /\ At("ask") /\ asking = "no"
  /\ LET m == Here.method IN
     IF m.gated /\ ~(caps /\ m.name \in offered)
     THEN /\ Advance(Here.none) /\ UNCHANGED asking
          /\ IF m.name \in offered THEN Unanswered("unasked") ELSE UNCHANGED gaps
     ELSE /\ asking' = IF m.waits THEN "waiting" ELSE "ready"
          /\ UNCHANGED <<pc, result, gaps>>
  /\ UNCHANGED <<serverVars, docVars, diagVars, countVars, tool, written, sim, disturbed>>

\* ensureWorkspaceReady returns when the workspace is loaded or its time is up.
WorkspaceReady ==
  /\ At("ask") /\ asking = "waiting" /\ asking' = "ready"
  /\ UNCHANGED <<serverVars, docVars, diagVars, countVars, tool, pc, result, written, sim, gaps, disturbed>>

SendRequest ==
  /\ At("ask") /\ asking = "ready"
  /\ IF Sent THEN asking' = "sent" /\ UNCHANGED <<pc, result, gaps>>
             ELSE asking' = "no" /\ Advance(Here.err) /\ Unanswered("failed")
  /\ UNCHANGED <<serverVars, docVars, diagVars, countVars, tool, written, sim, disturbed>>

RequestAnswered ==
  /\ At("ask") /\ asking = "sent" /\ proc = "up"
  /\ asking' = "no" /\ (Advance(Here.none) \/ Advance(Here.some))
  /\ UNCHANGED <<serverVars, docVars, diagVars, countVars, tool, written, sim, gaps, disturbed>>

\* mutant: a failed request is taken for an empty answer
FailureReadAsNone ==
  /\ At("ask") /\ asking \in {"sent", "lost"}
  /\ asking' = "no" /\ Advance(Here.none) /\ Unanswered("failed")
  /\ UNCHANGED <<serverVars, docVars, diagVars, countVars, tool, written, sim, disturbed>>

\* An error, a timeout, the end of the process; the only way out once a restart
\* has replaced the pending requests.
RequestFailed ==
  /\ At("ask") /\ asking \in {"sent", "lost"}
  /\ asking' = "no" /\ Advance(Here.err) /\ Unanswered("failed")
  /\ UNCHANGED <<serverVars, docVars, diagVars, countVars, tool, written, sim, disturbed>>

\* ApplyWorkspaceEdit on the file; didChange goes out whether or not it is tracked.
ApplyWorkspaceEdit ==
  /\ At("write")
  /\ \/ Advance(Fail) /\ UNCHANGED <<written, srv, misled>>
     \/ \E heard \in Heard :
          /\ written' = TRUE
          /\ srv' = IF heard THEN "new" ELSE srv
          /\ Changed("file", heard)
          /\ Advance(IF Sent THEN 1 ELSE Fail)
  /\ UNCHANGED <<serverVars, openDocs, known, adrift, pipe, cache, verified, late, countVars, tool,
                 asking, sim, gaps, disturbed>>

\* mutant: the cache is kept
ResetNothing ==
  /\ At("reset") /\ late' = (pipe = "old" \/ ("file" \in known /\ srv = "old")) /\ Advance(1)
  /\ UNCHANGED <<serverVars, docVars, srv, pipe, cache, verified, countVars, tool, asking, written, sim,
                 gaps, disturbed>>

(* getDiagnosticsForFileStatus: drop the cached diagnostics, reopen, wait for a
   while, then see whether anything was published. *)
ResetDiagnostics ==
  /\ At("reset") /\ cache' = "no"
  /\ late' = (pipe = "old" \/ ("file" \in known /\ srv = "old"))
  /\ Advance(1)
  /\ UNCHANGED <<serverVars, docVars, srv, pipe, verified, countVars, tool, asking, written, sim,
                 gaps, disturbed>>

\* ReopenDocument, its errors ignored; an untracked document is opened from disk.
CloseForReopen ==
  /\ At("didClose")
  /\ LET d == Here.doc IN
     IF d \in openDocs
     THEN \E heard \in Heard :
            /\ known' = IF heard THEN known \ {d} ELSE known
            /\ adrift' = IF heard THEN adrift \cup {d} ELSE adrift
            /\ Advance(IF Sent THEN 1 ELSE 2)
            /\ UNCHANGED <<openDocs, misled, srv>>
     ELSE /\ UNCHANGED <<docVars, srv>> \/ OpenDocument(d)
          /\ Advance(2)
  /\ UNCHANGED <<serverVars, pipe, cache, verified, late, countVars, tool, asking, written, sim,
                 gaps, disturbed>>

ReopenDocument ==
  /\ At("didOpen") /\ Advance(1)
  /\ LET d == Here.doc IN
     \/ UNCHANGED <<docVars, srv>>
     \/ \E heard \in Heard :
          /\ openDocs' = openDocs \cup {d}
          /\ known' = IF heard THEN known \cup {d} ELSE known
          /\ adrift' = IF heard THEN adrift \ {d} ELSE adrift \cup {d}
          /\ srv' = IF heard /\ d = "file" THEN DiskText ELSE srv
          /\ UNCHANGED misled
  /\ UNCHANGED <<serverVars, pipe, cache, verified, late, countVars, tool, asking, written, sim,
                 gaps, disturbed>>

HasPublishedDiagnostics ==
  /\ At("count") /\ verified' = (cache # "no") /\ Advance(1)
  /\ UNCHANGED <<serverVars, docVars, srv, pipe, cache, late, countVars, tool, asking, written,
                 sim, gaps, disturbed>>

\* client.CloseDocument
CloseDocument ==
  /\ At("close") /\ Advance(IF Sent THEN 1 ELSE Fail)
  /\ openDocs' = openDocs \ {"file"} /\ adrift' = adrift \ {"file"}
  /\ \E heard \in Heard : known' = IF heard THEN known \ {"file"} ELSE known
  /\ UNCHANGED <<serverVars, misled, diagVars, countVars, tool, asking, written, sim, gaps, disturbed>>

\* The folder is listed before the server is told; a failed notification leaves it listed.
AddWorkspaceFolder ==
  /\ At("addFolder")
  /\ IF folder # "no" THEN Advance(1) /\ UNCHANGED folder
     ELSE /\ folder' = IF Sent THEN "announced" ELSE "listed"
          /\ Advance(IF Sent THEN 1 ELSE Here.err)
  /\ UNCHANGED <<client, offered, proc, caps, restart, snapshot, docVars, diagVars, countVars, tool,
                 asking, written, sim, gaps, disturbed>>

RemoveWorkspaceFolder ==
  /\ At("removeFolder") /\ folder' = "no"
  /\ Advance(IF folder = "no" \/ Sent THEN 1 ELSE Fail)
  /\ UNCHANGED <<client, offered, proc, caps, restart, snapshot, docVars, diagVars, countVars, tool,
                 asking, written, sim, gaps, disturbed>>

DidChangeWatchedFiles ==
  /\ At("notify") /\ Advance(IF Sent THEN 1 ELSE Fail)
  /\ UNCHANGED <<serverVars, docVars, diagVars, countVars, tool, asking, written, sim, gaps, disturbed>>

\* The preview's session: "edited" while the server holds the simulated text,
\* "stuck" when the discard itself failed.
SessionManager ==
  /\ At("manager")
  /\ \E ok \in BOOLEAN :
       /\ Advance(IF ok THEN Here.ok ELSE Here.err)
       /\ sim' = CASE Here.op = "create" -> IF ok THEN "open" ELSE "no"
                   [] Here.op = "edit" -> IF ok THEN "edited" ELSE sim
                   [] Here.op = "discard" -> IF ok THEN "open" ELSE "stuck"
                   [] Here.op = "destroy" -> IF sim = "edited" THEN "leaked" ELSE "no"
                   [] OTHER -> sim
  /\ UNCHANGED <<serverVars, docVars, diagVars, countVars, tool, asking, written, gaps, disturbed>>

(* lsp.LSPClient.Restart: snapshot the open documents, shut the server down, clear
   the session's state, start and initialize a new one, re-open the snapshot. It
   is the handler's own step, or another call's while this one runs. *)
SnapshotDocuments ==
  /\ restart = "no" /\ client /\ restarts < MaxRestarts /\ restarts' = restarts + 1
  /\ restart' = "shutdown" /\ snapshot' = openDocs /\ disturbed' = TRUE
  /\ UNCHANGED <<client, offered, proc, caps, folder, docVars, diagVars, calls, crashes, tool, asking,
                 written, sim, gaps>>
RestartHere == At("restart") /\ Advance(1) /\ SnapshotDocuments
RestartElsewhere ==
  /\ tool # "none" /\ ~At("restart") /\ SnapshotDocuments /\ UNCHANGED <<pc, result>>
\* Bounded: a call that may not restart any more is left to fail.
RestartRefused ==
  /\ At("restart") /\ (restart # "no" \/ restarts = MaxRestarts) /\ Advance(Fail)
  /\ UNCHANGED <<serverVars, docVars, diagVars, countVars, tool, asking, written, sim, gaps, disturbed>>

\* mutant: the open documents outlive the server
ShutdownKeepsDocuments ==
  /\ restart = "shutdown" /\ restart' = "reset"
  /\ proc' = "down" /\ caps' = FALSE
  /\ known' = {} /\ adrift' = {} /\ cache' = "no" /\ pipe' = "no"
  /\ asking' = IF asking = "sent" THEN "lost" ELSE asking
  /\ UNCHANGED <<client, offered, folder, snapshot, openDocs, misled, srv, verified, late, countVars,
                 tool, pc, result, written, sim, gaps, disturbed>>

ShutdownAndReset ==
  /\ restart = "shutdown" /\ restart' = "reset"
  /\ proc' = "down" /\ caps' = FALSE
  /\ openDocs' = {} /\ known' = {} /\ adrift' = {} /\ cache' = "no" /\ pipe' = "no"
  /\ asking' = IF asking = "sent" THEN "lost" ELSE asking
  /\ UNCHANGED <<client, offered, folder, snapshot, misled, srv, verified, late, countVars, tool, pc,
                 result, written, sim, gaps, disturbed>>

StartProcess ==
  /\ restart = "reset" /\ restart' = "handshake" /\ proc' = "starting"
  /\ UNCHANGED <<client, offered, caps, folder, snapshot, docVars, diagVars, countVars, tool, pc,
                 asking, result, written, sim, gaps, disturbed>>

\* The folders are reset to the root; a failure gives the snapshot up.
Initialize ==
  /\ restart = "handshake"
  /\ \/ proc = "starting" /\ proc' = "up" /\ caps' = TRUE /\ folder' = "no" /\ restart' = "replay"
        /\ UNCHANGED snapshot
     \/ restart' = "no" /\ snapshot' = {} /\ UNCHANGED <<proc, caps, folder>>
  /\ UNCHANGED <<client, offered, docVars, diagVars, countVars, tool, pc, asking, result, written,
                 sim, gaps, disturbed>>

\* One document of the snapshot: skipped when it cannot be read, else opened; the
\* entry is taken back when the notification cannot be sent.
ReplayOpenDocument ==
  /\ restart = "replay"
  /\ \E d \in snapshot :
       /\ snapshot' = snapshot \ {d}
       /\ \/ UNCHANGED <<docVars, srv>>
          \/ Sent /\ OpenDocument(d)
          \/ ~Sent /\ openDocs' = openDocs \ {d} /\ adrift' = adrift \ {d} /\ UNCHANGED <<known, misled, srv>>
  /\ UNCHANGED <<client, offered, proc, caps, folder, restart, pipe, cache, verified, late, countVars,
                 tool, pc, asking, result, written, sim, gaps, disturbed>>

RestartDone ==
  /\ restart = "replay" /\ snapshot = {} /\ restart' = "no"
  /\ UNCHANGED <<client, offered, proc, caps, folder, snapshot, docVars, diagVars, countVars, tool, pc,
                 asking, result, written, sim, gaps, disturbed>>

\* restart_lsp_server reports how its restart ended.
Restarted ==
  /\ At("restarted") /\ restart = "no" /\ Advance(IF caps THEN 1 ELSE Fail)
  /\ UNCHANGED <<serverVars, docVars, diagVars, countVars, tool, asking, written, sim, gaps, disturbed>>

Crash ==
  /\ proc # "down" /\ crashes < MaxCrashes /\ crashes' = crashes + 1
  /\ proc' = "down" /\ known' = {}
  /\ UNCHANGED <<client, offered, caps, folder, restart, snapshot, openDocs, adrift, misled, diagVars,
                 calls, restarts, tool, pc, asking, result, written, sim, gaps, disturbed>>

\* The server publishes what it found in the text it holds; the read loop caches it.
Verifies == \E i \in 1..Len(Handlers[tool]) : Handlers[tool][i].do = "count"
Publish ==
  /\ pc > 0 /\ proc = "up" /\ "file" \in known /\ pipe = "no" /\ Verifies /\ pipe' = srv
  /\ UNCHANGED <<serverVars, docVars, srv, cache, verified, late, countVars, tool, pc, asking, result,
                 written, sim, gaps, disturbed>>
CachePublication ==
  /\ pipe # "no" /\ cache' = pipe /\ pipe' = "no"
  /\ UNCHANGED <<serverVars, docVars, srv, verified, late, countVars, tool, pc, asking, result,
                 written, sim, gaps, disturbed>>

HandlersNext ==
  \/ StartLsp \/ StartCall \/ CheckClient \/ Decide \/ WithDocument
  \/ CheckCapability \/ WorkspaceReady \/ SendRequest \/ RequestAnswered \/ RequestFailed
  \/ ApplyWorkspaceEdit \/ ResetDiagnostics \/ CloseForReopen \/ ReopenDocument
  \/ HasPublishedDiagnostics \/ CloseDocument \/ AddWorkspaceFolder \/ RemoveWorkspaceFolder
  \/ DidChangeWatchedFiles \/ SessionManager
  \/ RestartHere \/ RestartElsewhere \/ RestartRefused \/ ShutdownAndReset \/ StartProcess
  \/ Initialize \/ ReplayOpenDocument \/ RestartDone \/ Restarted
  \/ Crash \/ Publish \/ CachePublication

(***************************************************************************)
(* Properties                                                              *)
(***************************************************************************)

\* An answer of "nothing" is the server's: a tool that ends well without a
\* result, or deletes a symbol because nothing refers to it, had each of its
\* questions answered or the server does not offer them. Calls during which the
\* server was being restarted are left out (the README shows what they may do).
AbsenceIsAnswered ==
  (result = "empty" \/ (tool = "safe_delete_symbol" /\ written)) /\ ~disturbed => gaps = {}

\* A fresh server receives didOpen, not didChange, for every document (Restart,
\* OpenDocument and ReopenDocument keep openDocs in step with the server), unless
\* the didOpen itself was lost on a server that was down or starting.
ChangesFollowOpen == misled = {}

\* "Verified" diagnostics after an edit are about the edited text, unless a
\* publication of the old text was already on its way when the cache was dropped
\* or a restart ran (getDiagnosticsForFileStatus).
VerifiedIsAfterEdit == verified /\ ~late /\ ~disturbed => cache = "new"

\* preview_edit never leaves its simulated text at the server nor its session
\* behind, unless discarding it failed, and then it says so.
PreviewLeavesNothing ==
  /\ sim # "leaked"
  /\ tool = "preview_edit" /\ result # "none" => sim = "no"
=============================================================================
