---------------------------- MODULE ToolsProofs ----------------------------
(***************************************************************************)
(* What a tool says of an absence, of clean diagnostics and of the text it  *)
(* verified, and what a preview leaves behind, for any number of calls,     *)
(* crashes, restarts, documents, publications and servers.  One inductive   *)
(* invariant for each part of Tools: get_diagnostics, find_symbol, the       *)
(* scripts of the handlers, whose steps are first read off the scripts, and *)
(* blast_radius.                                                            *)
(***************************************************************************)
EXTENDS Tools, FiniteSetTheorems, WellFoundedInduction, TLAPS

(* get_diagnostics *)

Entry == {"absent"} \cup Answer

VerdictTypes ==
  /\ vpc \in {"idle", "start", "wait", "pull", "pulling", "done", "error"}
  /\ queried \subseteq Document
  /\ diags \in [Document -> {"never"} \cup Answer]
  /\ diagMap \in [Document -> Entry] /\ pulledAs \in [Document -> Entry]
  /\ toPull \subseteq Document /\ pulling \subseteq Document /\ pulledLive \subseteq Document

\* A document is pulled at most once, and only the pulling state has a pull pending.
PulledOnce ==
  /\ toPull \cap pulling = {} /\ toPull \cap pulledLive = {} /\ pulling \cap pulledLive = {}
  /\ vpc # "pulling" => pulling = {}
  /\ \A d, e \in pulling : d = e
  /\ vpc \in {"idle", "start", "wait"} => toPull = {} /\ pulledLive = {}

\* The entry of a document is what the pull that verified it answered, and else
\* has the errors last published, unless they came after it was read.
EntriesAreCurrent ==
  /\ \A d \in pulledLive : diagMap[d] = pulledAs[d] /\ pulledAs[d] \in Answer
  /\ vpc \in {"pull", "pulling", "done"} =>
       \A d \in queried \ (pulledLive \cup pulling \cup overtaken) :
         diags[d] = "errors" => diagMap[d] = "errors"

\* The hint is the last step, and does not say safe over an entry with errors.
HintIsLast ==
  /\ verdict # "none" => vpc = "done"
  /\ verdict \in {"safe", "partly"} => \A d \in Document : diagMap[d] # "errors"

VerdictInv == VerdictTypes /\ PulledOnce /\ EntriesAreCurrent /\ HintIsLast

LEMMA InvIsSafe == VerdictInv => SafeIsClean
  BY DEF VerdictInv, VerdictTypes, PulledOnce, EntriesAreCurrent, HintIsLast, SafeIsClean,
     Entry, Answer

LEMMA InitVerdict == VerdictInit => VerdictInv
  BY DEF VerdictInit, VerdictInv, VerdictTypes, PulledOnce, EntriesAreCurrent, HintIsLast,
     Entry, Answer

-----------------------------------------------------------------------------
(* One lemma per step that changes what the invariant relates *)

LEMMA ReadStep ==
  ASSUME VerdictInv, ReadDiagnostics
  PROVE  VerdictInv'
  <1>1. vpc = "wait" /\ vpc' = "pull" /\ verdict = "none"
    BY DEF ReadDiagnostics, VerdictInv, HintIsLast
  <1>2. VerdictTypes'
    BY DEF ReadDiagnostics, VerdictInv, VerdictTypes, queryVars, Cached, HasPublished, Entry, Answer
  <1>3. PulledOnce'
    BY <1>1 DEF ReadDiagnostics, VerdictInv, PulledOnce
  <1>4. EntriesAreCurrent'
    <2>1. pulledLive' = {}
      BY <1>1 DEF ReadDiagnostics, VerdictInv, PulledOnce
    <2>2. ASSUME NEW d \in queried, diags[d] = "errors" PROVE diagMap'[d] = "errors"
      BY <2>2 DEF ReadDiagnostics, VerdictInv, VerdictTypes, Cached, HasPublished
    <2>. QED BY <2>1, <2>2 DEF ReadDiagnostics, EntriesAreCurrent, queryVars
  <1>5. HintIsLast'
    BY <1>1 DEF ReadDiagnostics, HintIsLast
  <1>. QED BY <1>2, <1>3, <1>4, <1>5 DEF VerdictInv

LEMMA PullStep ==
  ASSUME VerdictInv, Pull
  PROVE  VerdictInv'
  <1>. PICK d \in toPull :
         /\ vpc = "pull" /\ vpc' = "pulling" /\ pulling' = {d} /\ toPull' = toPull \ {d}
         /\ UNCHANGED <<queryVars, diags, diagMap, pulledLive, pulledAs, verdictVars, overtaken>>
    BY DEF Pull
  <1>1. VerdictTypes'
    BY DEF VerdictInv, VerdictTypes, queryVars
  <1>2. PulledOnce'
    BY DEF VerdictInv, PulledOnce
  <1>3. EntriesAreCurrent'
    BY DEF VerdictInv, EntriesAreCurrent, PulledOnce, queryVars
  <1>4. HintIsLast'
    BY DEF VerdictInv, HintIsLast, verdictVars
  <1>. QED BY <1>1, <1>2, <1>3, <1>4 DEF VerdictInv

LEMMA PullEndsStep ==
  ASSUME VerdictInv, PullEnds
  PROVE  VerdictInv'
  <1>1. PICK d \in pulling, answer \in Answer \cup {"failed"} :
          /\ vpc = "pulling" /\ vpc' = "pull" /\ pulling' = {}
          /\ IF PushWins(d)
             THEN /\ diagMap' = [diagMap EXCEPT ![d] = Cached(d)] /\ overtaken' = overtaken \ {d}
                  /\ UNCHANGED <<pulledLive, pulledAs>>
             ELSE IF answer = "failed" THEN UNCHANGED <<diagMap, overtaken, pulledLive, pulledAs>>
             ELSE /\ diagMap' = [diagMap EXCEPT ![d] = answer] /\ overtaken' = overtaken \ {d}
                  /\ pulledLive' = pulledLive \cup {d} /\ pulledAs' = [pulledAs EXCEPT ![d] = answer]
          /\ queried' = queried /\ diags' = diags /\ toPull' = toPull /\ verdict' = verdict
    BY DEF PullEnds, queryVars, verdictVars
  <1>2. /\ d \in Document /\ pulling = {d} /\ d \notin pulledLive /\ d \notin toPull
        /\ verdict = "none" /\ Cached(d) \in Answer
    BY <1>1 DEF VerdictInv, VerdictTypes, PulledOnce, HintIsLast, Cached, HasPublished, Answer
  <1>3. CASE PushWins(d)
    <2>1. /\ diagMap' = [diagMap EXCEPT ![d] = diags[d]] /\ overtaken' = overtaken \ {d}
          /\ UNCHANGED <<pulledLive, pulledAs>> /\ diags[d] \in Answer
      BY <1>1, <1>2, <1>3 DEF PushWins, Cached, HasPublished
    <2>2. VerdictTypes' /\ PulledOnce' /\ HintIsLast'
      BY <1>1, <1>2, <2>1 DEF VerdictInv, VerdictTypes, PulledOnce, HintIsLast, Entry
    <2>3. EntriesAreCurrent'
      BY <1>1, <1>2, <2>1 DEF VerdictInv, VerdictTypes, EntriesAreCurrent
    <2>. QED BY <2>2, <2>3 DEF VerdictInv
  <1>4. CASE ~PushWins(d) /\ answer = "failed"
    <2>1. UNCHANGED <<diagMap, overtaken, pulledLive, pulledAs>> /\ diags[d] = "never"
      BY <1>1, <1>4 DEF PushWins, HasPublished
    <2>2. VerdictTypes' /\ PulledOnce' /\ HintIsLast'
      BY <1>1, <1>2, <2>1 DEF VerdictInv, VerdictTypes, PulledOnce, HintIsLast
    <2>3. EntriesAreCurrent'
      BY <1>1, <1>2, <2>1 DEF VerdictInv, EntriesAreCurrent
    <2>. QED BY <2>2, <2>3 DEF VerdictInv
  <1>5. CASE ~PushWins(d) /\ answer # "failed"
    <2>1. /\ diagMap' = [diagMap EXCEPT ![d] = answer] /\ overtaken' = overtaken \ {d}
          /\ pulledLive' = pulledLive \cup {d} /\ pulledAs' = [pulledAs EXCEPT ![d] = answer]
          /\ answer \in Answer
      BY <1>1, <1>5
    <2>2. VerdictTypes' /\ PulledOnce' /\ HintIsLast'
      BY <1>1, <1>2, <2>1 DEF VerdictInv, VerdictTypes, PulledOnce, HintIsLast, Entry
    <2>3. EntriesAreCurrent'
      BY <1>1, <1>2, <2>1 DEF VerdictInv, VerdictTypes, EntriesAreCurrent
    <2>. QED BY <2>2, <2>3 DEF VerdictInv
  <1>. QED BY <1>3, <1>4, <1>5

LEMMA HintStep ==
  ASSUME VerdictInv, DiagnosticsHint
  PROVE  VerdictInv'
  <1>1. /\ vpc = "pull" /\ vpc' = "done"
        /\ verdict' \in {"safe", "partly"} => \A d \in Document : diagMap[d] # "errors"
        /\ UNCHANGED <<queried, diags, diagMap, toPull, pulling, pulledLive, pulledAs, overtaken>>
    BY DEF DiagnosticsHint, queryVars, pullVars
  <1>. QED BY <1>1 DEF VerdictInv, VerdictTypes, PulledOnce, EntriesAreCurrent, HintIsLast

\* A publication is either before the entries are read, or overtakes them, or is
\* about the document whose pull is pending.
LEMMA PublishStep ==
  ASSUME VerdictInv, PublishDiagnostics
  PROVE  VerdictInv'
  <1>1. PICK d \in Document, found \in Answer :
          /\ vpc \notin {"idle", "done", "error"} /\ vpc' = vpc
          /\ diags' = [diags EXCEPT ![d] = found]
          /\ overtaken' = IF vpc \in {"pull", "pulling"} /\ d \notin pulling
                          THEN overtaken \cup {d} ELSE overtaken
          /\ UNCHANGED <<queried, diagMap, toPull, pulling, pulledLive, pulledAs, verdict>>
    BY DEF PublishDiagnostics, queryVars, pullVars, verdictVars
  <1>2. VerdictTypes' /\ PulledOnce' /\ HintIsLast'
    BY <1>1 DEF VerdictInv, VerdictTypes, PulledOnce, HintIsLast
  <1>3. EntriesAreCurrent'
    BY <1>1 DEF VerdictInv, VerdictTypes, EntriesAreCurrent
  <1>. QED BY <1>2, <1>3 DEF VerdictInv

LEMMA DropStep ==
  ASSUME VerdictInv, DropCached
  PROVE  VerdictInv'
  <1>1. PICK d \in Document :
          /\ vpc' = vpc /\ diags' = [diags EXCEPT ![d] = "never"]
          /\ UNCHANGED <<queried, diagMap, toPull, pulling, pulledLive, pulledAs, verdict, overtaken>>
    BY DEF DropCached, queryVars, pullVars, verdictVars
  <1>. QED BY <1>1 DEF VerdictInv, VerdictTypes, PulledOnce, EntriesAreCurrent, HintIsLast

LEMMA NextVerdict == VerdictInv /\ [VerdictNext]_vVars => VerdictInv'
  <1> SUFFICES ASSUME VerdictInv, [VerdictNext]_vVars PROVE VerdictInv'
    OBVIOUS
  <1>1. CASE GetDiagnosticsCalled \/ HandleGetDiagnostics \/ WaitForDiagnosticsFails
    BY <1>1 DEF GetDiagnosticsCalled, HandleGetDiagnostics, WaitForDiagnosticsFails, queryVars,
       pullVars, verdictVars, VerdictInv, VerdictTypes, PulledOnce, EntriesAreCurrent, HintIsLast
  <1>2. CASE SkipPublished \/ BudgetOver \/ SkipTheRest \/ ClassifyDiagnosticsChannel
    BY <1>2 DEF SkipPublished, BudgetOver, SkipTheRest, ClassifyDiagnosticsChannel, queryVars,
       pullVars, verdictVars, VerdictInv, VerdictTypes, PulledOnce, EntriesAreCurrent, HintIsLast
  <1>3. CASE UNCHANGED vVars
    BY <1>3 DEF vVars, VerdictInv, VerdictTypes, PulledOnce, EntriesAreCurrent, HintIsLast
  <1>. QED BY <1>1, <1>2, <1>3, ReadStep, PullStep, PullEndsStep, HintStep, PublishStep, DropStep
           DEF VerdictNext

-----------------------------------------------------------------------------
(* find_symbol *)

SearchTypes ==
  /\ zpc \in {"idle", "start", "fanout", "note", "enrich", "done", "error"}
  /\ zpc # "idle" => clients \in ClientLists
  /\ initialized \in [Servers -> BOOLEAN] /\ declares \in [Servers -> BOOLEAN]
  /\ index \in [Servers -> {"whole", "opened", "some"}]
  /\ outcome \in [Servers -> {"none", "queued", "asked", "answered", "errored", "timedOut"}]

\* Before the result is qualified: a server that was not asked was not initialized
\* then, and one alone was; neither has changed unless it came or went.
SteadyServers ==
  zpc \in {"fanout", "note"} =>
    \A s \in Servers \ unsteady :
      /\ outcome[s] = "none" => ~initialized[s]
      /\ ~Several => initialized[s]

\* When the answers are merged no query is under way, and with one server its
\* failure has been the call's.
QueriesEnded ==
  zpc \in {"note", "enrich", "done"} =>
    /\ \A s \in Servers : outcome[s] \notin {"queued", "asked"}
    /\ ~Several /\ merged = <<>> => \A s \in Servers \ unsteady : outcome[s] = "answered"

EmptyIsSaid ==
  zpc \in {"enrich", "done"} /\ merged = <<>> /\ failureNote = {} /\ emptyCause = "none" =>
    \A s \in Servers \ unsteady : outcome[s] = "answered" /\ (declares[s] => index[s] # "some")

SearchInv == SearchTypes /\ SteadyServers /\ QueriesEnded /\ EmptyIsSaid

LEMMA InitSearch == SearchInit => SearchInv
  <1>. SUFFICES ASSUME SearchInit PROVE SearchInv
    OBVIOUS
  <1>1. Servers = {} /\ zpc = "idle"
    BY DEF SearchInit, Servers
  <1>2. SearchTypes
    BY <1>1 DEF SearchInit, SearchTypes
  <1>. QED BY <1>1, <1>2 DEF SearchInv, SteadyServers, QueriesEnded, EmptyIsSaid

LEMMA OneServer ==
  ASSUME SearchTypes, zpc # "idle", ~Several
  PROVE  \A s, t \in Servers : s = t
  <1>1. Len(clients) \in Nat /\ ~(Len(clients) > 1)
    BY ClientListsAssumption DEF SearchTypes, Several
  <1>. QED BY <1>1 DEF Servers

LEMMA CallStep ==
  ASSUME SearchInv, WorkspaceQueryClients \/ HandleGetWorkspaceSymbolsMulti
  PROVE  SearchInv'
  <1>1. CASE WorkspaceQueryClients
    <2>1. SearchTypes' /\ zpc' = "start"
      BY <1>1 DEF WorkspaceQueryClients, SearchTypes
    <2>. QED BY <2>1 DEF SearchInv, SteadyServers, QueriesEnded, EmptyIsSaid
  <1>2. CASE HandleGetWorkspaceSymbolsMulti
    <2>1. /\ zpc = "start" /\ zpc' \in {"error", "fanout"} /\ (zpc' = "fanout" => Initialized # {})
          /\ UNCHANGED <<clients, declares, index, initialized, unsteady>>
          /\ Servers' = Servers /\ Several' = Several
          /\ outcome' = [s \in Servers |-> IF s \notin Initialized THEN "none"
                                           ELSE IF Several THEN "queued" ELSE "asked"]
      BY <1>2 DEF HandleGetWorkspaceSymbolsMulti, serversVars, changeVars, Servers, Several
    <2>2. SearchTypes'
      BY <2>1 DEF SearchInv, SearchTypes
    <2>3. SteadyServers'
      <3>1. ASSUME NEW s \in Servers, outcome'[s] = "none" PROVE ~initialized[s]
        BY <3>1, <2>1 DEF Initialized
      <3>2. ASSUME zpc' = "fanout", ~Several, NEW s \in Servers PROVE initialized[s]
        BY <3>2, <2>1, OneServer DEF Initialized, SearchInv
      <3>. QED BY <2>1, <3>1, <3>2 DEF SteadyServers
    <2>. QED BY <2>1, <2>2, <2>3 DEF SearchInv, QueriesEnded, EmptyIsSaid
  <1>. QED BY <1>1, <1>2

\* While the queries run: a query moves on, or a server comes or goes.
LEMMA FanoutStep ==
  ASSUME SearchInv, TakeSlot \/ QueryAnswered \/ QueryEnds \/ CallerGone \/ ServerExitsOrReturns
  PROVE  SearchInv'
  <1>1. /\ UNCHANGED <<clients, declares, index, merged, failureNote, emptyCause>>
        /\ zpc' \in {zpc, "error"} /\ Servers' = Servers /\ Several' = Several
    BY DEF TakeSlot, QueryAnswered, QueryEnds, CallerGone, ServerExitsOrReturns, serversVars,
       noteVars, Servers, Several
  <1>2. CASE TakeSlot \/ QueryAnswered \/ QueryEnds \/ CallerGone
    <2>1. /\ zpc = "fanout" /\ UNCHANGED <<initialized, unsteady>>
          /\ \/ outcome' = outcome
             \/ \E s \in Servers, how \in {"asked", "answered", "errored", "timedOut"} :
                  outcome[s] \in {"queued", "asked"} /\ outcome' = [outcome EXCEPT ![s] = how]
      BY <1>2 DEF TakeSlot, QueryAnswered, QueryEnds, CallerGone, changeVars, Ended
    <2>2. SearchTypes'
      BY <1>1, <2>1 DEF SearchInv, SearchTypes
    <2>3. SteadyServers'
      BY <1>1, <2>1 DEF SearchInv, SearchTypes, SteadyServers
    <2>. QED BY <1>1, <2>1, <2>2, <2>3 DEF SearchInv, QueriesEnded, EmptyIsSaid
  <1>3. CASE ServerExitsOrReturns
    <2>1. PICK s \in Servers :
            /\ zpc \in {"fanout", "note"} /\ zpc' = zpc /\ outcome' = outcome
            /\ initialized' = [initialized EXCEPT ![s] = ~@] /\ unsteady' = unsteady \cup {s}
      BY <1>3 DEF ServerExitsOrReturns
    <2>. QED BY <1>1, <2>1 DEF SearchInv, SearchTypes, SteadyServers, QueriesEnded, EmptyIsSaid
  <1>. QED BY <1>2, <1>3

\* The one server that failed is the whole count, so its failure ends the call.
LEMMA MergeStep ==
  ASSUME SearchInv, MergeAnswers
  PROVE  SearchInv'
  <1>. DEFINE Silent == Ended("errored") \cup Ended("timedOut")
  <1>1. /\ zpc = "fanout" /\ Ended("queued") = {} /\ Ended("asked") = {}
        /\ zpc' \in {"error", "note"}
        /\ UNCHANGED <<clients, declares, index, initialized, unsteady, outcome>>
        /\ Servers' = Servers /\ Several' = Several
    BY DEF MergeAnswers, serversVars, changeVars, Servers, Several
  <1>2. PICK all :
          /\ zpc' = IF all = <<>> /\ Cardinality(Silent) = Cardinality(Initialized)
                       /\ Cardinality(Initialized) > 0 THEN "error" ELSE "note"
          /\ merged' = IF Cardinality(Initialized) > 1 THEN Deduplicate(all) ELSE all
    BY DEF MergeAnswers
  <1>3. SearchTypes' /\ SteadyServers'
    BY <1>1 DEF SearchInv, SearchTypes, SteadyServers
  <1>4. ASSUME zpc' = "note", ~Several, merged' = <<>>, NEW s \in Servers \ unsteady
        PROVE  outcome[s] = "answered"
    <2>1. initialized[s] /\ outcome[s] \notin {"none", "queued", "asked"}
      BY <1>1, <1>4 DEF SearchInv, SteadyServers, Ended
    <2>2. Initialized = {s} /\ Cardinality(Initialized) = 1
      <3>1. \A t \in Servers : t = s
        BY <1>1, <1>4, OneServer DEF SearchInv
      <3>2. Initialized = {s}
        BY <2>1, <3>1 DEF Initialized
      <3>. QED BY <3>2, FS_Singleton
    <2>3. CASE outcome[s] \in {"errored", "timedOut"}
      <3>1. Silent = Initialized
        BY <2>1, <2>2, <2>3, <1>1, <1>4, OneServer DEF Ended, SearchInv
      <3>2. ~(Cardinality(Initialized) > 1) /\ Cardinality(Initialized) > 0
        BY <2>2
      <3>3. Cardinality(Silent) = Cardinality(Initialized)
        BY <3>1
      <3>4. all = <<>>
        BY <1>2, <1>4, <3>2
      <3>5. zpc' = "error"
        BY <1>2, <3>2, <3>3, <3>4
      <3>. QED BY <3>5, <1>4
    <2>. QED BY <2>1, <2>3, <1>4 DEF SearchInv, SearchTypes
  <1>5. QueriesEnded'
    BY <1>1, <1>4 DEF QueriesEnded, Ended
  <1>. QED BY <1>1, <1>3, <1>5 DEF SearchInv, EmptyIsSaid

\* An unqualified empty result: no server is to be named, and none of those that
\* are initialized indexes a part.
LEMMA QualifyStep ==
  ASSUME SearchInv, QualifyResult
  PROVE  SearchInv'
  <1>1. /\ zpc = "note" /\ zpc' \in {"done", "enrich"} /\ failureNote' = NamedInNote
        /\ UNCHANGED <<clients, declares, index, initialized, unsteady, outcome, merged>>
        /\ Servers' = Servers /\ Several' = Several
    BY DEF QualifyResult, serversVars, changeVars, Servers, Several
  <1>2. merged = <<>> /\ emptyCause' = "none" =>
          \A s \in Initialized : declares[s] => index[s] # "some"
    BY DEF QualifyResult, CoverageCaveat
  <1>3. SearchTypes' /\ SteadyServers' /\ QueriesEnded'
    BY <1>1 DEF SearchInv, SearchTypes, SteadyServers, QueriesEnded
  <1>4. ASSUME merged = <<>>, failureNote' = {}, emptyCause' = "none", NEW s \in Servers \ unsteady
        PROVE  outcome[s] = "answered" /\ (declares[s] => index[s] # "some")
    <2>1. CASE Several
      <3>1. s \in Initialized /\ outcome[s] \notin {"errored", "timedOut"}
        BY <1>1, <1>4, <2>1 DEF NamedInNote, Ended, Initialized
      <3>2. outcome[s] \notin {"none", "queued", "asked"}
        BY <1>1, <1>4, <3>1 DEF SearchInv, SteadyServers, QueriesEnded, Initialized
      <3>. QED BY <1>2, <1>4, <3>1, <3>2 DEF SearchInv, SearchTypes
    <2>2. CASE ~Several
      BY <1>1, <1>2, <1>4, <2>2 DEF SearchInv, SteadyServers, QueriesEnded, Initialized
    <2>. QED BY <2>1, <2>2
  <1>. QED BY <1>1, <1>3, <1>4 DEF SearchInv, EmptyIsSaid

LEMMA EnrichStep ==
  ASSUME SearchInv, Enrich \/ UNCHANGED zVars
  PROVE  SearchInv'
  <1>1. /\ UNCHANGED <<clients, declares, index, initialized, unsteady, outcome, merged, failureNote,
                       emptyCause>>
        /\ zpc' = zpc \/ (zpc = "enrich" /\ zpc' = "done")
        /\ Servers' = Servers /\ Several' = Several
    BY DEF Enrich, zVars, serversVars, changeVars, noteVars, Servers, Several
  <1>. QED BY <1>1 DEF SearchInv, SearchTypes, SteadyServers, QueriesEnded, EmptyIsSaid

LEMMA NextSearch == SearchInv /\ [SearchNext]_zVars => SearchInv'
  BY CallStep, FanoutStep, MergeStep, QualifyStep, EnrichStep DEF SearchNext

LEMMA SearchInvHolds == SearchInv => NotFoundIsSaid
  BY DEF SearchInv, EmptyIsSaid, NotFoundIsSaid

-----------------------------------------------------------------------------
(* The scripts of the handlers *)

\* where the outcomes of a step lead
Outs(h) ==
  CASE h.do = "local" -> h.to
    [] h.do = "ask" -> {h.err, h.none, h.some}
    [] h.do \in {"open", "addFolder"} -> {1, h.err}
    [] h.do = "didClose" -> {1, 2}
    [] h.do = "manager" -> {h.ok, h.err}
    [] OTHER -> {1, Fail}

\* the tools that write a file and look at its diagnostics, and where they write
EditTool == {"replace_symbol_body", "insert_after_symbol", "insert_before_symbol",
             "safe_delete_symbol", "rename_symbol", "refactor"}
WriteAt(t) == CASE t = "safe_delete_symbol" -> 7
                [] t \in {"rename_symbol", "refactor"} -> 10
                [] OTHER -> 9

\* s writes at w, having checked the client first; nothing leads past the write but
\* the write, and what follows is the verification of the file and then another's.
EditShape(s, w) ==
  /\ Len(s) >= w + 4
  /\ s[1].do = "client" /\ s[w].do = "write" /\ s[w + 1].do = "reset"
  /\ s[w + 2].do = "didClose" /\ s[w + 3].do = "didOpen" /\ s[w + 4].do = "count"
  /\ \A i \in 1..Len(s) :
       /\ i < w => s[i].do \notin {"write", "reset", "count"} /\ \A n \in Outs(s[i]) : i + n <= w
       /\ i > w + 4 => s[i].do \in {"local", "didClose", "didOpen"}

RequestType == {GetInfoOnLocation, GetCompletion, GetSignatureHelp, GetCodeActions,
   GetDocumentSymbols, GetWorkspaceSymbols, GetDefinition, GetTypeDefinition, GetImplementation,
   GetDeclaration, GetReferences, GetReferencesRaw, PrepareCallHierarchy, GetIncomingCalls,
   GetOutgoingCalls, PrepareTypeHierarchy, GetSupertypes, GetSubtypes, GetInlayHints,
   GetSemanticTokensRequest, DocumentHighlights, FormatDocument, FormatRange, RenameSymbol,
   PrepareRename, ExecuteCommand, ResolveCommand, ListEnumOptions}
\* a question whose answer is what the tool reports ends the call when it fails
MustAsk == [do : {"ask"}, method : RequestType, must : {TRUE}, err : {Fail}, none : Int, some : Int]
MayAsk == [do : {"ask"}, method : RequestType, must : {FALSE}, err : Int, none : Int, some : Int]
PlainStep ==
  [do : {"client", "write", "close", "restart", "restarted", "removeFolder", "notify"}]
  \cup [do : {"local"}, to : SUBSET Int]
  \cup [do : {"open"}, doc : Doc, err : Int] \cup [do : {"didClose", "didOpen"}, doc : Doc]
  \cup [do : {"addFolder"}, err : Int]
  \cup MustAsk \cup MayAsk
ManagerStep ==
  [do : {"manager"}, op : {"create", "edit", "evaluate", "discard", "destroy"}, ok : Int, err : Int]
VerifyStep == [do : {"reset", "count"}]
Script == {s \in Seq(PlainStep) : Len(s) > 0}
EditScript == {s \in Seq(PlainStep \cup VerifyStep) : Len(s) > 0}

LEMMA Outcomes == Done \in Int /\ Found \in Int /\ Fail \in Int
  BY DEF Done, Found, Fail

LEMMA PlainSteps ==
  /\ \A w \in {"client", "write", "close", "restart", "restarted", "removeFolder", "notify"} :
        [do |-> w] \in PlainStep
  /\ \A to \in SUBSET Int : Local(to) \in PlainStep
  /\ \A d \in Doc : /\ Open(d) \in PlainStep /\ \A e \in Int : OpenAgain(d, e) \in PlainStep
                    /\ [do |-> "didClose", doc |-> d] \in PlainStep
                    /\ [do |-> "didOpen", doc |-> d] \in PlainStep
  /\ \A e \in Int : [do |-> "addFolder", err |-> e] \in PlainStep
  /\ \A m \in RequestType, n, s \in Int : Ask(m, n, s) \in PlainStep
  /\ \A m \in RequestType, e, n, s \in Int : Try(m, e, n, s) \in PlainStep
  <1>1. \A w \in {"client", "write", "close", "restart", "restarted", "removeFolder", "notify"} :
             [do |-> w] \in PlainStep
    BY DEF PlainStep
  <1>2. \A to \in SUBSET Int : Local(to) \in PlainStep
    BY DEF PlainStep, Local
  <1>3. \A d \in Doc : /\ Open(d) \in PlainStep /\ \A e \in Int : OpenAgain(d, e) \in PlainStep
                       /\ [do |-> "didClose", doc |-> d] \in PlainStep
                       /\ [do |-> "didOpen", doc |-> d] \in PlainStep
    BY Outcomes DEF PlainStep, Open, OpenAgain
  <1>4. \A e \in Int : [do |-> "addFolder", err |-> e] \in PlainStep
    BY DEF PlainStep
  <1>5. /\ \A m \in RequestType, n, s \in Int : Ask(m, n, s) \in PlainStep
        /\ \A m \in RequestType, e, n, s \in Int : Try(m, e, n, s) \in PlainStep
    <2>1. ASSUME NEW m \in RequestType, NEW n \in Int, NEW s \in Int
          PROVE  Ask(m, n, s) \in MustAsk /\ \A e \in Int : Try(m, e, n, s) \in MayAsk
      BY DEF Ask, Try, MustAsk, MayAsk
    <2>. QED BY <2>1 DEF PlainStep
  <1>. QED BY <1>1, <1>2, <1>3, <1>4, <1>5

\* the steps by which most scripts begin and end
LEMMA CommonSteps ==
  /\ CheckInitialized \in PlainStep /\ Args \in PlainStep /\ Write \in PlainStep
  /\ Open("file") \in PlainStep /\ Open("other") \in PlainStep
  /\ \A w \in {"client", "write", "close", "restart", "restarted", "removeFolder", "notify"} :
        Step(w) \in PlainStep
  /\ \A d \in Doc : Reopen(d) \in EditScript
  /\ GetDiagnosticsForFileStatus \in EditScript /\ VerifyWorkspaceEditChannels \in EditScript
  <1>1. {1, Fail} \in SUBSET Int /\ {1, Found} \in SUBSET Int
    BY Outcomes
  <1>2. /\ CheckInitialized \in PlainStep /\ Args \in PlainStep /\ Write \in PlainStep
        /\ Open("file") \in PlainStep /\ Open("other") \in PlainStep
        /\ \A w \in {"client", "write", "close", "restart", "restarted", "removeFolder", "notify"} :
             Step(w) \in PlainStep
    BY <1>1, PlainSteps DEF CheckInitialized, Args, Write, Step, Doc
  <1>3. \A d \in Doc : Reopen(d) \in EditScript
    <2>1. \A a, b \in PlainStep : <<a, b>> \in EditScript
      BY DEF EditScript
    <2>. QED BY <2>1, PlainSteps DEF Reopen
  <1>4. Local({1, Found}) \in PlainStep
    BY <1>1, PlainSteps
  <1>5. Step("reset") \in VerifyStep /\ Step("count") \in VerifyStep
    BY DEF Step, VerifyStep
  <1>6. GetDiagnosticsForFileStatus \in EditScript /\ VerifyWorkspaceEditChannels \in EditScript
    BY <1>3, <1>4, <1>5
       DEF GetDiagnosticsForFileStatus, VerifyWorkspaceEditChannels, EditScript, Doc
  <1>. QED BY <1>2, <1>3, <1>6

LEMMA QueryScripts ==
  /\ {HandleGetInfoOnLocation, HandleGetCompletions, HandleGetSignatureHelp, HandleGetCodeActions,
      HandleGetDocumentSymbols, HandleGetDocumentHighlights, HandleGetInlayHints} \subseteq Script
  /\ {HandleGetSemanticTokens, HandleGoToTypeDefinition, HandleGoToImplementation,
      HandleGoToDeclaration, HandleFormatDocument, HandleFormatRange, HandlePrepareRename}
       \subseteq Script
  <1>1. \A m \in RequestType : Query(m) \in Script
    <2>1. \A m \in RequestType : Ask(m, Done, Found) \in PlainStep
      BY PlainSteps, Outcomes
    <2>. QED BY <2>1, CommonSteps DEF Query, Script
  <1>2. {HandleGetInfoOnLocation, HandleGetCompletions, HandleGetSignatureHelp,
         HandleGetCodeActions, HandleGetDocumentSymbols, HandleGetDocumentHighlights,
         HandleGetInlayHints} \subseteq Script
    BY <1>1 DEF RequestType, HandleGetInfoOnLocation, HandleGetCompletions, HandleGetSignatureHelp,
       HandleGetCodeActions, HandleGetDocumentSymbols, HandleGetDocumentHighlights,
       HandleGetInlayHints
  <1>3. {HandleGetSemanticTokens, HandleGoToTypeDefinition, HandleGoToImplementation,
         HandleGoToDeclaration, HandleFormatDocument, HandleFormatRange, HandlePrepareRename}
          \subseteq Script
    BY <1>1 DEF RequestType, HandleGetSemanticTokens, HandleGoToTypeDefinition,
       HandleGoToImplementation, HandleGoToDeclaration, HandleFormatDocument, HandleFormatRange,
       HandlePrepareRename
  <1>. QED BY <1>2, <1>3

LEMMA SearchScripts ==
  {HandleGetReferences, HandleGoToDefinition, HandleCallHierarchy, HandleTypeHierarchy,
   HandleExploreSymbol, HandleGetSymbolSource, HandleGoToSymbol, HandleGetCrossRepoReferences}
    \subseteq Script
  <1>. USE DEF Script
  <1>0. /\ {1, Done} \in SUBSET Int /\ {1, Found} \in SUBSET Int /\ {Found, Fail} \in SUBSET Int
        /\ {1, 2} \in SUBSET Int
    BY Outcomes
  <1>1. \A m \in RequestType : Located(m) \in Script
    <2>1. \A m \in RequestType : FuzzyPositionFallback(m) \in Script
      <3>1. /\ Try(GetInfoOnLocation, Done, Done, 1) \in PlainStep /\ Local({1, Done}) \in PlainStep
            /\ Try(GetWorkspaceSymbols, Done, Done, 1) \in PlainStep
            /\ \A m \in RequestType :
                 Try(m, 1, 1, Found) \in PlainStep /\ Try(m, Done, Done, Found) \in PlainStep
        BY <1>0, PlainSteps, Outcomes DEF RequestType
      <3>. QED BY <3>1 DEF FuzzyPositionFallback
    <2>2. \A m \in RequestType : Ask(m, 1, Found) \in PlainStep
      BY PlainSteps, Outcomes
    <2>. QED BY <2>1, <2>2, CommonSteps DEF Located
  <1>2. \A p, a, b \in RequestType : Hierarchy(p, a, b) \in Script
    <2>1. \A m \in RequestType : /\ Ask(m, Done, 1) \in PlainStep /\ Ask(m, 1, 1) \in PlainStep
                                 /\ Ask(m, Found, Found) \in PlainStep
      BY PlainSteps, Outcomes
    <2>2. Local({1, 2}) \in PlainStep /\ Local({1, Found}) \in PlainStep
      BY <1>0, PlainSteps
    <2>. QED BY <2>1, <2>2, CommonSteps DEF Hierarchy
  <1>3. HandleExploreSymbol \in Script
    <2>1. /\ Ask(GetInfoOnLocation, 1, 1) \in PlainStep
          /\ Try(PrepareCallHierarchy, 2, 2, 1) \in PlainStep
          /\ Try(GetIncomingCalls, 1, 1, 1) \in PlainStep
          /\ Try(GetDocumentSymbols, 1, 1, 1) \in PlainStep
          /\ Try(GetReferences, Done, Done, Found) \in PlainStep
      BY PlainSteps, Outcomes DEF RequestType
    <2>. QED BY <2>1, CommonSteps DEF HandleExploreSymbol
  <1>4. HandleGetSymbolSource \in Script
    <2>1. Ask(GetDocumentSymbols, Fail, 1) \in PlainStep /\ Local({Found, Fail}) \in PlainStep
      BY <1>0, PlainSteps, Outcomes DEF RequestType
    <2>. QED BY <2>1, CommonSteps DEF HandleGetSymbolSource
  <1>5. HandleGoToSymbol \in Script
    <2>1. /\ Ask(GetWorkspaceSymbols, Done, 1) \in PlainStep
          /\ Ask(GetDefinition, Found, Found) \in PlainStep
      BY PlainSteps, Outcomes DEF RequestType
    <2>. QED BY <2>1, CommonSteps DEF HandleGoToSymbol
  <1>6. HandleGetCrossRepoReferences \in Script
    <2>1. /\ [do |-> "addFolder", err |-> 1] \in PlainStep /\ Ask(GetReferences, 1, 3) \in PlainStep
          /\ OpenAgain("file", Done) \in PlainStep /\ OpenAgain("file", Found) \in PlainStep
          /\ Try(GetInfoOnLocation, Done, Done, Done) \in PlainStep
          /\ Try(GetInfoOnLocation, Found, Found, Found) \in PlainStep
      BY PlainSteps, Outcomes DEF RequestType, Doc
    <2>. QED BY <2>1, CommonSteps DEF HandleGetCrossRepoReferences
  <1>7. {GetReferences, GetDefinition, PrepareCallHierarchy, GetIncomingCalls, GetOutgoingCalls,
         PrepareTypeHierarchy, GetSupertypes, GetSubtypes} \subseteq RequestType
    BY DEF RequestType
  <1>. QED BY <1>1, <1>2, <1>3, <1>4, <1>5, <1>6, <1>7
           DEF HandleGetReferences, HandleGoToDefinition, HandleCallHierarchy, HandleTypeHierarchy

LEMMA ImpactScripts == {HandleGetChangeImpact, HandleDetectChanges} \subseteq Script
  <1>. USE DEF Script
  <1>1. /\ {1, Done} \in SUBSET Int /\ {1, Found} \in SUBSET Int /\ {1, Done, Fail} \in SUBSET Int
    BY Outcomes
  <1>2. /\ Local({1, Done}) \in PlainStep /\ Local({1, Found}) \in PlainStep
        /\ Local({1, Done, Fail}) \in PlainStep
        /\ OpenAgain("file", 2) \in PlainStep /\ OpenAgain("other", 2) \in PlainStep
        /\ OpenAgain("other", Found) \in PlainStep
        /\ Try(GetDocumentSymbols, 1, 1, 1) \in PlainStep
        /\ Try(GetReferences, 1, 1, 1) \in PlainStep
        /\ Try(GetReferencesRaw, Found, Found, Found) \in PlainStep
    BY <1>1, PlainSteps, Outcomes DEF RequestType, Doc
  <1>3. HandleGetChangeImpact \in Script
    BY <1>2, CommonSteps DEF HandleGetChangeImpact
  <1>. QED BY <1>2, <1>3, CommonSteps DEF HandleDetectChanges

LEMMA EditScripts ==
  /\ {EditSymbol, HandleSafeDeleteSymbol, HandleRenameSymbol, HandleRefactor} \subseteq EditScript
  /\ {HandleExecuteCommand, HandleApplyEdit} \subseteq Script
  <1>. USE DEF EditScript
  <1>0. /\ {1, Fail} \in SUBSET Int /\ {1, 3} \in SUBSET Int /\ {1, Done} \in SUBSET Int
        /\ {1, Done, Found} \in SUBSET Int /\ {Done, Found, Fail, 1, 3, 4} \in SUBSET Int
        /\ {1, 2} \in SUBSET Int
    BY Outcomes
  <1>1. ResolveInDocument \in EditScript
    <2>1. Ask(GetDocumentSymbols, Fail, 1) \in PlainStep /\ Local({1, Fail}) \in PlainStep
      BY <1>0, PlainSteps, Outcomes DEF RequestType
    <2>. QED BY <2>1, CommonSteps DEF ResolveInDocument
  <1>2. ResolveSymbolByNamePath \in EditScript
    <2>1. /\ Ask(GetWorkspaceSymbols, Fail, 1) \in PlainStep /\ Local({1, Fail}) \in PlainStep
          /\ Local({1, 3}) \in PlainStep
      BY <1>0, PlainSteps, Outcomes DEF RequestType
    <2>. QED BY <1>1, <2>1 DEF ResolveSymbolByNamePath
  <1>3. EditSymbol \in EditScript
    BY <1>2, CommonSteps DEF EditSymbol
  <1>4. HandleSafeDeleteSymbol \in EditScript
    <2>1. Ask(GetReferences, 1, Fail) \in PlainStep
      BY PlainSteps, Outcomes DEF RequestType
    <2>. QED BY <1>1, <2>1, CommonSteps DEF HandleSafeDeleteSymbol
  <1>5. HandleRenameSymbol \in EditScript
    <2>1. RenameWithFuzzyFallback \in EditScript
      <3>1. /\ Try(GetInfoOnLocation, Done, Done, 1) \in PlainStep /\ Local({1, Done}) \in PlainStep
            /\ Try(GetWorkspaceSymbols, Done, Done, 1) \in PlainStep
            /\ Try(RenameSymbol, Done, Done, 1) \in PlainStep
        BY <1>0, PlainSteps, Outcomes DEF RequestType
      <3>. QED BY <3>1 DEF RenameWithFuzzyFallback
    <2>2. Ask(RenameSymbol, 1, 5) \in PlainStep /\ Local({1, Done, Found}) \in PlainStep
      BY <1>0, PlainSteps, Outcomes DEF RequestType
    <2>. QED BY <2>1, <2>2, CommonSteps DEF HandleRenameSymbol
  <1>6. HandleRefactor \in EditScript
    <2>1. /\ Ask(GetCodeActions, 1, 1) \in PlainStep /\ Ask(ResolveCommand, 2, 1) \in PlainStep
          /\ Local({Done, Found, Fail, 1, 3, 4}) \in PlainStep
          /\ Try(ListEnumOptions, Found, Found, Found) \in PlainStep
          /\ ExecuteCommandCapturingEdits \in PlainStep /\ Local({1, Done, Found}) \in PlainStep
      BY <1>0, PlainSteps, Outcomes DEF RequestType, ExecuteCommandCapturingEdits
    <2>. QED BY <2>1, CommonSteps DEF HandleRefactor
  <1>7. HandleExecuteCommand \in Script
    <2>1. /\ Local({1, 2}) \in PlainStep /\ Try(ResolveCommand, 1, 1, Fail) \in PlainStep
          /\ Ask(ExecuteCommand, Done, Found) \in PlainStep
      BY <1>0, PlainSteps, Outcomes DEF RequestType
    <2>. QED BY <2>1, CommonSteps DEF HandleExecuteCommand, Script
  <1>8. HandleApplyEdit \in Script
    BY CommonSteps DEF HandleApplyEdit, Script
  <1>. QED BY <1>3, <1>4, <1>5, <1>6, <1>7, <1>8

LEMMA OtherScripts ==
  /\ {HandleOpenDocument, HandleCloseDocument, HandleRestartLspServer, HandleAddWorkspaceFolder,
      HandleRemoveWorkspaceFolder, HandleListWorkspaceFolders, HandleDidChangeWatchedFiles,
      HandleGetServerCapabilities, HandleSetLogLevel} \subseteq Script
  /\ {RunToolchain, HandleGetTestsForFile, HandleGetSymbolDocumentation, HandleSessionTool}
       \subseteq Script
  <1>. USE DEF Script
  <1>1. /\ {1, Fail} \in SUBSET Int /\ {Found, Fail} \in SUBSET Int /\ {Found, Done} \in SUBSET Int
    BY Outcomes
  <1>2. /\ Local({1, Fail}) \in PlainStep /\ Local({Found, Fail}) \in PlainStep
        /\ Local({Found, Done}) \in PlainStep /\ [do |-> "addFolder", err |-> Fail] \in PlainStep
    BY <1>1, PlainSteps, Outcomes
  <1>3. {HandleOpenDocument, HandleCloseDocument, HandleRestartLspServer, HandleAddWorkspaceFolder,
         HandleRemoveWorkspaceFolder, HandleListWorkspaceFolders, HandleDidChangeWatchedFiles,
         HandleGetServerCapabilities, HandleSetLogLevel} \subseteq Script
    BY <1>2, CommonSteps DEF HandleOpenDocument, HandleCloseDocument, HandleRestartLspServer,
       HandleAddWorkspaceFolder, HandleRemoveWorkspaceFolder, HandleListWorkspaceFolders,
       HandleDidChangeWatchedFiles, HandleGetServerCapabilities, HandleSetLogLevel
  <1>4. {RunToolchain, HandleGetTestsForFile, HandleGetSymbolDocumentation, HandleSessionTool}
          \subseteq Script
    BY <1>2, CommonSteps DEF RunToolchain, HandleGetTestsForFile, HandleGetSymbolDocumentation,
       HandleSessionTool
  <1>. QED BY <1>3, <1>4

\* the tools whose handlers are of each kind
LEMMA Scripts ==
  /\ \A t \in EditTool : t \in Tool /\ Handlers[t] \in EditScript
  /\ \A t \in Tool \ (EditTool \cup {"preview_edit"}) : Handlers[t] \in Script
  <1>1. \A t \in EditTool : t \in Tool /\ Handlers[t] \in EditScript
    BY EditScripts DEF Tool, Handlers, EditTool, HandleReplaceSymbolBody, HandleInsertAfterSymbol,
       HandleInsertBeforeSymbol
  <1>2. \A t \in Tool \ (EditTool \cup {"preview_edit"}) : Handlers[t] \in Script
    BY QueryScripts, SearchScripts, ImpactScripts, EditScripts, OtherScripts
       DEF Tool, Handlers, EditTool, HandleRunBuild, HandleRunTests
  <1>. QED BY <1>1, <1>2

LEMMA PreviewScript ==
  /\ HandleSimulateEditAtomic \in Seq(PlainStep \cup ManagerStep)
  /\ Handlers["preview_edit"] = HandleSimulateEditAtomic
  <1>1. Manager("create", 1, Fail) \in ManagerStep /\ Manager("edit", 1, 5) \in ManagerStep
    BY Outcomes DEF Manager, ManagerStep
  <1>2. Manager("evaluate", 1, 3) \in ManagerStep /\ Manager("discard", 1, 3) \in ManagerStep
    BY Outcomes DEF Manager, ManagerStep
  <1>3. Manager("destroy", Found, Found) \in ManagerStep /\ Manager("discard", 1, 1) \in ManagerStep
        /\ Manager("destroy", Fail, Fail) \in ManagerStep
    BY Outcomes DEF Manager, ManagerStep
  <1>4. HandleSimulateEditAtomic \in Seq(PlainStep \cup ManagerStep)
    BY <1>1, <1>2, <1>3, CommonSteps DEF HandleSimulateEditAtomic
  <1>. QED BY <1>4 DEF Handlers

LEMMA Lengths == \A t \in Tool : Len(Handlers[t]) \in Nat /\ Len(Handlers[t]) > 0
  <1>1. Len(HandleSimulateEditAtomic) = 8
    BY DEF HandleSimulateEditAtomic
  <1>2. \A s \in Script \cup EditScript : Len(s) \in Nat /\ Len(s) > 0
    BY DEF Script, EditScript
  <1>3. ASSUME NEW t \in Tool PROVE Len(Handlers[t]) \in Nat /\ Len(Handlers[t]) > 0
    <2>1. CASE t = "preview_edit"
      <3>1. Handlers[t] = HandleSimulateEditAtomic
        BY <2>1, PreviewScript
      <3>2. Len(Handlers[t]) = 8
        BY <1>1, <3>1
      <3>. QED BY <3>2
    <2>2. CASE t # "preview_edit"
      <3>1. Handlers[t] \in Script \cup EditScript
        BY <2>2, Scripts
      <3>. QED BY <1>2, <3>1
    <2>. QED BY <2>1, <2>2
  <1>. QED BY <1>3

LEMMA StepFacts ==
  /\ \A h \in PlainStep : /\ Outs(h) \subseteq Int /\ h.do \notin {"manager", "reset", "count"}
                          /\ h.do = "ask" /\ h.must => h.err = Fail
  /\ \A h \in VerifyStep \cup ManagerStep : Outs(h) \subseteq Int /\ h.do # "ask"
  /\ \A h \in VerifyStep : h.do # "manager"
  /\ \A h \in ManagerStep : h.do \notin {"reset", "count"}
  <1>1. ASSUME NEW h \in MustAsk \cup MayAsk
        PROVE  /\ Outs(h) \subseteq Int /\ h.do \notin {"manager", "reset", "count"}
               /\ h.do = "ask" /\ h.must => h.err = Fail
    BY Outcomes DEF MustAsk, MayAsk, Outs
  <1>2. ASSUME NEW h \in PlainStep, h \notin MustAsk \cup MayAsk
        PROVE  /\ Outs(h) \subseteq Int /\ h.do \notin {"manager", "reset", "count", "ask"}
    BY <1>2, Outcomes DEF PlainStep, Outs
  <1>3. \A h \in VerifyStep \cup ManagerStep : Outs(h) \subseteq Int /\ h.do # "ask"
    BY Outcomes DEF VerifyStep, ManagerStep, Outs
  <1>. QED BY <1>1, <1>2, <1>3 DEF VerifyStep, ManagerStep

\* Where a step leads is a number; only preview_edit has a session to manage, only the
\* edit tools verify, and a question that must be answered ends the call when it fails.
LEMMA ScriptFacts ==
  ASSUME NEW t \in Tool, NEW i \in 1..Len(Handlers[t])
  PROVE  /\ Outs(Handlers[t][i]) \subseteq Int
         /\ Handlers[t][i].do = "manager" => t = "preview_edit"
         /\ Handlers[t][i].do \in {"reset", "count"} => t \in EditTool
         /\ Handlers[t][i].do = "ask" /\ Handlers[t][i].must => Handlers[t][i].err = Fail
  <1>1. CASE t \in EditTool
    <2>1. Handlers[t][i] \in PlainStep \cup VerifyStep
      BY <1>1, Scripts DEF EditScript
    <2>. QED BY <1>1, <2>1, StepFacts
  <1>2. CASE t = "preview_edit"
    <2>1. Handlers[t][i] \in PlainStep \cup ManagerStep
      BY <1>2, PreviewScript
    <2>. QED BY <1>2, <2>1, StepFacts
  <1>3. CASE t \notin EditTool \cup {"preview_edit"}
    <2>1. Handlers[t][i] \in PlainStep
      BY <1>3, Scripts DEF Script
    <2>. QED BY <1>3, <2>1, StepFacts
  <1>. QED BY <1>1, <1>2, <1>3

LEMMA PreviewSteps ==
  LET s == Handlers["preview_edit"]
      Does(i, op, ok, err) == s[i].do = "manager" /\ s[i].op = op /\ s[i].ok = ok /\ s[i].err = err
  IN /\ Len(s) = 8 /\ s[1].do = "local" /\ s[1].to = {1, Fail}
     /\ Does(2, "create", 1, Fail) /\ Does(3, "edit", 1, 5) /\ Does(4, "evaluate", 1, 3)
     /\ Does(5, "discard", 1, 3) /\ Does(6, "destroy", Found, Found)
     /\ Does(7, "discard", 1, 1) /\ Does(8, "destroy", Fail, Fail)
  BY PreviewScript DEF HandleSimulateEditAtomic, Args, Local, Manager

LEMMA EditSymbolShape == EditShape(EditSymbol, 9)
  <1>1. /\ Len(EditSymbol) = 13 /\ EditSymbol[1] = CheckInitialized /\ EditSymbol[2] = Args
        /\ EditSymbol[3] = Local({1, 3}) /\ EditSymbol[4] = Ask(GetWorkspaceSymbols, Fail, 1)
        /\ EditSymbol[5] = Local({1, Fail}) /\ EditSymbol[6] = Open("file")
        /\ EditSymbol[7] = Ask(GetDocumentSymbols, Fail, 1) /\ EditSymbol[8] = Local({1, Fail})
        /\ EditSymbol[9] = Write
    BY SMTT(30) DEF EditSymbol, ResolveSymbolByNamePath, ResolveInDocument,
       GetDiagnosticsForFileStatus, Reopen
  <1>2. /\ EditSymbol[10].do = "reset" /\ EditSymbol[11].do = "didClose"
        /\ EditSymbol[12].do = "didOpen" /\ EditSymbol[13].do = "count"
    BY SMTT(30) DEF EditSymbol, ResolveSymbolByNamePath, ResolveInDocument,
       GetDiagnosticsForFileStatus, Reopen, Step
  <1>3. ASSUME NEW i \in 1..8
        PROVE  /\ EditSymbol[i].do \notin {"write", "reset", "count"}
               /\ \A n \in Outs(EditSymbol[i]) : i + n <= 9
    BY <1>1 DEF CheckInitialized, Args, Local, Ask, Open, Outs, Fail
  <1>. QED BY <1>1, <1>2, <1>3 DEF EditShape, CheckInitialized, Write

LEMMA SafeDeleteShape == EditShape(HandleSafeDeleteSymbol, 7)
  <1>1. /\ Len(HandleSafeDeleteSymbol) = 11 /\ HandleSafeDeleteSymbol[1] = CheckInitialized
        /\ HandleSafeDeleteSymbol[2] = Args /\ HandleSafeDeleteSymbol[3] = Open("file")
        /\ HandleSafeDeleteSymbol[4] = Ask(GetDocumentSymbols, Fail, 1)
        /\ HandleSafeDeleteSymbol[5] = Local({1, Fail})
        /\ HandleSafeDeleteSymbol[6] = Ask(GetReferences, 1, Fail)
        /\ HandleSafeDeleteSymbol[7] = Write
    BY SMTT(30) DEF HandleSafeDeleteSymbol, ResolveInDocument, GetDiagnosticsForFileStatus, Reopen
  <1>2. /\ HandleSafeDeleteSymbol[8].do = "reset" /\ HandleSafeDeleteSymbol[9].do = "didClose"
        /\ HandleSafeDeleteSymbol[10].do = "didOpen" /\ HandleSafeDeleteSymbol[11].do = "count"
    BY SMTT(30) DEF HandleSafeDeleteSymbol, ResolveInDocument, GetDiagnosticsForFileStatus, Reopen,
       Step
  <1>3. ASSUME NEW i \in 1..6
        PROVE  /\ HandleSafeDeleteSymbol[i].do \notin {"write", "reset", "count"}
               /\ \A n \in Outs(HandleSafeDeleteSymbol[i]) : i + n <= 7
    BY <1>1 DEF CheckInitialized, Args, Local, Ask, Open, Outs, Fail
  <1>. QED BY <1>1, <1>2, <1>3 DEF EditShape, CheckInitialized, Write

\* the two that write what a server sent end alike
LEMMA VerifiedTail ==
  ASSUME NEW s, Len(s) = 17, s[10] = Write,
         \A i \in 11..14 : s[i] = GetDiagnosticsForFileStatus[i - 10],
         \A i \in 15..17 : s[i] = VerifyWorkspaceEditChannels[i - 14]
  PROVE  /\ s[10].do = "write" /\ s[11].do = "reset" /\ s[12].do = "didClose"
         /\ s[13].do = "didOpen" /\ s[14].do = "count"
         /\ \A i \in 15..17 : s[i].do \in {"local", "didClose", "didOpen"}
  <1>1. /\ s[10].do = "write" /\ s[11].do = "reset" /\ s[12].do = "didClose"
        /\ s[13].do = "didOpen" /\ s[14].do = "count"
    BY SMTT(30) DEF GetDiagnosticsForFileStatus, Reopen, Step, Write
  <1>2. \A i \in 15..17 : s[i].do \in {"local", "didClose", "didOpen"}
    BY SMTT(30) DEF VerifyWorkspaceEditChannels, Reopen, Local
  <1>. QED BY <1>1, <1>2

LEMMA RenameShape == EditShape(HandleRenameSymbol, 10)
  <1>. DEFINE s == HandleRenameSymbol
  <1>1. /\ Len(s) = 17 /\ s[1] = CheckInitialized
        /\ s[2] = Args /\ s[3] = Open("file") /\ s[4] = Ask(RenameSymbol, 1, 5)
        /\ s[5] = Try(GetInfoOnLocation, Done, Done, 1) /\ s[6] = Local({1, Done})
        /\ s[7] = Try(GetWorkspaceSymbols, Done, Done, 1)
        /\ s[8] = Try(RenameSymbol, Done, Done, 1) /\ s[9] = Local({1, Done, Found})
        /\ s[10] = Write
    BY SMTT(30) DEF HandleRenameSymbol, RenameWithFuzzyFallback, GetDiagnosticsForFileStatus, Reopen,
       VerifyWorkspaceEditChannels
  <1>2. /\ \A i \in 11..14 : s[i] = GetDiagnosticsForFileStatus[i - 10]
        /\ \A i \in 15..17 : s[i] = VerifyWorkspaceEditChannels[i - 14]
    BY SMTT(30) DEF HandleRenameSymbol, RenameWithFuzzyFallback, GetDiagnosticsForFileStatus, Reopen,
       VerifyWorkspaceEditChannels
  <1>3. ASSUME NEW i \in 1..9
        PROVE  s[i].do \notin {"write", "reset", "count"} /\ \A n \in Outs(s[i]) : i + n <= 10
    BY <1>1 DEF CheckInitialized, Args, Local, Ask, Try, Open, Outs, Done, Found, Fail
  <1>4. s[1].do = "client"
    BY <1>1 DEF CheckInitialized
  <1>. HIDE DEF s
  <1>. QED BY <1>1, <1>2, <1>3, <1>4, VerifiedTail DEF EditShape, s

LEMMA RefactorShape == EditShape(HandleRefactor, 10)
  <1>. DEFINE s == HandleRefactor
  <1>1. /\ Len(s) = 17 /\ s[1] = CheckInitialized
        /\ s[2] = Args /\ s[3] = Open("file") /\ s[4] = Ask(GetCodeActions, 1, 1)
        /\ s[5] = Local({Done, Found, Fail, 1, 3, 4}) /\ s[6] = Ask(ResolveCommand, 2, 1)
        /\ s[7] = Try(ListEnumOptions, Found, Found, Found)
        /\ s[8] = Ask(ExecuteCommand, 1, 1) /\ s[9] = Local({1, Done, Found})
        /\ s[10] = Write
    BY SMTT(30) DEF HandleRefactor, ExecuteCommandCapturingEdits, GetDiagnosticsForFileStatus, Reopen,
       VerifyWorkspaceEditChannels
  <1>2. /\ \A i \in 11..14 : s[i] = GetDiagnosticsForFileStatus[i - 10]
        /\ \A i \in 15..17 : s[i] = VerifyWorkspaceEditChannels[i - 14]
    BY SMTT(30) DEF HandleRefactor, GetDiagnosticsForFileStatus, Reopen, VerifyWorkspaceEditChannels
  <1>3. ASSUME NEW i \in 1..9
        PROVE  s[i].do \notin {"write", "reset", "count"} /\ \A n \in Outs(s[i]) : i + n <= 10
    BY <1>1 DEF CheckInitialized, Args, Local, Ask, Try, Open, Outs, Done, Found, Fail
  <1>4. s[1].do = "client"
    BY <1>1 DEF CheckInitialized
  <1>. HIDE DEF s
  <1>. QED BY <1>1, <1>2, <1>3, <1>4, VerifiedTail DEF EditShape, s

LEMMA EditShapes == \A t \in EditTool : EditShape(Handlers[t], WriteAt(t))
  <1>1. /\ Handlers["replace_symbol_body"] = EditSymbol /\ Handlers["insert_after_symbol"] = EditSymbol
        /\ Handlers["insert_before_symbol"] = EditSymbol
        /\ Handlers["safe_delete_symbol"] = HandleSafeDeleteSymbol
        /\ Handlers["rename_symbol"] = HandleRenameSymbol /\ Handlers["refactor"] = HandleRefactor
    BY DEF Handlers, HandleReplaceSymbolBody, HandleInsertAfterSymbol, HandleInsertBeforeSymbol
  <1>2. /\ WriteAt("replace_symbol_body") = 9 /\ WriteAt("insert_after_symbol") = 9
        /\ WriteAt("insert_before_symbol") = 9 /\ WriteAt("safe_delete_symbol") = 7
        /\ WriteAt("rename_symbol") = 10 /\ WriteAt("refactor") = 10
    BY DEF WriteAt
  <1>. QED BY <1>1, <1>2, EditSymbolShape, SafeDeleteShape, RenameShape, RefactorShape DEF EditTool

-----------------------------------------------------------------------------
(* The invariant of the calls *)

HandlerTypes ==
  /\ tool \in Tool \cup {"none"} /\ pc \in Nat
  /\ pc > 0 => tool \in Tool /\ pc <= Len(Handlers[tool]) /\ result = "none"
  /\ srv \in {"old", "new"} /\ pipe \in {"no", "old", "new"} /\ cache \in {"no", "old", "new"}

\* What a server that runs holds of the documents tracked as open, but for those whose
\* didOpen is known to be lost; a crash is followed by the restart that forgets them.
ServerHolds ==
  /\ misled = {}
  /\ restart # "no" \/ proc # "down" => client
  /\ restart = "reset" => proc = "down"
  /\ ~client \/ proc # "down" \/ restart = "reset" => openDocs \subseteq known \cup adrift

\* A call without a restart knows the capabilities, and a question of its that
\* went unanswered has ended it.
GapsEndCalls ==
  /\ restart # "no" => disturbed
  /\ pc > 0 /\ ~disturbed => caps
  /\ gaps # {} /\ ~disturbed => pc = 0 /\ result = "error"
  /\ tool = "safe_delete_symbol" /\ written => (pc = 0 \/ pc > 7) /\ (gaps = {} \/ disturbed)

\* the preview's session, at each step of its script
PreviewAt ==
  IF tool # "preview_edit" THEN sim = "no"
  ELSE /\ pc <= 2 => sim = "no"
       /\ pc \in {3, 6} => sim = "open"
       /\ pc \in {4, 5, 7} => sim = "edited"
       /\ pc = 8 => sim \in {"open", "stuck"}

\* After the cache was dropped whatever reaches it is about the new text, unless the
\* call's late or disturbed says otherwise.
OnlyNewText ==
  /\ tool \in EditTool /\ pc > 1 => client
  /\ tool \in EditTool /\ pc > WriteAt(tool) => written
  /\ verified => tool \in EditTool /\ (pc = 0 \/ pc > WriteAt(tool) + 4) /\ client /\ written
  /\ verified \/ (tool \in EditTool /\ pc > WriteAt(tool) + 1) =>
       late \/ disturbed \/ (pipe # "old" /\ cache # "old" /\ ("file" \in known => srv = "new"))
  /\ verified => late \/ disturbed \/ cache = "new"

HandlersInv == HandlerTypes /\ ServerHolds /\ GapsEndCalls /\ PreviewAt /\ OnlyNewText

-----------------------------------------------------------------------------
(* What a step other than the start of a call may do *)

Moves ==
  /\ tool' = tool /\ (disturbed => disturbed') /\ (client => client') /\ (written => written')
  /\ UNCHANGED <<pc, result>> \/ (pc > 0 /\ \E n \in Outs(Here) : Advance(n))
  /\ pc' # pc => /\ Here.do = "client" /\ pc' # 0 => client
                 /\ Here.do = "write" /\ pc' # 0 => written'
                 /\ Here.do = "reset" => ResetDiagnostics
                 /\ Here.do = "manager" => SessionManager
  /\ sim' # sim => SessionManager

LEMMA QuestionsMove ==
  ASSUME CheckClient \/ Decide \/ CheckCapability \/ SendRequest \/ RequestAnswered \/ RequestFailed
  PROVE  Moves
  <1>1. CASE CheckClient
    BY <1>1 DEF CheckClient, Moves, At, Outs, serverVars, Advance, Done, Fail
  <1>2. CASE Decide
    BY <1>2 DEF Decide, Moves, At, Outs, serverVars
  <1>3. CASE CheckCapability
    BY <1>3 DEF CheckCapability, Moves, At, Outs, serverVars
  <1>4. CASE SendRequest \/ RequestAnswered \/ RequestFailed
    BY <1>4 DEF SendRequest, RequestAnswered, RequestFailed, Moves, At, Outs, serverVars
  <1>. QED BY <1>1, <1>2, <1>3, <1>4

LEMMA DocumentsMove ==
  ASSUME WithDocument \/ ApplyWorkspaceEdit \/ CloseForReopen \/ ReopenDocument \/ CloseDocument
  PROVE  Moves
  <1>1. CASE WithDocument
    BY <1>1 DEF WithDocument, Moves, At, Outs, serverVars
  <1>2. CASE ApplyWorkspaceEdit
    <2>1. ~written => Advance(Fail) \/ written'
      BY <1>2 DEF ApplyWorkspaceEdit
    <2>2. Advance(Fail) => pc' = 0
      BY DEF Advance, Fail
    <2>3. At("write") /\ UNCHANGED <<tool, disturbed, client, sim>>
      BY <1>2 DEF ApplyWorkspaceEdit, serverVars
    <2>4. Here.do = "write" /\ pc > 0 /\ Outs(Here) = {1, Fail}
      BY <2>3 DEF At, Outs
    <2>5. (Advance(1) \/ Advance(Fail)) /\ (pc' # 0 => written') /\ (written => written')
      BY <1>2, <2>1, <2>2 DEF ApplyWorkspaceEdit
    <2>. QED BY <2>3, <2>4, <2>5 DEF Moves
  <1>3. CASE CloseForReopen
    BY <1>3 DEF CloseForReopen, Moves, At, Outs, serverVars
  <1>4. CASE ReopenDocument \/ CloseDocument
    BY <1>4 DEF ReopenDocument, CloseDocument, Moves, At, Outs, serverVars
  <1>. QED BY <1>1, <1>2, <1>3, <1>4

LEMMA OthersMove ==
  ASSUME \/ ResetDiagnostics \/ HasPublishedDiagnostics \/ AddWorkspaceFolder
         \/ RemoveWorkspaceFolder \/ DidChangeWatchedFiles \/ SessionManager
         \/ RestartHere \/ RestartRefused \/ Restarted
  PROVE  Moves
  <1>1. CASE ResetDiagnostics \/ HasPublishedDiagnostics
    BY <1>1 DEF ResetDiagnostics, HasPublishedDiagnostics, Moves, At, Outs, serverVars
  <1>2. CASE AddWorkspaceFolder \/ RemoveWorkspaceFolder \/ DidChangeWatchedFiles
    BY <1>2 DEF AddWorkspaceFolder, RemoveWorkspaceFolder, DidChangeWatchedFiles, Moves, At, Outs,
       serverVars
  <1>3. CASE SessionManager
    BY <1>3 DEF SessionManager, Moves, At, Outs, serverVars
  <1>4. CASE RestartHere \/ RestartRefused \/ Restarted
    BY <1>4 DEF RestartHere, RestartRefused, Restarted, SnapshotDocuments, Moves, At, Outs, serverVars
  <1>. QED BY <1>1, <1>2, <1>3, <1>4

LEMMA ServerMoves ==
  ASSUME \/ StartLsp \/ WorkspaceReady \/ RestartElsewhere \/ ShutdownAndReset \/ StartProcess
         \/ Initialize \/ ReplayOpenDocument \/ RestartDone \/ Crash \/ Publish \/ CachePublication
  PROVE  Moves /\ UNCHANGED <<pc, result>>
  BY DEF StartLsp, WorkspaceReady, RestartElsewhere, SnapshotDocuments, ShutdownAndReset,
     StartProcess, Initialize, ReplayOpenDocument, RestartDone, Crash, Publish, CachePublication,
     Moves, serverVars

LEMMA StepsMove == [HandlersNext]_hVars => StartCall \/ Moves
  BY QuestionsMove, DocumentsMove, OthersMove, ServerMoves
     DEF HandlersNext, hVars, serverVars, Moves

\* A step of the script leaves the call where it was, ends it, or leads on in it.
LEMMA MoveStep ==
  ASSUME HandlerTypes, Moves
  PROVE  /\ pc' \in Nat
         /\ \/ UNCHANGED <<pc, result>>
            \/ /\ pc > 0 /\ tool \in Tool /\ pc <= Len(Handlers[tool]) /\ Outs(Here) \subseteq Int
               /\ \/ pc' = 0
                  \/ /\ \E n \in Outs(Here) : n > 0 /\ pc' = pc + n
                     /\ pc' <= Len(Handlers[tool]) /\ result' = result
  <1>1. CASE UNCHANGED <<pc, result>>
    BY <1>1 DEF HandlerTypes
  <1>2. ASSUME NEW n \in Outs(Here), pc > 0, Advance(n)
        PROVE  /\ pc' \in Nat /\ tool \in Tool /\ pc <= Len(Handlers[tool])
               /\ Outs(Here) \subseteq Int
               /\ pc' = 0 \/ (n > 0 /\ pc' = pc + n /\ pc' <= Len(Handlers[tool]) /\ result' = result)
    <2>1. pc \in Nat /\ tool \in Tool /\ pc <= Len(Handlers[tool]) /\ Len(Handlers[tool]) \in Nat
      BY <1>2, Lengths DEF HandlerTypes
    <2>2. Outs(Here) \subseteq Int
      BY <1>2, <2>1, ScriptFacts DEF Here
    <2>. QED BY <1>2, <2>1, <2>2 DEF Advance
  <1>. QED BY <1>1, <1>2 DEF Moves
-----------------------------------------------------------------------------
(* The parts of the invariant *)

LEMMA TextsStep ==
  ASSUME HandlerTypes, [HandlersNext]_hVars
  PROVE  srv' \in {"old", "new"} /\ pipe' \in {"no", "old", "new"} /\ cache' \in {"no", "old", "new"}
  <1>. USE DEF HandlerTypes
  <1>1. CASE \/ CheckClient \/ Decide \/ CheckCapability \/ WorkspaceReady \/ SendRequest
             \/ RequestAnswered \/ RequestFailed \/ UNCHANGED hVars
    BY <1>1 DEF CheckClient, Decide, CheckCapability, WorkspaceReady, SendRequest, RequestAnswered,
       RequestFailed, hVars, diagVars
  <1>2. CASE \/ WithDocument \/ ApplyWorkspaceEdit \/ CloseForReopen \/ ReopenDocument
             \/ CloseDocument \/ ReplayOpenDocument
    BY <1>2 DEF WithDocument, ApplyWorkspaceEdit, CloseForReopen, ReopenDocument, CloseDocument,
       ReplayOpenDocument, OpenDocument, DiskText, diagVars
  <1>3. CASE \/ ResetDiagnostics \/ HasPublishedDiagnostics \/ AddWorkspaceFolder
             \/ RemoveWorkspaceFolder \/ DidChangeWatchedFiles \/ SessionManager
    BY <1>3 DEF ResetDiagnostics, HasPublishedDiagnostics, AddWorkspaceFolder,
       RemoveWorkspaceFolder, DidChangeWatchedFiles, SessionManager, diagVars
  <1>4. CASE \/ RestartHere \/ RestartElsewhere \/ RestartRefused \/ ShutdownAndReset
             \/ StartProcess \/ Initialize \/ RestartDone \/ Restarted
    BY <1>4 DEF RestartHere, RestartElsewhere, SnapshotDocuments, RestartRefused, ShutdownAndReset,
       StartProcess, Initialize, RestartDone, Restarted, diagVars
  <1>5. CASE StartLsp \/ StartCall \/ Crash \/ Publish \/ CachePublication
    BY <1>5 DEF StartLsp, StartCall, Earlier, Crash, Publish, CachePublication, diagVars
  <1>. QED BY <1>1, <1>2, <1>3, <1>4, <1>5 DEF HandlersNext

LEMMA TypesStep ==
  ASSUME HandlerTypes, [HandlersNext]_hVars
  PROVE  HandlerTypes'
  <1>1. CASE StartCall
    BY <1>1, TextsStep, Lengths DEF StartCall, HandlerTypes
  <1>2. CASE Moves
    BY <1>2, MoveStep, TextsStep DEF HandlerTypes, Moves
  <1>. QED BY <1>1, <1>2, StepsMove

\* what opening a document does, at a server that holds what is tracked
LEMMA OpenKeepsHeld ==
  ASSUME NEW d, proc # "down" \/ restart = "reset" \/ ~client => openDocs \subseteq known \cup adrift,
         proc # "down" => client, misled = {}, OpenDocument(d)
  PROVE  /\ misled' = {}
         /\ (proc # "down" \/ restart = "reset" \/ ~client => openDocs' \subseteq known' \cup adrift')
  <1>1. PICK heard \in Heard :
          /\ openDocs' = openDocs \cup {d}
          /\ IF d \in openDocs
             THEN /\ Changed(d, heard)
                  /\ UNCHANGED <<known, adrift>>
             ELSE /\ known' = IF heard THEN known \cup {d} ELSE known
                  /\ adrift' = IF heard THEN adrift \ {d} ELSE adrift \cup {d}
                  /\ UNCHANGED misled
    BY DEF OpenDocument
  <1>2. heard \in BOOLEAN /\ (heard => proc # "down")
    BY <1>1 DEF Heard
  <1>. QED BY <1>1, <1>2 DEF Changed

LEMMA ServerStep ==
  ASSUME ServerHolds, [HandlersNext]_hVars
  PROVE  ServerHolds'
  <1>. USE DEF ServerHolds
  <1>1. CASE \/ CheckClient \/ Decide \/ CheckCapability \/ WorkspaceReady \/ SendRequest
             \/ RequestAnswered \/ RequestFailed \/ UNCHANGED hVars
    BY <1>1 DEF CheckClient, Decide, CheckCapability, WorkspaceReady, SendRequest, RequestAnswered,
       RequestFailed, hVars, serverVars, docVars
  <1>2. CASE WithDocument
    BY <1>2, OpenKeepsHeld DEF WithDocument, serverVars, docVars
  <1>3. CASE ApplyWorkspaceEdit
    BY <1>3 DEF ApplyWorkspaceEdit, Changed, Heard, serverVars
  <1>4. CASE CloseForReopen
    BY <1>4, OpenKeepsHeld DEF CloseForReopen, Heard, serverVars, docVars
  <1>5. CASE ReopenDocument \/ CloseDocument
    BY <1>5 DEF ReopenDocument, CloseDocument, Heard, serverVars, docVars
  <1>6. CASE ReplayOpenDocument
    BY <1>6, OpenKeepsHeld DEF ReplayOpenDocument, Sent, serverVars, docVars
  <1>7. CASE \/ ResetDiagnostics \/ HasPublishedDiagnostics \/ AddWorkspaceFolder
             \/ RemoveWorkspaceFolder \/ DidChangeWatchedFiles \/ SessionManager
    BY <1>7 DEF ResetDiagnostics, HasPublishedDiagnostics, AddWorkspaceFolder,
       RemoveWorkspaceFolder, DidChangeWatchedFiles, SessionManager, serverVars, docVars
  <1>8. CASE \/ RestartHere \/ RestartElsewhere \/ RestartRefused \/ ShutdownAndReset
             \/ StartProcess \/ Initialize \/ RestartDone \/ Restarted
    BY <1>8 DEF RestartHere, RestartElsewhere, SnapshotDocuments, RestartRefused, ShutdownAndReset,
       StartProcess, Initialize, RestartDone, Restarted, serverVars, docVars
  <1>9. CASE StartLsp \/ StartCall \/ Crash \/ Publish \/ CachePublication
    BY <1>9 DEF StartLsp, StartCall, Crash, Publish, CachePublication, serverVars, docVars
  <1>. QED BY <1>1, <1>2, <1>3, <1>4, <1>5, <1>6, <1>7, <1>8, <1>9 DEF HandlersNext

LEMMA EditPlaces ==
  ASSUME NEW t \in EditTool, NEW i \in 1..Len(Handlers[t])
  PROVE  LET h == Handlers[t][i]
             w == WriteAt(t)
         IN /\ w \in Nat /\ w > 1
            /\ h.do = "write" => i = w
            /\ h.do = "reset" => i = w + 1
            /\ h.do = "count" => i = w + 4
            /\ i > w => h.do # "ask"
            /\ i < w => \A n \in Outs(h) : i + n <= w
            /\ i = 1 => h.do = "client"
            /\ i = w => h.do = "write"
            /\ i = w + 1 => h.do = "reset"
            /\ i \in {w, w + 1} => Outs(h) = {1, Fail}
  <1>1. WriteAt(t) \in Nat /\ WriteAt(t) > 1
    BY DEF WriteAt
  <1>2. EditShape(Handlers[t], WriteAt(t))
    BY EditShapes
  <1>3. /\ i = WriteAt(t) => Handlers[t][i].do = "write"
        /\ i = WriteAt(t) + 1 => Handlers[t][i].do = "reset"
        /\ i = WriteAt(t) + 2 => Handlers[t][i].do = "didClose"
        /\ i = WriteAt(t) + 3 => Handlers[t][i].do = "didOpen"
        /\ i = WriteAt(t) + 4 => Handlers[t][i].do = "count"
        /\ i < WriteAt(t) => /\ Handlers[t][i].do \notin {"write", "reset", "count"}
                             /\ \A n \in Outs(Handlers[t][i]) : i + n <= WriteAt(t)
        /\ i > WriteAt(t) + 4 => Handlers[t][i].do \in {"local", "didClose", "didOpen"}
        /\ i = 1 => Handlers[t][i].do = "client"
    BY <1>1, <1>2 DEF EditShape
  <1>4. \/ i < WriteAt(t) \/ i = WriteAt(t) \/ i = WriteAt(t) + 1 \/ i = WriteAt(t) + 2
        \/ i = WriteAt(t) + 3 \/ i = WriteAt(t) + 4 \/ i > WriteAt(t) + 4
    BY <1>1
  <1>5. Handlers[t][i].do \in {"write", "reset"} => Outs(Handlers[t][i]) = {1, Fail}
    BY DEF Outs
  <1>6. i > WriteAt(t) => Handlers[t][i].do # "ask"
    BY <1>1, <1>3, <1>4
  <1>7. /\ Handlers[t][i].do = "write" => i = WriteAt(t)
        /\ Handlers[t][i].do = "reset" => i = WriteAt(t) + 1
        /\ Handlers[t][i].do = "count" => i = WriteAt(t) + 4
    BY <1>1, <1>3, <1>4
  <1>. QED BY <1>1, <1>3, <1>5, <1>6, <1>7

LEMMA GapsMove ==
  ASSUME [HandlersNext]_hVars
  PROVE  \/ StartCall \/ gaps' = gaps
         \/ /\ At("ask") /\ Here.must /\ UNCHANGED <<written, tool, disturbed>>
            /\ ~caps \/ Advance(Here.err)
  <1>1. CASE \/ CheckClient \/ Decide \/ WorkspaceReady \/ RequestAnswered \/ UNCHANGED hVars
    BY <1>1 DEF CheckClient, Decide, WorkspaceReady, RequestAnswered, hVars
  <1>2. CASE CheckCapability
    BY <1>2 DEF CheckCapability, Unanswered
  <1>3. CASE SendRequest \/ RequestFailed
    BY <1>3 DEF SendRequest, RequestFailed, Unanswered
  <1>4. CASE \/ WithDocument \/ ApplyWorkspaceEdit \/ CloseForReopen \/ ReopenDocument
             \/ CloseDocument \/ ReplayOpenDocument
    BY <1>4 DEF WithDocument, ApplyWorkspaceEdit, CloseForReopen, ReopenDocument, CloseDocument,
       ReplayOpenDocument
  <1>5. CASE \/ ResetDiagnostics \/ HasPublishedDiagnostics \/ AddWorkspaceFolder
             \/ RemoveWorkspaceFolder \/ DidChangeWatchedFiles \/ SessionManager
    BY <1>5 DEF ResetDiagnostics, HasPublishedDiagnostics, AddWorkspaceFolder,
       RemoveWorkspaceFolder, DidChangeWatchedFiles, SessionManager
  <1>6. CASE \/ RestartHere \/ RestartElsewhere \/ RestartRefused \/ ShutdownAndReset
             \/ StartProcess \/ Initialize \/ RestartDone \/ Restarted
    BY <1>6 DEF RestartHere, RestartElsewhere, SnapshotDocuments, RestartRefused, ShutdownAndReset,
       StartProcess, Initialize, RestartDone, Restarted
  <1>7. CASE StartLsp \/ Crash \/ Publish \/ CachePublication
    BY <1>7 DEF StartLsp, Crash, Publish, CachePublication
  <1>. QED BY <1>1, <1>2, <1>3, <1>4, <1>5, <1>6, <1>7 DEF HandlersNext

\* a restart disturbs the call, and is the only thing that forgets the capabilities
LEMMA RestartDisturbs ==
  ASSUME restart # "no" => disturbed, [HandlersNext]_hVars
  PROVE  (restart' # "no" => disturbed') /\ (caps /\ ~caps' => disturbed')
  <1>1. CASE \/ CheckClient \/ Decide \/ CheckCapability \/ WorkspaceReady \/ SendRequest
             \/ RequestAnswered \/ RequestFailed \/ UNCHANGED hVars
    BY <1>1 DEF CheckClient, Decide, CheckCapability, WorkspaceReady, SendRequest, RequestAnswered,
       RequestFailed, hVars, serverVars
  <1>2. CASE \/ WithDocument \/ ApplyWorkspaceEdit \/ CloseForReopen \/ ReopenDocument
             \/ CloseDocument \/ ReplayOpenDocument
    BY <1>2 DEF WithDocument, ApplyWorkspaceEdit, CloseForReopen, ReopenDocument, CloseDocument,
       ReplayOpenDocument, serverVars
  <1>3. CASE \/ ResetDiagnostics \/ HasPublishedDiagnostics \/ AddWorkspaceFolder
             \/ RemoveWorkspaceFolder \/ DidChangeWatchedFiles \/ SessionManager
    BY <1>3 DEF ResetDiagnostics, HasPublishedDiagnostics, AddWorkspaceFolder,
       RemoveWorkspaceFolder, DidChangeWatchedFiles, SessionManager, serverVars
  <1>4. CASE \/ RestartHere \/ RestartElsewhere \/ RestartRefused \/ ShutdownAndReset
             \/ StartProcess \/ Initialize \/ RestartDone \/ Restarted
    BY <1>4 DEF RestartHere, RestartElsewhere, SnapshotDocuments, RestartRefused, ShutdownAndReset,
       StartProcess, Initialize, RestartDone, Restarted, serverVars
  <1>5. CASE StartLsp \/ Crash \/ Publish \/ CachePublication
    BY <1>5 DEF StartLsp, Crash, Publish, CachePublication, serverVars
  <1>6. CASE StartCall
    BY <1>6 DEF StartCall, serverVars
  <1>. QED BY <1>1, <1>2, <1>3, <1>4, <1>5, <1>6 DEF HandlersNext

\* a file is written by the write step
LEMMA WrittenThere ==
  ASSUME [HandlersNext]_hVars
  PROVE  StartCall \/ written' = written \/ ApplyWorkspaceEdit
  <1>1. CASE \/ CheckClient \/ Decide \/ CheckCapability \/ WorkspaceReady \/ SendRequest
             \/ RequestAnswered \/ RequestFailed \/ UNCHANGED hVars
    BY <1>1 DEF CheckClient, Decide, CheckCapability, WorkspaceReady, SendRequest, RequestAnswered,
       RequestFailed, hVars
  <1>2. CASE \/ WithDocument \/ ApplyWorkspaceEdit \/ CloseForReopen \/ ReopenDocument
             \/ CloseDocument \/ ReplayOpenDocument
    BY <1>2 DEF WithDocument, CloseForReopen, ReopenDocument, CloseDocument, ReplayOpenDocument
  <1>3. CASE \/ ResetDiagnostics \/ HasPublishedDiagnostics \/ AddWorkspaceFolder
             \/ RemoveWorkspaceFolder \/ DidChangeWatchedFiles \/ SessionManager
    BY <1>3 DEF ResetDiagnostics, HasPublishedDiagnostics, AddWorkspaceFolder,
       RemoveWorkspaceFolder, DidChangeWatchedFiles, SessionManager
  <1>4. CASE \/ RestartHere \/ RestartElsewhere \/ RestartRefused \/ ShutdownAndReset
             \/ StartProcess \/ Initialize \/ RestartDone \/ Restarted
    BY <1>4 DEF RestartHere, RestartElsewhere, SnapshotDocuments, RestartRefused, ShutdownAndReset,
       StartProcess, Initialize, RestartDone, Restarted
  <1>5. CASE StartLsp \/ Crash \/ Publish \/ CachePublication
    BY <1>5 DEF StartLsp, Crash, Publish, CachePublication
  <1>. QED BY <1>1, <1>2, <1>3, <1>4, <1>5 DEF HandlersNext

LEMMA GapsStep ==
  ASSUME HandlerTypes, GapsEndCalls, [HandlersNext]_hVars
  PROVE  GapsEndCalls'
  <1>1. CASE StartCall
    BY <1>1 DEF StartCall, GapsEndCalls, serverVars
  <1>2. CASE Moves /\ ~StartCall
    <2>1. (restart' # "no" => disturbed') /\ (caps /\ ~caps' => disturbed')
      BY RestartDisturbs DEF GapsEndCalls
    <2>2. /\ pc' \in Nat /\ tool' = tool /\ (disturbed => disturbed')
          /\ pc' > 0 => pc > 0
          /\ pc = 0 => UNCHANGED <<pc, result>>
      BY <1>2, MoveStep DEF Moves, HandlerTypes
    <2>3. ASSUME gaps' # gaps, ~disturbed PROVE pc > 0 /\ gaps = {} /\ pc' = 0 /\ result' = "error"
      <3>1. At("ask") /\ Here.must /\ (~caps \/ Advance(Here.err))
        BY <1>2, <2>3, GapsMove
      <3>2. pc > 0 /\ Here.do = "ask"
        BY <3>1 DEF At
      <3>3. pc > 0 /\ gaps = {} /\ caps /\ tool \in Tool /\ pc \in 1..Len(Handlers[tool])
        BY <2>3, <3>2, Lengths DEF GapsEndCalls, HandlerTypes
      <3>4. Here.err = Fail
        BY <3>1, <3>2, <3>3, ScriptFacts DEF Here
      <3>. QED BY <3>1, <3>2, <3>3, <3>4 DEF Advance, Fail
    <2>4. gaps' # {} /\ ~disturbed' => pc' = 0 /\ result' = "error"
      BY <2>2, <2>3 DEF GapsEndCalls
    <2>5. ASSUME tool = "safe_delete_symbol", written'
          PROVE  (pc' = 0 \/ pc' > 7) /\ (gaps' = {} \/ disturbed')
      <3>1. /\ tool \in EditTool /\ WriteAt(tool) = 7
            /\ pc > 0 => pc \in 1..Len(Handlers[tool])
        BY <2>5, Lengths DEF EditTool, WriteAt, HandlerTypes
      <3>2. CASE written
        <4>1. pc = 0 \/ pc > 7
          BY <2>5, <3>2 DEF GapsEndCalls
        <4>2. gaps' = gaps
          BY <1>2, <3>1, <4>1, GapsMove, EditPlaces DEF At, Here
        <4>3. pc' = 0 \/ pc' > 7
          BY <1>2, <2>2, <4>1, MoveStep DEF HandlerTypes
        <4>. QED BY <2>2, <2>5, <3>2, <4>2, <4>3 DEF GapsEndCalls
      <3>3. CASE ~written
        <4>0. ApplyWorkspaceEdit
          BY <1>2, <2>5, <3>3, WrittenThere
        <4>1. At("write") /\ pc = 7
          BY <3>1, <4>0, EditPlaces DEF ApplyWorkspaceEdit, At, Here
        <4>2. pc = 7 /\ Outs(Here) = {1, Fail}
          BY <3>1, <4>1, EditPlaces DEF At, Here
        <4>3. gaps' = gaps
          BY <1>2, <4>1, GapsMove DEF At
        <4>4. pc' = 0 \/ pc' = pc + 1 \/ pc' = pc
          BY <1>2, <4>2, MoveStep DEF Fail
        <4>5. pc' # pc
          BY <4>0, <4>1 DEF ApplyWorkspaceEdit, Advance, Fail
        <4>. QED BY <2>2, <4>2, <4>3, <4>4, <4>5 DEF GapsEndCalls
      <3>. QED BY <3>2, <3>3
    <2>6. pc' > 0 /\ ~disturbed' => caps'
      BY <2>1, <2>2 DEF GapsEndCalls
    <2>. QED BY <2>1, <2>2, <2>4, <2>5, <2>6 DEF GapsEndCalls
  <1>. QED BY <1>1, <1>2, StepsMove

\* what the session manager's step does to the preview at each place of its script
LEMMA PreviewManager ==
  ASSUME PreviewAt, tool = "preview_edit", pc \in 2..8, SessionManager
  PROVE  tool' = tool /\ PreviewAt'
  <1>1. PICK ok \in BOOLEAN :
          /\ Advance(IF ok THEN Here.ok ELSE Here.err)
          /\ sim' = CASE Here.op = "create" -> IF ok THEN "open" ELSE "no"
                      [] Here.op = "edit" -> IF ok THEN "edited" ELSE sim
                      [] Here.op = "discard" -> IF ok THEN "open" ELSE "stuck"
                      [] Here.op = "destroy" -> IF sim = "edited" THEN "leaked" ELSE "no"
                      [] OTHER -> sim
    BY DEF SessionManager
  <1>2. tool' = tool
    BY DEF SessionManager
  <1>3. Len(Handlers[tool]) = 8 /\ Here = Handlers["preview_edit"][pc]
    BY PreviewSteps DEF Here
  <1>4. \/ /\ Here.op = "create" /\ Here.ok = 1 /\ Here.err = Fail /\ pc = 2
        \/ /\ Here.op = "edit" /\ Here.ok = 1 /\ Here.err = 5 /\ pc = 3
        \/ /\ Here.op = "evaluate" /\ Here.ok = 1 /\ Here.err = 3 /\ pc = 4
        \/ /\ Here.op = "discard" /\ Here.ok = 1 /\ Here.err = 3 /\ pc = 5
        \/ /\ Here.op = "destroy" /\ Here.ok = Found /\ Here.err = Found /\ pc = 6
        \/ /\ Here.op = "discard" /\ Here.ok = 1 /\ Here.err = 1 /\ pc = 7
        \/ /\ Here.op = "destroy" /\ Here.ok = Fail /\ Here.err = Fail /\ pc = 8
    BY <1>3, PreviewSteps
  <1>5. \/ pc = 2 /\ ((pc' = 3 /\ sim' = "open") \/ (pc' = 0 /\ sim' = "no"))
        \/ pc = 3 /\ ((pc' = 4 /\ sim' = "edited") \/ (pc' = 8 /\ sim' = sim))
        \/ pc = 4 /\ pc' \in {5, 7} /\ sim' = sim
        \/ pc = 5 /\ ((pc' = 6 /\ sim' = "open") \/ (pc' = 8 /\ sim' = "stuck"))
        \/ pc = 6 /\ pc' = 0 /\ sim' = IF sim = "edited" THEN "leaked" ELSE "no"
        \/ pc = 7 /\ pc' = 8 /\ sim' \in {"open", "stuck"}
        \/ pc = 8 /\ pc' = 0 /\ sim' = IF sim = "edited" THEN "leaked" ELSE "no"
    BY <1>1, <1>3, <1>4 DEF Advance, Found, Fail
  <1>. QED BY <1>2, <1>5 DEF PreviewAt

LEMMA PreviewStep ==
  ASSUME HandlerTypes, PreviewAt, [HandlersNext]_hVars
  PROVE  PreviewAt'
  <1>1. CASE StartCall
    BY <1>1 DEF StartCall, PreviewAt
  <1>2. CASE Moves /\ UNCHANGED pc /\ sim' = sim
    BY <1>2 DEF Moves, PreviewAt
  <1>3. CASE SessionManager
    <2>1. pc > 0 /\ Here.do = "manager" /\ tool \in Tool /\ pc \in 1..Len(Handlers[tool])
      BY <1>3, Lengths DEF SessionManager, At, HandlerTypes
    <2>2. tool = "preview_edit"
      BY <2>1, ScriptFacts DEF Here
    <2>3. pc \in 2..8
      BY <2>1, <2>2, PreviewSteps DEF Here
    <2>. QED BY <1>3, <2>2, <2>3, PreviewManager
  <1>4. CASE Moves /\ pc' # pc /\ ~SessionManager
    <2>1. sim' = sim /\ tool' = tool /\ Here.do # "manager"
      BY <1>4 DEF Moves
    <2>2. ASSUME tool = "preview_edit" PROVE pc = 1 /\ pc' \in {0, 2}
      <3>1. pc \in 1..8
        BY <1>4, <2>2, MoveStep, PreviewSteps DEF HandlerTypes
      <3>2. pc = 1
        BY <2>1, <2>2, <3>1, PreviewSteps DEF Here
      <3>3. Outs(Here) = {1, Fail}
        BY <2>2, <3>2, PreviewSteps DEF Here, Outs
      <3>. QED BY <1>4, <3>2, <3>3, MoveStep DEF Fail
    <2>. QED BY <2>1, <2>2 DEF PreviewAt
  <1>. QED BY <1>1, <1>2, <1>3, <1>4, StepsMove DEF Moves

LEMMA FlagsMove ==
  ASSUME [HandlersNext]_hVars
  PROVE  \/ StartCall
         \/ /\ ResetDiagnostics \/ late' = late
            /\ HasPublishedDiagnostics \/ verified' = verified
  <1>1. CASE \/ CheckClient \/ Decide \/ CheckCapability \/ WorkspaceReady \/ SendRequest
             \/ RequestAnswered \/ RequestFailed \/ UNCHANGED hVars
    BY <1>1 DEF CheckClient, Decide, CheckCapability, WorkspaceReady, SendRequest, RequestAnswered,
       RequestFailed, hVars, diagVars
  <1>2. CASE \/ WithDocument \/ ApplyWorkspaceEdit \/ CloseForReopen \/ ReopenDocument
             \/ CloseDocument \/ ReplayOpenDocument
    BY <1>2 DEF WithDocument, ApplyWorkspaceEdit, CloseForReopen, ReopenDocument, CloseDocument,
       ReplayOpenDocument, diagVars
  <1>3. CASE \/ AddWorkspaceFolder \/ RemoveWorkspaceFolder \/ DidChangeWatchedFiles
             \/ SessionManager
    BY <1>3 DEF AddWorkspaceFolder, RemoveWorkspaceFolder, DidChangeWatchedFiles, SessionManager,
       diagVars
  <1>4. CASE \/ RestartHere \/ RestartElsewhere \/ RestartRefused \/ ShutdownAndReset
             \/ StartProcess \/ Initialize \/ RestartDone \/ Restarted
    BY <1>4 DEF RestartHere, RestartElsewhere, SnapshotDocuments, RestartRefused, ShutdownAndReset,
       StartProcess, Initialize, RestartDone, Restarted, diagVars
  <1>5. CASE StartLsp \/ Crash \/ Publish \/ CachePublication
    BY <1>5 DEF StartLsp, Crash, Publish, CachePublication, diagVars
  <1>6. CASE ResetDiagnostics \/ HasPublishedDiagnostics
    BY <1>6 DEF ResetDiagnostics, HasPublishedDiagnostics
  <1>. QED BY <1>1, <1>2, <1>3, <1>4, <1>5, <1>6 DEF HandlersNext

\* the text a server holds of the file and what it published about it are new
NewOnly == pipe # "old" /\ cache # "old" /\ ("file" \in known => srv = "new")

LEMMA OpenKeepsNew ==
  ASSUME NEW d, "file" \in known => srv = "new", written, OpenDocument(d)
  PROVE  "file" \in known' => srv' = "new"
  <1>. PICK heard \in Heard :
          /\ srv' = IF heard /\ d = "file" THEN DiskText ELSE srv
          /\ known' = known \/ (heard /\ known' = known \cup {d})
    BY DEF OpenDocument
  <1>. QED BY DEF DiskText

LEMMA NewOnlyStays ==
  ASSUME HandlerTypes, NewOnly, written, client, [HandlersNext]_hVars, ~StartCall
  PROVE  NewOnly'
  <1>. USE DEF NewOnly
  <1>1. CASE \/ CheckClient \/ Decide \/ CheckCapability \/ WorkspaceReady \/ SendRequest
             \/ RequestAnswered \/ RequestFailed \/ UNCHANGED hVars
    BY <1>1 DEF CheckClient, Decide, CheckCapability, WorkspaceReady, SendRequest, RequestAnswered,
       RequestFailed, hVars, diagVars, docVars
  <1>2. CASE WithDocument \/ ReplayOpenDocument
    BY <1>2, OpenKeepsNew DEF WithDocument, ReplayOpenDocument, docVars
  <1>3. CASE ApplyWorkspaceEdit \/ CloseForReopen
    <2>1. CASE ApplyWorkspaceEdit
      BY <2>1 DEF ApplyWorkspaceEdit
    <2>2. CASE CloseForReopen
      BY <2>2, OpenKeepsNew DEF CloseForReopen, docVars
    <2>. QED BY <1>3, <2>1, <2>2
  <1>4. CASE ReopenDocument \/ CloseDocument
    BY <1>4 DEF ReopenDocument, CloseDocument, DiskText, docVars, diagVars
  <1>5. CASE \/ ResetDiagnostics \/ HasPublishedDiagnostics \/ AddWorkspaceFolder
             \/ RemoveWorkspaceFolder \/ DidChangeWatchedFiles \/ SessionManager
    BY <1>5 DEF ResetDiagnostics, HasPublishedDiagnostics, AddWorkspaceFolder,
       RemoveWorkspaceFolder, DidChangeWatchedFiles, SessionManager, diagVars, docVars
  <1>6. CASE \/ RestartHere \/ RestartElsewhere \/ RestartRefused \/ ShutdownAndReset
             \/ StartProcess \/ Initialize \/ RestartDone \/ Restarted
    BY <1>6 DEF RestartHere, RestartElsewhere, SnapshotDocuments, RestartRefused, ShutdownAndReset,
       StartProcess, Initialize, RestartDone, Restarted, diagVars, docVars
  <1>7. CASE StartLsp \/ Crash \/ Publish \/ CachePublication
    BY <1>7 DEF StartLsp, Crash, Publish, CachePublication, diagVars, docVars
  <1>. QED BY <1>1, <1>2, <1>3, <1>4, <1>5, <1>6, <1>7 DEF HandlersNext

LEMMA NewStaysCached ==
  ASSUME HandlerTypes, client, pipe # "old", cache = "new", [HandlersNext]_hVars, ~StartCall,
         ~ResetDiagnostics
  PROVE  cache' = "new" \/ restart # "no"
  <1>1. CASE \/ CheckClient \/ Decide \/ CheckCapability \/ WorkspaceReady \/ SendRequest
             \/ RequestAnswered \/ RequestFailed \/ UNCHANGED hVars
    BY <1>1 DEF CheckClient, Decide, CheckCapability, WorkspaceReady, SendRequest, RequestAnswered,
       RequestFailed, hVars, diagVars
  <1>2. CASE \/ WithDocument \/ ApplyWorkspaceEdit \/ CloseForReopen \/ ReopenDocument
             \/ CloseDocument \/ ReplayOpenDocument
    BY <1>2 DEF WithDocument, ApplyWorkspaceEdit, CloseForReopen, ReopenDocument, CloseDocument,
       ReplayOpenDocument, diagVars
  <1>3. CASE \/ HasPublishedDiagnostics \/ AddWorkspaceFolder \/ RemoveWorkspaceFolder
             \/ DidChangeWatchedFiles \/ SessionManager
    BY <1>3 DEF HasPublishedDiagnostics, AddWorkspaceFolder, RemoveWorkspaceFolder,
       DidChangeWatchedFiles, SessionManager, diagVars
  <1>4. CASE \/ RestartHere \/ RestartElsewhere \/ RestartRefused \/ ShutdownAndReset
             \/ StartProcess \/ Initialize \/ RestartDone \/ Restarted
    BY <1>4 DEF RestartHere, RestartElsewhere, SnapshotDocuments, RestartRefused, ShutdownAndReset,
       StartProcess, Initialize, RestartDone, Restarted, diagVars
  <1>5. CASE StartLsp \/ Crash \/ Publish \/ CachePublication
    BY <1>5 DEF StartLsp, Crash, Publish, CachePublication, diagVars, HandlerTypes
  <1>. QED BY <1>1, <1>2, <1>3, <1>4, <1>5 DEF HandlersNext

\* the places an edit tool's call may move to
LEMMA EditMoves ==
  ASSUME HandlerTypes, Moves, tool \in EditTool, pc' # 0
  PROVE  LET w == WriteAt(tool)
         IN /\ w \in Nat /\ w > 1 /\ pc \in Nat /\ pc' \in Nat /\ pc > 0 /\ pc <= pc'
            /\ pc < w => pc' <= w
            /\ pc = w => (pc' <= w + 1 /\ (pc' # pc => written'))
            /\ pc = w + 1 /\ pc' # pc => ResetDiagnostics
            /\ pc = 1 /\ pc' # pc => client
  <1>1. pc > 0 /\ pc \in 1..Len(Handlers[tool]) /\ pc \in Nat /\ pc' \in Nat
    BY MoveStep, Lengths DEF HandlerTypes
  <1>2. /\ WriteAt(tool) \in Nat /\ WriteAt(tool) > 1
        /\ pc < WriteAt(tool) => \A n \in Outs(Here) : pc + n <= WriteAt(tool)
        /\ pc = WriteAt(tool) => Here.do = "write" /\ Outs(Here) = {1, Fail}
        /\ pc = WriteAt(tool) + 1 => Here.do = "reset"
    BY <1>1, EditPlaces DEF Here
  <1>3. pc' = pc \/ \E n \in Outs(Here) : n \in Int /\ n > 0 /\ pc' = pc + n
    BY MoveStep
  <1>4. pc = 1 => Here.do = "client"
    BY <1>1, EditPlaces DEF Here
  <1>. QED BY <1>1, <1>2, <1>3, <1>4 DEF Moves, Fail

LEMMA NewTextStep ==
  ASSUME HandlersInv, [HandlersNext]_hVars
  PROVE  OnlyNewText'
  <1>. USE DEF HandlersInv
  <1>1. CASE StartCall
    <2>1. verified' = FALSE /\ pc' = 1
      BY <1>1 DEF StartCall
    <2>. QED BY <2>1 DEF OnlyNewText, WriteAt
  <1>2. CASE Moves /\ ~StartCall
    <2>1. /\ tool' = tool /\ (disturbed => disturbed') /\ (client => client')
          /\ written => written'
          /\ pc' \in Nat /\ pc \in Nat /\ (pc = 0 => pc' = 0)
          /\ tool \in EditTool => WriteAt(tool) \in Nat /\ WriteAt(tool) > 1
      BY <1>2, MoveStep DEF Moves, HandlerTypes, WriteAt
    <2>2. /\ ResetDiagnostics \/ late' = late
          /\ HasPublishedDiagnostics \/ verified' = verified
      BY <1>2, FlagsMove
    <2>3. ASSUME tool \in EditTool, pc' > 1 PROVE client'
      BY <1>2, <2>1, <2>3, EditMoves DEF OnlyNewText
    <2>4. ASSUME tool \in EditTool, pc' > WriteAt(tool) PROVE written'
      BY <1>2, <2>1, <2>4, EditMoves DEF OnlyNewText
    <2>5. /\ At("reset") => pc > 0 /\ tool \in EditTool /\ pc = WriteAt(tool) + 1
          /\ At("count") => pc > 0 /\ tool \in EditTool /\ pc = WriteAt(tool) + 4
      <3>1. ASSUME pc > 0, Here.do \in {"reset", "count"}
            PROVE  tool \in EditTool /\ pc \in 1..Len(Handlers[tool])
        <4>1. pc \in 1..Len(Handlers[tool]) /\ tool \in Tool
          BY <3>1, Lengths DEF HandlerTypes
        <4>. QED BY <3>1, <4>1, ScriptFacts DEF Here
      <3>. QED BY <3>1, EditPlaces DEF Here, At
    <2>6. /\ HasPublishedDiagnostics => At("count") /\ Advance(1) /\ cache' = cache
          /\ HasPublishedDiagnostics /\ verified' => cache # "no"
          /\ ResetDiagnostics => At("reset") /\ verified' = verified
      BY DEF HasPublishedDiagnostics, ResetDiagnostics
    <2>7. ASSUME verified'
          PROVE  /\ tool \in EditTool /\ (pc' = 0 \/ pc' > WriteAt(tool) + 4) /\ client' /\ written'
                 /\ HasPublishedDiagnostics \/ verified
                 /\ pc = 0 \/ pc >= WriteAt(tool) + 4
      <3>1. CASE HasPublishedDiagnostics
        BY <2>1, <2>5, <2>6, <3>1 DEF OnlyNewText, Advance
      <3>2. CASE ~HasPublishedDiagnostics
        <4>1. /\ verified /\ tool \in EditTool /\ (pc = 0 \/ pc > WriteAt(tool) + 4)
              /\ client /\ written
          BY <2>2, <2>7, <3>2 DEF OnlyNewText
        <4>2. pc' = 0 \/ pc' >= pc
          BY <1>2, <4>1, EditMoves
        <4>. QED BY <2>1, <4>1, <4>2
      <3>. QED BY <3>1, <3>2
    <2>8. ASSUME verified' \/ (tool \in EditTool /\ pc' > WriteAt(tool) + 1), ~late', ~disturbed'
          PROVE  NewOnly'
      <3>1. CASE ResetDiagnostics
        BY <2>8, <3>1 DEF ResetDiagnostics, NewOnly, HandlerTypes, docVars
      <3>2. CASE ~ResetDiagnostics
        <4>1. verified \/ (tool \in EditTool /\ pc > WriteAt(tool) + 1)
          <5>1. CASE verified'
            <6>1. HasPublishedDiagnostics => tool \in EditTool /\ pc > WriteAt(tool) + 1
              BY <2>1, <2>5, <2>6
            <6>. QED BY <2>7, <5>1, <6>1
          <5>2. CASE tool \in EditTool /\ pc' > WriteAt(tool) + 1
            BY <1>2, <2>1, <3>2, <5>2, EditMoves
          <5>. QED BY <2>8, <5>1, <5>2
        <4>2. NewOnly /\ written /\ client
          BY <2>1, <2>2, <2>8, <3>2, <4>1 DEF OnlyNewText, NewOnly
        <4>. QED BY <1>2, <4>2, NewOnlyStays
      <3>. QED BY <3>1, <3>2
    <2>9. ASSUME verified', ~late', ~disturbed' PROVE cache' = "new"
      <3>1. ~ResetDiagnostics
        <4>1. At("reset") => tool \in EditTool /\ pc > 0 /\ pc < WriteAt(tool) + 4
          BY <2>1, <2>5
        <4>2. tool \in EditTool /\ (pc = 0 \/ pc >= WriteAt(tool) + 4)
          BY <2>7, <2>9
        <4>3. ~At("reset")
          BY <2>1, <4>1, <4>2
        <4>. QED BY <2>6, <4>3
      <3>2. late' = late /\ ~late /\ ~disturbed /\ restart = "no"
        BY <2>1, <2>2, <2>9, <3>1 DEF GapsEndCalls
      <3>3. CASE HasPublishedDiagnostics
        <4>1. cache # "old" /\ cache # "no" /\ cache' = cache
          <5>1. tool \in EditTool /\ pc > WriteAt(tool) + 1
            BY <2>1, <2>5, <2>6, <3>3
          <5>. QED BY <2>6, <2>9, <3>2, <3>3, <5>1 DEF OnlyNewText
        <4>. QED BY <4>1 DEF HandlerTypes
      <3>4. CASE verified
        BY <1>2, <3>1, <3>2, <3>4, NewStaysCached DEF OnlyNewText
      <3>. QED BY <2>7, <2>9, <3>3, <3>4
    <2>. QED BY <2>1, <2>3, <2>4, <2>7, <2>8, <2>9 DEF OnlyNewText, NewOnly
  <1>. QED BY <1>1, <1>2, StepsMove

LEMMA InitHandlers == HandlersInit => HandlersInv
  BY DEF HandlersInit, HandlersInv, HandlerTypes, ServerHolds, GapsEndCalls, PreviewAt, OnlyNewText,
     EditTool

LEMMA NextHandlers == HandlersInv /\ [HandlersNext]_hVars => HandlersInv'
  BY TypesStep, ServerStep, GapsStep, PreviewStep, NewTextStep DEF HandlersInv

LEMMA HandlersInvHolds ==
  HandlersInv => AbsenceIsAnswered /\ ChangesFollowOpen /\ VerifiedIsAfterEdit /\ PreviewLeavesNothing
  <1>. SUFFICES ASSUME HandlersInv
                PROVE  AbsenceIsAnswered /\ ChangesFollowOpen /\ VerifiedIsAfterEdit
                       /\ PreviewLeavesNothing
    OBVIOUS
  <1>1. AbsenceIsAnswered
    BY DEF HandlersInv, GapsEndCalls, AbsenceIsAnswered
  <1>2. ChangesFollowOpen /\ VerifiedIsAfterEdit
    BY DEF HandlersInv, ServerHolds, OnlyNewText, ChangesFollowOpen, VerifiedIsAfterEdit
  <1>3. PreviewLeavesNothing
    <2>1. Len(Handlers["preview_edit"]) = 8
      BY PreviewSteps
    <2>2. /\ pc \in Nat /\ (pc > 0 => pc <= Len(Handlers[tool]) /\ result = "none")
      BY DEF HandlersInv, HandlerTypes
    <2>3. ASSUME tool = "preview_edit" PROVE pc \in 0..8 /\ (pc > 0 => result = "none")
      <3>1. Len(Handlers[tool]) = 8
        BY <2>1, <2>3
      <3>. QED BY <2>2, <3>1
    <2>. QED BY <2>3 DEF HandlersInv, PreviewAt, PreviewLeavesNothing
  <1>. QED BY <1>1, <1>2, <1>3

-----------------------------------------------------------------------------
(* blast_radius *)

\* A caller is attributed once the file is known, and is the one declaration that
\* FindEnclosingCaller names at the place of the references.
ImpactInv ==
  /\ decls \in Seq(Declaration) /\ at \in Nat
  /\ ipc = "idle" => callers = {}
  /\ \A c \in callers : c.by = -1 \/ c.by = FindEnclosingCaller(at)

LEMMA LeastElement ==
  ASSUME NEW T \in SUBSET Nat, T # {}
  PROVE  \E x \in T : \A y \in T : x =< y
  <1>1. PICK x \in T : \A y \in T : ~ (<<y, x>> \in OpToRel(<, Nat))
    BY WFMin, NatLessThanWellFounded
  <1>2. \A y \in T : ~ (y < x)
    BY <1>1, Zenon DEF OpToRel
  <1>3. \A y \in T : x =< y
    BY <1>2
  <1>. QED BY <1>3

\* However long the list, one of the declarations around a position is the smallest,
\* and the first of its size: Smallest returns it.
LEMMA SmallestAround ==
  ASSUME decls \in Seq(Declaration), NEW p \in Nat, NEW some \in SUBSET All, some # {},
         \A i \in some : PositionInRange(p, decls[i])
  PROVE  /\ Smallest(some) \in some
         /\ \A j \in some : Size(Smallest(some)) =< Size(j)
  <1> DEFINE sizes == {Size(i) : i \in some}
             least(i) == \A j \in some : Size(i) < Size(j) \/ (Size(i) = Size(j) /\ i <= j)
  <1>1. \A i \in some : i \in Nat /\ Size(i) \in Nat
    <2>1. ASSUME NEW i \in some PROVE i \in Nat /\ Size(i) \in Nat
      <3>1. i \in 1..Len(decls) /\ Len(decls) \in Nat
        BY DEF All
      <3>2. decls[i] \in Declaration
        BY <3>1
      <3>3. decls[i].from \in Nat /\ decls[i].to \in Nat
        BY <3>2 DEF Declaration
      <3>4. decls[i].from <= p /\ p < decls[i].to
        BY DEF PositionInRange
      <3>. QED BY <3>1, <3>3, <3>4 DEF Size
    <2>. QED BY <2>1
  <1>2. PICK z \in sizes : \A y \in sizes : z =< y
    <2>1. sizes \in SUBSET Nat /\ sizes # {}
      BY <1>1
    <2> HIDE DEF sizes
    <2>. QED BY <2>1, LeastElement
  <1> DEFINE firsts == {i \in some : Size(i) = z}
  <1>3. PICK m \in firsts : \A y \in firsts : m =< y
    <2>1. firsts \in SUBSET Nat /\ firsts # {}
      BY <1>1
    <2> HIDE DEF firsts
    <2>. QED BY <2>1, LeastElement
  <1>4. \A j \in some : z =< Size(j) /\ (Size(j) = z => m =< j)
    BY <1>2, <1>3
  <1>5. m \in some /\ Size(m) = z /\ z \in Nat
    BY <1>1, <1>3
  <1>6. least(m)
    BY <1>1, <1>4, <1>5
  <1>7. Smallest(some) = CHOOSE i \in some : least(i)
    BY DEF Smallest
  <1> HIDE DEF least
  <1>8. Smallest(some) \in some /\ least(Smallest(some))
    BY <1>5, <1>6, <1>7
  <1>9. \A j \in some : Size(Smallest(some)) =< Size(j)
    BY <1>1, <1>8 DEF least
  <1>. QED BY <1>8, <1>9

\* A declaration inside another is smaller.
LEMMA InsideIsSmaller ==
  ASSUME decls \in Seq(Declaration), NEW i \in All, NEW j \in All,
         RangeContains(decls[i], decls[j])
  PROVE  Size(j) < Size(i)
  <1>1. decls[i] \in Declaration /\ decls[j] \in Declaration
    BY DEF All
  <1>2. /\ decls[i].from \in Nat /\ decls[i].to \in Nat
        /\ decls[j].from \in Nat /\ decls[j].to \in Nat
    BY <1>1 DEF Declaration
  <1>3. decls[i].from # decls[j].from \/ decls[i].to # decls[j].to
    BY DEF RangeContains
  <1>4. decls[i].from <= decls[j].from /\ decls[j].to <= decls[i].to
    BY DEF RangeContains
  <1>. QED BY <1>2, <1>3, <1>4 DEF Size

LEMMA InvNamesCallers == ImpactInv => CallersAreNamed
  <1> DEFINE around == {i \in CallerSymbolCandidates : PositionInRange(at, decls[i])}
  <1>. SUFFICES ASSUME ImpactInv, NEW c \in NonTestCallers, around # {}
                PROVE  c.by \in around /\ \A i \in around : ~RangeContains(decls[c.by], decls[i])
    BY DEF CallersAreNamed
  <1>1. decls \in Seq(Declaration) /\ at \in Nat /\ c.by = FindEnclosingCaller(at)
    BY DEF ImpactInv, NonTestCallers
  <1>2. around \in SUBSET All /\ \A i \in around : PositionInRange(at, decls[i])
    BY DEF CallerSymbolCandidates, Kept
  <1>3. FindEnclosingSymbolAt(CallerSymbolCandidates, at) = Smallest(around)
    BY DEF FindEnclosingSymbolAt
  <1> HIDE DEF around
  <1>4. Smallest(around) \in around /\ \A j \in around : Size(Smallest(around)) =< Size(j)
    BY <1>1, <1>2, SmallestAround
  <1>5. Smallest(around) \in Nat \ {0}
    <2>1. Smallest(around) \in All /\ Len(decls) \in Nat
      BY <1>1, <1>2, <1>4
    <2>. QED BY <2>1 DEF All
  <1>6. c.by = Smallest(around)
    BY <1>1, <1>3, <1>5 DEF FindEnclosingCaller
  <1>7. ASSUME NEW i \in around, RangeContains(decls[c.by], decls[i]) PROVE FALSE
    <2>1. i \in All /\ c.by \in All
      BY <1>2, <1>4, <1>6
    <2>2. Size(i) < Size(c.by)
      BY <1>1, <1>7, <2>1, InsideIsSmaller
    <2>3. Size(c.by) =< Size(i)
      BY <1>4, <1>6
    <2>4. Size(i) \in Int /\ Size(c.by) \in Int
      <3>1. decls[i] \in Declaration /\ decls[c.by] \in Declaration
        BY <1>1, <2>1 DEF All
      <3>. QED BY <3>1 DEF Declaration, Size
    <2>. QED BY <2>2, <2>3, <2>4
  <1>. QED BY <1>4, <1>6, <1>7

LEMMA InitImpact == ImpactInit => ImpactInv
  BY DEF ImpactInit, ImpactInv

\* Sorting the list moves the declarations and changes none.
LEMMA OrderedIsList ==
  ASSUME NEW list \in Seq(Declaration), NEW o \in Ordered(list)
  PROVE  o \in Seq(Declaration)
  <1>1. Len(list) \in Nat /\ DOMAIN list = 1..Len(list)
    OBVIOUS
  <1>2. PICK p \in [DOMAIN list -> DOMAIN list] : o = [i \in DOMAIN list |-> list[p[i]]]
    BY DEF Ordered, Sorting
  <1>3. o \in [1..Len(list) -> Declaration]
    BY <1>1, <1>2
  <1>. QED BY <1>1, <1>3

LEMMA NextImpact == ImpactInv /\ [ImpactNext]_iVars => ImpactInv'
  <1>. SUFFICES ASSUME ImpactInv, [ImpactNext]_iVars PROVE ImpactInv'
    OBVIOUS
  <1>1. ASSUME decls' = decls, at' = at
        PROVE  FindEnclosingCaller(at)' = FindEnclosingCaller(at)
    BY <1>1 DEF FindEnclosingCaller, FindEnclosingSymbolAt, Smallest, Size, PositionInRange,
                CallerSymbolCandidates, DeclarationCandidates, Kept, OfKind, Shapes, Above,
                ParameterOrLocal, Container, All, RangeContains
  <1>2. CASE ChangedFile
    <2>1. PICK f \in Files : decls' \in Ordered(f)
      BY <1>2 DEF ChangedFile
    <2>2. f \in Seq(Declaration) /\ LastPosition \in Nat
      BY FilesAssumption
    <2>3. decls' \in Seq(Declaration)
      BY <2>1, <2>2, OrderedIsList
    <2>4. at' \in Nat
      BY <1>2, <2>2 DEF ChangedFile
    <2>5. callers' = {}
      BY <1>2 DEF ChangedFile, ImpactInv
    <2>. QED BY <2>3, <2>4, <2>5 DEF ImpactInv
  <1>3. CASE Attribute
    <2>1. decls' = decls /\ at' = at /\ ipc' = ipc /\ ipc = "attribute"
      BY <1>3 DEF Attribute, inputVars
    <2>2. \A c \in callers' : c \in callers \/ c.by = -1 \/ c.by = FindEnclosingCaller(at)
      BY <1>3 DEF Attribute
    <2>. QED BY <1>1, <2>1, <2>2 DEF ImpactInv
  <1>4. CASE CollectSymbols \/ QueryReferences \/ QueriesDone \/ Report \/ UNCHANGED iVars
    <2>1. decls' = decls /\ at' = at /\ callers' = callers /\ (ipc' = "idle" => ipc = "idle")
      BY <1>4 DEF CollectSymbols, QueryReferences, QueriesDone, Report, inputVars, iVars
    <2>. QED BY <1>1, <2>1 DEF ImpactInv
  <1>. QED BY <1>2, <1>3, <1>4 DEF ImpactNext

-----------------------------------------------------------------------------
(* The tools together *)

ToolsInv == VerdictInv /\ SearchInv /\ HandlersInv /\ ImpactInv

LEMMA InitTools == Init => ToolsInv
  BY InitVerdict, InitSearch, InitHandlers, InitImpact DEF Init, ToolsInv

LEMMA NextTools == ToolsInv /\ [Next]_vars => ToolsInv'
  <1>. SUFFICES ASSUME ToolsInv, [Next]_vars PROVE ToolsInv'
    OBVIOUS
  <1>1. [VerdictNext]_vVars /\ [SearchNext]_zVars /\ [HandlersNext]_hVars /\ [ImpactNext]_iVars
    BY DEF Next, vars
  <1>. QED BY <1>1, NextVerdict, NextSearch, NextHandlers, NextImpact DEF ToolsInv

\* get_diagnostics says "safe" only of documents that were each found clean, for
\* any number of documents and of publications while it runs (analysis.go:146-157).
THEOREM SafeVerdict == Spec => []SafeIsClean
  <1>1. ToolsInv => SafeIsClean
    BY InvIsSafe DEF ToolsInv
  <1>. QED BY <1>1, InitTools, NextTools, PTL DEF Spec

\* find_symbol qualifies every "nothing found" that is not the answer of every server
\* that stayed, whatever lists of servers there are and however often they come and
\* go (analysis.go:867-913).
THEOREM NothingFoundIsSaid == Spec => []NotFoundIsSaid
  <1>1. ToolsInv => NotFoundIsSaid
    BY SearchInvHolds DEF ToolsInv
  <1>. QED BY <1>1, InitTools, NextTools, PTL DEF Spec

\* No handler makes an empty answer of a question that went unanswered, over any
\* number of calls, crashes and restarts.
THEOREM AbsencesAreAnswered == Spec => []AbsenceIsAnswered
  <1>1. ToolsInv => AbsenceIsAnswered
    BY HandlersInvHolds DEF ToolsInv
  <1>. QED BY <1>1, InitTools, NextTools, PTL DEF Spec

\* A server is told of a change only in a document it holds, through every crash,
\* restart and replay of the open documents (Restart, OpenDocument, ReopenDocument).
THEOREM OpensPrecedeChanges == Spec => []ChangesFollowOpen
  <1>1. ToolsInv => ChangesFollowOpen
    BY HandlersInvHolds DEF ToolsInv
  <1>. QED BY <1>1, InitTools, NextTools, PTL DEF Spec

\* The diagnostics an edit tool reports as verified are about the text it wrote
\* (getDiagnosticsForFileStatus).
THEOREM VerifiedFollowsEdit == Spec => []VerifiedIsAfterEdit
  <1>1. ToolsInv => VerifiedIsAfterEdit
    BY HandlersInvHolds DEF ToolsInv
  <1>. QED BY <1>1, InitTools, NextTools, PTL DEF Spec

\* preview_edit discards and destroys its session on every way out.
THEOREM PreviewsCleanUp == Spec => []PreviewLeavesNothing
  <1>1. ToolsInv => PreviewLeavesNothing
    BY HandlersInvHolds DEF ToolsInv
  <1>. QED BY <1>1, InitTools, NextTools, PTL DEF Spec

\* blast_radius names as the caller of a reference inside a function the smallest
\* declaration around it that can call, however many declarations the file has and
\* however they nest (change_impact.go:746-820).
THEOREM CallersNamed == Spec => []CallersAreNamed
  <1>1. ToolsInv => CallersAreNamed
    BY InvNamesCallers DEF ToolsInv
  <1>. QED BY <1>1, InitTools, NextTools, PTL DEF Spec
=============================================================================
