------------------------------- MODULE Search --------------------------------
(***************************************************************************)
(* find_symbol (internal/tools/analysis.go, index_coverage.go): one query   *)
(* to every connected server at once, the answers merged, and what is said  *)
(* about servers that did not answer.  Servers exit and come back while the *)
(* call runs; several of its steps look at which are initialized again.     *)
(***************************************************************************)
EXTENDS Integers, Sequences, FiniteSets

CONSTANTS
  ClientLists,     \* the lists workspaceQueryClients may return, default client first
  AnswerLists,     \* the symbols a server may answer with
  ServerQueries,   \* maxParallelServerQueries
  MaxChanges       \* bound: servers that exit or come back

ASSUME ClientListsAssumption == \A list \in ClientLists : Len(list) \in Nat

VARIABLES
  zpc,             \* idle, start, fanout, note, enrich, done, error
  clients, initialized, declares,
  index,           \* whole; or only opened documents: all of them, or some are not
  outcome, syms,   \* of each server's query
  anyDeclared, merged, failureNote, emptyCause, enriched,
  unsteady, changes   \* history: servers that exited or came back during the call

zVars == <<zpc, clients, initialized, declares, index, outcome, syms, anyDeclared, merged,
           failureNote, emptyCause, enriched, unsteady, changes>>
serversVars == <<clients, declares, index>>
changeVars == <<initialized, unsteady, changes>>
noteVars == <<failureNote, emptyCause, enriched>>

Servers == {clients[i] : i \in 1..Len(clients)}
Several == Len(clients) > 1
Initialized == {s \in Servers : initialized[s]}
Ended(how) == {s \in Servers : outcome[s] = how}

SearchInit ==
  /\ zpc = "idle" /\ clients = <<>> /\ initialized = <<>> /\ declares = <<>> /\ index = <<>>
  /\ outcome = <<>> /\ syms = <<>>
  /\ anyDeclared = FALSE /\ merged = <<>>
  /\ failureNote = {} /\ emptyCause = "none" /\ enriched = {}
  /\ unsteady = {} /\ changes = 0

\* The call finds the servers in some state.
WorkspaceQueryClients ==
  /\ zpc = "idle" /\ zpc' = "start"
  /\ clients' \in ClientLists
  /\ initialized' \in [Servers' -> BOOLEAN] /\ declares' \in [Servers' -> BOOLEAN]
  /\ index' \in [Servers' -> {"whole", "opened", "some"}]
  /\ outcome' = [s \in Servers' |-> "none"] /\ syms' = [s \in Servers' |-> <<>>]
  /\ UNCHANGED <<anyDeclared, merged, noteVars, unsteady, changes>>

HandleGetWorkspaceSymbolsMulti ==
  /\ zpc = "start"
  /\ zpc' = IF Initialized = {} THEN "error" ELSE "fanout"
  /\ anyDeclared' = \E s \in Initialized : declares[s]
  /\ outcome' = [s \in Servers |-> IF s \notin Initialized THEN "none"
                                   ELSE IF Several THEN "queued" ELSE "asked"]
  /\ UNCHANGED <<serversVars, changeVars, syms, merged, noteVars>>

\* One of the parallel queries may start; its cap starts with it.
TakeSlot == \E s \in Ended("queued") :
  /\ zpc = "fanout" /\ Cardinality(Ended("asked")) < ServerQueries
  /\ outcome' = [outcome EXCEPT ![s] = "asked"]
  /\ UNCHANGED <<zpc, serversVars, changeVars, syms, anyDeclared, merged, noteVars>>

\* A server that does not declare the capability is not asked: it has nothing.
QueryAnswered == \E s \in Ended("asked"), found \in AnswerLists :
  /\ zpc = "fanout" /\ (~declares[s] => found = <<>>)
  /\ outcome' = [outcome EXCEPT ![s] = "answered"] /\ syms' = [syms EXCEPT ![s] = found]
  /\ UNCHANGED <<zpc, serversVars, changeVars, anyDeclared, merged, noteVars>>

\* "errored", or, with several servers, "timedOut" when the cap expires first
QueryEnds == \E s \in Ended("asked"), how \in {"errored", "timedOut"} :
  /\ zpc = "fanout" /\ declares[s] /\ (how = "timedOut" => Several)
  /\ outcome' = [outcome EXCEPT ![s] = how]
  /\ UNCHANGED <<zpc, serversVars, changeVars, syms, anyDeclared, merged, noteVars>>

CallerGone ==
  /\ zpc = "fanout" /\ zpc' = "error"
  /\ UNCHANGED <<serversVars, changeVars, outcome, syms, anyDeclared, merged, noteVars>>

\* Of a symbol reported by several servers the first one's copies stay.
Deduplicate(all) ==
  SelectSeq(all, LAMBDA e : \E i \in 1..Len(all) :
     /\ all[i].sym = e.sym /\ all[i].client = e.client
     /\ \A j \in 1..(i - 1) : all[j].sym # e.sym)

\* The answers in the order of the servers, each with the server it came from.
AllAnswers ==
  LET answers(c) == [k \in 1..Len(syms[c]) |-> [sym |-> syms[c][k], client |-> c]]
      upTo[n \in 0..Len(clients)] == IF n = 0 THEN <<>> ELSE upTo[n - 1] \o answers(clients[n])
  IN upTo[Len(clients)]

\* How many servers there are is counted again, after the queries.
MergeAnswers ==
  /\ zpc = "fanout" /\ Ended("queued") = {} /\ Ended("asked") = {}
  /\ LET all == AllAnswers
         silent == Cardinality(Ended("errored") \cup Ended("timedOut"))
         count == Cardinality(Initialized)
     IN /\ zpc' = IF all = <<>> /\ silent = count /\ count > 0 THEN "error" ELSE "note"
        /\ merged' = IF count > 1 THEN Deduplicate(all) ELSE all
  /\ UNCHANGED <<serversVars, changeVars, outcome, syms, anyDeclared, noteVars>>

FailedOnly == IF Several THEN Ended("errored") \cup Ended("timedOut") ELSE {}   \* mutant
\* The servers the note names: they failed, timed out, or are not initialized now.
NamedInNote ==
  IF Several THEN Ended("errored") \cup Ended("timedOut") \cup (Servers \ Initialized) ELSE {}

\* probeWorkspaceCoverage: interrupted, it does not claim complete coverage.
CoverageCaveat(interrupted) ==
  \E s \in Initialized : declares[s] /\ (index[s] = "some" \/ (index[s] = "opened" /\ interrupted))

\* What qualifies an empty result; only then the coverage is looked at.
QualifyResult ==
  /\ zpc = "note" /\ failureNote' = NamedInNote
  /\ \E interrupted \in BOOLEAN :
       emptyCause' = CASE merged # <<>> -> "none"
                       [] merged = <<>> /\ ~anyDeclared -> "undeclared"
                       [] OTHER -> IF CoverageCaveat(interrupted) THEN "coverage" ELSE "none"
  /\ zpc' \in {"done", "enrich"}
  /\ UNCHANGED <<serversVars, changeVars, outcome, syms, anyDeclared, merged, enriched>>

\* Hovers of the window's symbols at the servers that own them; a failure is quiet.
SymbolPaginationWindow(total, offset, limit) ==
  {i \in 1..total : i > offset /\ i <= offset + limit}
Enrich ==
  /\ zpc = "enrich" /\ zpc' = "done"
  /\ \E offset \in 0..1 :
       enriched' \in SUBSET {i \in SymbolPaginationWindow(Len(merged), offset, 1) :
                               initialized[merged[i].client]}
  /\ UNCHANGED <<serversVars, changeVars, outcome, syms, anyDeclared, merged, failureNote, emptyCause>>

ServerExitsOrReturns == \E s \in Servers :
  /\ zpc \in {"fanout", "note"} /\ changes < MaxChanges /\ changes' = changes + 1
  /\ initialized' = [initialized EXCEPT ![s] = ~@] /\ unsteady' = unsteady \cup {s}
  /\ UNCHANGED <<zpc, serversVars, outcome, syms, anyDeclared, merged, noteVars>>

SearchNext ==
  \/ WorkspaceQueryClients \/ HandleGetWorkspaceSymbolsMulti \/ TakeSlot \/ QueryAnswered
  \/ QueryEnds \/ CallerGone \/ MergeAnswers \/ QualifyResult \/ Enrich \/ ServerExitsOrReturns

(***************************************************************************)
(* Properties                                                              *)
(***************************************************************************)

\* An unqualified "nothing found" is the answer of every connected server that did
\* not come or go during the call, and none of them indexes only a part of the
\* workspace (analysis.go:867-913, issues 42 and 55).
NotFoundIsSaid ==
  zpc = "done" /\ merged = <<>> /\ failureNote = {} /\ emptyCause = "none" =>
    \A s \in Servers \ unsteady :
      outcome[s] = "answered" /\ (declares[s] => index[s] # "some")
=============================================================================
