------------------------------- MODULE Verdict -------------------------------
(***************************************************************************)
(* get_diagnostics (internal/tools/analysis.go): what an empty answer may   *)
(* claim.  A document is verified by a publication or by a pull; the read   *)
(* loop publishes, and other calls drop cached diagnostics, between any two *)
(* of the handler's steps.                                                  *)
(***************************************************************************)
EXTENDS Integers, FiniteSets

CONSTANTS Document, MaxPublications

VARIABLES
  vpc,            \* idle, start, wait, pull, pulling, classify, done, error
  one,            \* file_path was given
  queried,        \* queriedURIs
  provider,       \* the server declares diagnosticProvider, and the fallback is on
  diags,          \* the client's cache: never, empty or errors per document
  diagMap,        \* the result: absent, empty or errors per document
  toPull, pulling,             \* left of the loop; the document whose pull is pending
  spent,                       \* the aggregate budget is over
  attempted, pulledLive, pulledAs,
  toClassify, dead, verdict,
  overtaken,      \* history: published to after its entry was read, and not in its pull
  publications    \* bounded

vVars == <<vpc, one, queried, provider, diags, diagMap, toPull, pulling, spent, attempted,
           pulledLive, pulledAs, toClassify, dead, verdict, overtaken, publications>>
queryVars == <<one, queried, provider>>
pullVars == <<toPull, pulling, spent, attempted, pulledLive, pulledAs>>
verdictVars == <<toClassify, dead, verdict>>

Answer == {"empty", "errors"}

VerdictInit ==
  /\ vpc = "idle" /\ one = FALSE /\ queried = {} /\ provider = FALSE
  /\ diags = [d \in Document |-> "never"]
  /\ diagMap = [d \in Document |-> "absent"]
  /\ toPull = {} /\ pulling = {} /\ spent = FALSE /\ attempted = {} /\ pulledLive = {}
  /\ pulledAs = diagMap
  /\ toClassify = {} /\ dead = {} /\ verdict = "none"
  /\ overtaken = {} /\ publications = 0

\* The cache holds what earlier calls and publications left there.
GetDiagnosticsCalled ==
  /\ vpc = "idle" /\ vpc' = "start"
  /\ provider' \in BOOLEAN /\ diags' \in [Document -> {"never"} \cup Answer]
  /\ UNCHANGED <<one, queried, diagMap, pullVars, verdictVars, overtaken, publications>>

HasPublished(d) == diags[d] # "never"
Cached(d) == IF HasPublished(d) THEN diags[d] ELSE "empty"

\* The file, or whatever is open, is reopened; one that cannot be is an error.
HandleGetDiagnostics ==
  /\ vpc = "start"
  /\ \/ /\ vpc' = "wait" /\ one' \in BOOLEAN /\ queried' \in SUBSET Document
        /\ one' => Cardinality(queried') = 1
     \/ vpc' = "error" /\ UNCHANGED <<one, queried>>
  /\ UNCHANGED <<provider, diags, diagMap, pullVars, verdictVars, overtaken, publications>>

\* The wait ends, and the cache is read once for every queried document; only the
\* query of one file has an entry for a document nothing was published about.
ReadDiagnostics ==
  /\ vpc = "wait"
  /\ diagMap' = [d \in Document |-> IF d \in queried /\ (one \/ HasPublished(d)) THEN Cached(d)
                                    ELSE "absent"]
  /\ toPull' = (IF provider THEN queried ELSE {})
  /\ toClassify' = queried
  /\ vpc' = "pull"
  /\ UNCHANGED <<queryVars, diags, pulling, spent, attempted, pulledLive, pulledAs, dead, verdict,
                 overtaken, publications>>
WaitForDiagnosticsFails ==
  /\ vpc = "wait" /\ vpc' = "error"
  /\ UNCHANGED <<queryVars, diags, diagMap, pullVars, verdictVars, overtaken, publications>>

\* shouldAttemptPull, then the budget.
SkipPublished == \E d \in toPull :
  /\ vpc = "pull" /\ HasPublished(d) /\ toPull' = toPull \ {d}
  /\ UNCHANGED <<vpc, queryVars, diags, diagMap, pulling, spent, attempted, pulledLive, pulledAs,
                 verdictVars, overtaken, publications>>
BudgetOver ==
  /\ vpc \in {"pull", "pulling"} /\ toPull # {} /\ ~spent /\ spent' = TRUE
  /\ UNCHANGED <<vpc, queryVars, diags, diagMap, toPull, pulling, attempted, pulledLive, pulledAs,
                 verdictVars, overtaken, publications>>
SkipTheRest ==
  /\ vpc = "pull" /\ spent /\ \E d \in toPull : ~HasPublished(d)
  /\ toPull' = {}
  /\ UNCHANGED <<vpc, queryVars, diags, diagMap, pulling, spent, attempted, pulledLive, pulledAs,
                 verdictVars, overtaken, publications>>
Pull == \E d \in toPull :
  /\ vpc = "pull" /\ ~HasPublished(d) /\ ~spent
  /\ vpc' = "pulling" /\ pulling' = {d} /\ toPull' = toPull \ {d}
  /\ attempted' = attempted \cup {d}
  /\ UNCHANGED <<queryVars, diags, diagMap, spent, pulledLive, pulledAs, verdictVars, overtaken,
                 publications>>

PushedWhilePulling(d) == FALSE                                              \* mutant
\* A publication that arrived meanwhile wins over the answer, and over its absence.
PushWins(d) == HasPublished(d)
PullEnds == \E d \in pulling, answer \in Answer \cup {"failed"} :
  /\ vpc = "pulling" /\ vpc' = "pull" /\ pulling' = {}
  /\ IF PushWins(d)
     THEN /\ diagMap' = [diagMap EXCEPT ![d] = Cached(d)] /\ overtaken' = overtaken \ {d}
          /\ UNCHANGED <<pulledLive, pulledAs>>
     ELSE IF answer = "failed" THEN UNCHANGED <<diagMap, overtaken, pulledLive, pulledAs>>
     ELSE /\ diagMap' = [diagMap EXCEPT ![d] = answer] /\ overtaken' = overtaken \ {d}
          /\ pulledLive' = pulledLive \cup {d} /\ pulledAs' = [pulledAs EXCEPT ![d] = answer]
  /\ UNCHANGED <<queryVars, diags, toPull, spent, attempted, verdictVars, publications>>

\* classifyDiagnosticsChannel, one document at a time
ClassifyDiagnosticsChannel == \E d \in toClassify :
  /\ vpc = "pull" /\ toPull = {}
  /\ toClassify' = toClassify \ {d}
  /\ dead' = IF HasPublished(d) \/ d \in pulledLive THEN dead ELSE dead \cup {d}
  /\ UNCHANGED <<vpc, queryVars, diags, diagMap, pullVars, verdict, overtaken, publications>>

\* "fixes": errors; "safe": no errors, safe to proceed; "partly": safe but for the
\* documents named as not confirmed; "nothing": no diagnostics received.
DiagnosticsHint ==
  /\ vpc = "pull" /\ toPull = {} /\ toClassify = {} /\ vpc' = "done"
  /\ verdict' = CASE \E d \in Document : diagMap[d] = "errors" -> "fixes"
                  [] OTHER -> IF dead = {} THEN "safe" ELSE IF dead = queried THEN "nothing" ELSE "partly"
  /\ UNCHANGED <<queryVars, diags, diagMap, pullVars, toClassify, dead, overtaken, publications>>

\* handlePublishDiagnostics, at any time
PublishDiagnostics == \E d \in Document, found \in Answer :
  /\ vpc \notin {"idle", "done", "error"}
  /\ publications < MaxPublications /\ publications' = publications + 1
  /\ diags' = [diags EXCEPT ![d] = found]
  /\ overtaken' = IF vpc \in {"pull", "pulling"} /\ d \notin pulling THEN overtaken \cup {d} ELSE overtaken
  /\ UNCHANGED <<vpc, queryVars, diagMap, pullVars, verdictVars>>
\* ResetDiagnostics of an edit by another call
DropCached == \E d \in Document :
  /\ vpc \notin {"idle", "done", "error"} /\ HasPublished(d)
  /\ diags' = [diags EXCEPT ![d] = "never"]
  /\ UNCHANGED <<vpc, queryVars, diagMap, pullVars, verdictVars, overtaken, publications>>

VerdictNext ==
  \/ GetDiagnosticsCalled \/ HandleGetDiagnostics \/ ReadDiagnostics
  \/ WaitForDiagnosticsFails \/ SkipPublished \/ BudgetOver \/ SkipTheRest \/ Pull \/ PullEnds
  \/ ClassifyDiagnosticsChannel \/ DiagnosticsHint \/ PublishDiagnostics \/ DropCached

(***************************************************************************)
(* Properties                                                              *)
(***************************************************************************)

\* "No errors. Safe to proceed." is said of documents that were each found clean:
\* by the pull that verified it, or by the last publication about it, whichever
\* way the channel was classified (analysis.go:146-157, 284-288).  A document
\* published to after its entry was read and not read again is left out (the
\* README shows what the hint then claims).
SafeIsClean ==
  verdict \in {"safe", "partly"} =>
    \A d \in queried \ (dead \cup overtaken) :
      IF d \in pulledLive THEN pulledAs[d] = "empty" ELSE diags[d] # "errors"
=============================================================================
