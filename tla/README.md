# A formal model of agent-lsp

agent-lsp is an MCP server that drives language servers for an agent: tool calls
run concurrently, share one `LSPClient` per language, and through it the language
server's documents, the diagnostics it publishes and the files on disk. These
modules model the parts of it whose correctness depends on the order in which
concurrent calls, server messages, timers, crashes and other programs act. Every
definition is translated from the Go source; `PROJECT.json` maps each one to its
lines.

## Inventory

| Component | State | Operations | What is hard | Modules |
|---|---|---|---|---|
| Speculative sessions (`internal/session`) | per session status, contents, original contents, baselines, versions, edits; one semaphore each | CreateSession, ApplyEdit, SimulateChain, Evaluate, Commit, Discard, Destroy | status checked before the semaphore is taken; Commit and Destroy outside it; several files, each of which can fail | `Session` |
| Documents and diagnostics (`lsp/client.go`, `lsp/diagnostics.go`) | open documents, cached diagnostics, publish counts and versions, marks | OpenDocument, CloseDocument, ReopenDocument, ResetDiagnostics, publishDiagnostics, the settled wait | publications lag behind changes; silence is ambiguous; look-up, count and send are three steps | `Diagnostics` |
| Workspace readiness (`lsp/client.go`, `lsp/client_notify.go`) | active and stale progress tokens, first-progress flag, loaded flag | create/begin/end of progress, readiness waits, IsWorkspaceLoaded, Restart | condition variable, timers, contexts; a flag outside the mutex | `Readiness` |
| Requests and lifecycle (`lsp/client.go`) | pending requests, process, initialized flag | sendRequest, dispatch, Initialize, Shutdown, Restart, exit monitor | answers race timeouts, exit and restart; old and new read loops | `LspClient` |
| Skill phases (`internal/phase`) | active skill, phase, history | ActivateSkill, CheckAndRecord, DeactivateSkill, Status | phases advance, never go back; a blocked tool leaves no trace | `PhaseGate`, `Phase`, `PhaseSkills` |
| Daemon broker (`lsp/daemon.go`, `lsp/daemon_broker.go`) | socket, pid file, daemon.json; connections | search, spawn, listen, publish, idle exit, stop, clean-up | two starts at once; a crash leaves files; a search reads and acts in two steps | `Daemon` |
| Edit application (`lsp/client.go`, `interactive.go`, `tools/workspace.go`, `safe_edit.go`) | files, tracked documents, the capture of a dry run | ApplyWorkspaceEdit, text-match edits, workspace/applyEdit, safe_apply_edit, refactor | one of several files fails; the text changes between plan and write | `Edits` |
| Server manager (`lsp/manager.go`, `server.go`, `tools_workspace.go`, `lsp/scope.go`) | clients per entry, the current client, the scope configuration | StartAll, StartForLanguage, auto-init, connect, Shutdown | two starts at once; starts that fail half-way; a generated file over the user's | `Server` |
| Notifications (`internal/notify`) | pending items and timers of three channels, the hub | OnDiagnostic, OnFileChange, flush, Send, Close | a timer that fired cannot be stopped; flushes overlap | `Notify` |
| Reference cache and file watcher (`lsp/cache.go`, `lsp/client.go`) | rows with a hash, watcher goroutines, batches | Get, Put, Invalidate, export, import, events, restart | hash, answer and store are three steps; an old watcher beside a new one | `References` |
| Tools (`internal/tools`) | none that outlives a call | 47 handlers | every step can fail, meet a crash or a restart; an empty answer must not be made of failures | `Handlers`, `Verdict`, `Search`, `Impact`, `Tools` |
| Diff, positions, URIs, rendering, configuration commands, logging, audit | none | | pure functions and one-shot commands | not modelled |

The components interact by direct calls. A session's ApplyEdit takes a diagnostics
mark, opens the document and asks for its version; Evaluate waits for diagnostics; a
query waits for readiness first, and may be answered by the cache, which the watcher
evicts. `readLoop` is the single goroutine that delivers publications, progress,
answers and the server's own edits, in the order the server wrote them. Language
servers are external: each model lets them do whatever the protocol lets them do.

What makes each component correct: sessions have one writer at a time, an edit log
that explains the content, and a discard that restores what was found; a settled wait
has the diagnostics of its edit; an unfinished load is not reported as finished; a
request is answered once, by the process it was written to, or fails; a tool runs only
in a phase that allows it; a broker that serves is the registered one; an edit lands in
the text it was planned on; servers that were started are reachable or shut down; no
pending notification is dropped; and a tool says "nothing", "safe" or "verified" only
when the servers said so.

## How the modules are made

One action per segment of a function between two places where another goroutine can
interfere (a lock, a channel, a request, a system call), one per error path. Texts are
opaque values or sets of edits; time is a choice at every poll; a timer may fire
whenever it is set. Variables marked `history` only record; those named `Max...` bound.

**Session.** `pc` marks the places where calls interleave: before and after the
semaphore, at every disk access and around every OpenDocument. `ApplyCheck`,
`ApplyAcquire`, `Snapshot`, `BaselineOpen`, `Mutate`, `SendChange`, `Record` are
ApplyEdit; `Evaluate...`, `Commit...`, `Discard...` the others. `disk` and `buffer` are
shared by all sessions; `ExternalWrite` is any other program. A concurrent map access
that the Go runtime detects ends the process; the model takes the other outcome, a loop
that may or may not visit a key added meanwhile.

**Diagnostics.** A document's text stands for the diagnostics computed from it.
`toServer` and `toClient` are the two ordered streams. The server's kind says whether it
sends versions, publishes unchanged diagnostics, answers before a deadline, clears on
close. Callers are sessions or tools.

**Readiness.** `Lock`, `GraceCheck`, `WaitCheck`, `Sleep`, `Relock` and `StoreLoaded` are
`waitForProgress` and what its callers do. `progressMu` is explicit, because the hazards
are steps outside it: the helper goroutine's broadcast and the store of the flag.

**LspClient.** `Register`, `Write` or `WriteFails`, `Receive` or `GiveUp` are sendRequest,
for queries and for the two requests of a restart. Each process has a read loop
(`ReadMessage`, `Take`, `Deliver`) and an exit monitor (`MonitorExit`, `RejectPending`).

**PhaseGate, Phase, PhaseSkills.** `PhaseGate` is the promise of phase enforcement: a
forbidden tool is refused and changes nothing, any other tool runs, and the workflow
moves only forward, to a phase that lists the tool. `Phase` is the tracker with its
methods and the check in front of the handlers. `Phase` shows `ImplementsGate ==
Gate!GateSpec`, where `Gate` instantiates `PhaseGate` with `work` mapped to the active
skill, its phase and the mode. `PhaseSkills` is the table of the four builtin skills.

**Daemon.** Brokers and sessions are processes, a step is one system call on the registry
directory or the socket: `FindRead` and `FindCheck` are the two halves of
FindRunningDaemon, `MakeDir`, `WritePid`, `Initialize`, `Listen`, `Publish` the start of a broker,
`CleanupCheck`, `CleanupWipe`, `CloseListener` its end. A broker may crash anywhere.

**Edits.** A text is the set of edits it holds and those spliced into another text than
the one their positions were computed on (`astray`). Calls are the kinds of editing
tools; the read loop, which applies what a server asks for with workspace/applyEdit, is an
actor of its own. `UserWrites` is another program.

**Server.** `entry` is the manager's table, `cs` the current client. The manager's mutex and
`initMu` are explicit. `cfg` and `bak` are the configuration file of a root and its backup
under a scoped start.

**Notify, References.** `Notify` has the channels with their timers; a fired timer is in
`firing` and no longer stoppable. `References` extends it with the cache's rows, queries
in steps (`Get`, `Lookup`, `Ask`, `Answered`, `PutHash`, `PutStore`) and the watcher
goroutines, which tell the server, the hub and the cache, in this order.

**Handlers, Verdict, Search, Impact, Tools.** Each of the 47 handlers is a sequence of steps
(`Ask`, `Open`, `Step`, `Try`, `Local`...) with the continuation of every outcome; one
action interprets each kind of step, while the server crashes or is restarted by this or
another call. `Verdict` is get_diagnostics, `Search` find_symbol over several servers,
`Impact` the attribution of references by nested ranges in blast_radius. They share no
state; `Tools` composes them, one of the four at a time.

## Runs

| Run | Instance | Properties |
|---|---|---|
| `session` | 2 calls, 1 session, 2 files, 2 edits, failures everywhere, one outside write | `TypeOK`, `ExecutorMutex`, `EvaluatingHasOwner`, `ServerHoldsSessionText`, `EditsExplainContents`, `DiscardReverts`, `SnapshotImmutable` |
| `session_live` | the same, 1 file | `CallsReturn` |
| `diag` | 1 document, 2 callers, 2 changes, servers like gopls, clangd and typescript-language-server | `SettledIsCurrent` |
| `readiness` | 2 waits, 2 tokens, 3 runs of progress, 1 restart, cancellations | `IndexedUnlessOverwritten`, `LoadedForGood` |
| `readiness_live` | 2 waits, 1 token, 2 runs | `QueryReturns` |
| `lsp` | 1 query and 1 restart at a time, 4 requests, 2 processes | `OneOutcome`, `OneProcess`, `Connected`, `FailFast`, `OwnOutcome` |
| `phase` | the 4 builtin skills, 19 tools, 4 recorded calls | `HistoryExplainsPhase`, `ImplementsGate` |
| `daemon` | 2 brokers, 2 sessions | `PublishedIsBound`, `ServingIsRegistered`, `WarmIsIndexed` |
| `edits` | 2 calls, 2 files, 4 shapes of edit, 1 outside write | `MatchedEditsLand`, `ServerInSync`, `SuccessMeansWritten`, `DryRunWritesNothing`, `SimulatedIsWritten` |
| `server` | 2 calls at a time of 3, 2 languages, 2 roots, 6 clients, 1 crash | `AutoInitLeavesNoOrphan`, `CurrentIsUsable`, `UserConfigKept`, no deadlock |
| `references` | 2 files, 2 contents, 1 query, 2 watchers, 3 outside events | `HitsMatchTheFile`, `QuietCacheIsCurrent`, `NothingUntold` |
| `tools` | 1 call of any tool, 1 crash, 1 restart; 2 documents; up to 3 servers; files of 3 declarations | `AbsenceIsAnswered`, `ChangesFollowOpen`, `VerifiedIsAfterEdit`, `PreviewLeavesNothing`, `SafeIsClean`, `NotFoundIsSaid`, `CallersAreNamed` |

Each property is stated above its definition with the code it is about. The
types of every module with a theorem are proved, alone (`TypeOK`, `PhaseTypes`,
`DaemonTypes`) or as a part of its inductive invariant (the tools).

**Bounds.** The hazards need two actors at different places of one function; a third
repeats one of the two. Two edits are one in flight and one recorded; two changes an old
and a new version; a second token and a third run are a wait that gives up on one run
while another begins; four ids are a query before and one across a restart with its two
requests; two processes, brokers or watchers are an old one and a new one; three servers
are more than the two queries at a time the instance allows, so that one waits. Two files
are one that is written and one that fails; two roots one that is asked for and one that
another start has. Three calls of `server` are two that overlap and one that finds what
they left. One call of `Handlers` meets the crash and the restart at each of its steps; a
second call only starts where the first ended. Three declarations are nested, in a row, or both. `SYMMETRY` permutes callers,
files, waiters, tokens, brokers and sessions only in runs without liveness.

**Fairness.** Sessions: every step of a running call (requests and waits have timeouts), and
strong fairness for taking the semaphore, since a Go channel serves blocked senders in
order. Readiness: goroutines run, time passes, timers fire; strong fairness for the mutex,
which Go hands to a starving goroutine; and a server that ends the runs it begins. No run
assumes that a tool call is ever made, that a server answers, or that a crash does not
happen.

`CHECK_DEADLOCK` is off where the bounds let the system stop; it is on in `phase` and
`server`, where a deadlock would be one of the code (two mutexes taken in two orders).

**What the properties leave out** is said in their comments, and each exception is a
behaviour TLC shows when the exception is removed: see the next section.

## Where the code departs from what it says

The first eight are stated as properties that do *not* hold; they are definitions that no
cfg lists. Add one to the INVARIANTS (or PROPERTIES) of the named cfg to see the
behaviour.

| Definition, cfg | What TLC finds |
|---|---|
| `Session!DirtyIsFinal`, `MCSession.cfg` (PROPERTIES) | `SetStatus` overwrites dirty (manager.go:484), against docs/guide/speculative-execution.md:105 |
| `Session!DiscardedNotCommitted`, `MCSession.cfg` (PROPERTIES) | an ApplyEdit that passed its check before a Discard revives the session (manager.go:209), and Commit writes what was discarded |
| `Diagnostics!SilenceIsNotSettled`, `MCDiagnostics.cfg` | CloseDocument keeps the published version (client.go:1865); a wait after the reopen settles on it, against diagnostics.go:71-73 |
| `Readiness!WaitReturns`, `MCReadiness_live.cfg` (PROPERTIES, with `SPECIFICATION FairSpec`) | the timer goroutine broadcasts without the mutex (client.go:961), against client.go:885-886: a wake-up is lost |
| `Readiness!IndexedIsFinished`, `MCReadiness.cfg` | the flag is stored after the mutex is released (client.go:889), against client.go:832-837 |
| `LspClient!AllCallersFailFast`, `MCLspClient.cfg` | Restart drops pending requests without telling them (client.go:1653), against docs/architecture/architecture.md:756 |
| `Phase!RecoveryLeadsOn`, `MCPhase.cfg` | the recovery of lsp-safe-edit names only tools that are refused too (tracker.go:224), against tracker.go:212-213 |
| `Daemon!SearchSparesTheLiving`, `MCDaemon.cfg` (PROPERTIES) | FindRunningDaemon wipes the registry of a broker published after its read (daemon.go:85), against daemon.go:82-84 |

Others are exceptions in the properties; each was seen while modelling.

- *Requests and restarts.* `initialized` may be set after the exit monitor cleared it
  (client.go:1476). Two restarters at once start two processes: `OneProcess` needs one. A
  restart drops the tokens without a broadcast, so a readiness wait sleeps on until its
  deadline. A restart clears capabilities and open documents under a running call: the call
  may report "empty", and safe_delete_symbol may delete a symbol that is referenced
  (`AbsenceIsAnswered` leaves out calls disturbed by a restart). An OpenDocument in the
  restart window records a didOpen that was not sent; a ReopenDocument whose read fails
  leaves the document tracked and closed; a failed restart loses the snapshot.
- *Documents.* OpenDocument and ReopenDocument read the version, then count it up in a
  second critical section (client.go:1821-1831, 2140-2171). A call that stalls in between
  while another opens and changes the document writes an older version back; the next edit
  gets a version that was already published, and its wait settles on the diagnostics of the
  earlier text. `SettledIsCurrent` leaves out documents whose versions started again
  (`past`); the fall-back takes three calls and the wait a fourth, more than the two of
  `diag` (`OpenAssign` with `MaxSends = 4`).
- *Tools.* get_diagnostics says "safe" when errors were published after a document was read
  and not during its pull. find_symbol: a single server that dies in the query leaves an
  empty success; one that is initialised during the fan-out is neither asked nor named.
  safe_delete_symbol treats a missing references provider, or a null answer, as no
  references. A publication of the old text already on its way is taken for the verdict
  of an edit. detect_changes looks up risk by the name of the caller, so it is nearly
  always low (detect_changes.go:77-80); the set of test functions merges equal names.
- *Edits.* ApplyWorkspaceEdit sends didChange for documents never opened
  (client.go:3035-3054). Rename and delete operations leave their documents open. A server's
  applyEdit that comes after its request was given up is written, dry run or not. Two calls
  on one file may send their didChange in either order. safe_apply_edit cannot see a text
  that was changed and changed back. `{"changes":{}}` counts as an edit.
- *Servers.* StartAll replaces live clients without shutting them down; a second scoped start
  renames a generated file over the user's backup; start_lsp with another root does nothing
  in single mode; a failed Initialize may leave its process.
- *Daemon.* Two sessions that start daemons at once defeat the ownership check
  (daemon_broker.go:64); a late `listener.Close` unlinks another broker's socket; an idle
  exit races a queued connection.
- *Cache and notifications.* A file written between the answer and the store keeps the old
  answer under the new hash; a failed import leaves the cache closed; flushes send outside
  the lock, so an older summary may be the last; a callback may re-arm a channel that was
  stopped; the warm-up's `completed` flag survives a restart; Close drops what the final
  flush holds.

## Proofs

Checked by TLAPS for every value of the constants that satisfies the named ASSUMEs, which
the runs evaluate. The inductive invariants of the proofs were model-checked first.

**Induction over data.** The induction rules of the library take an operator as a parameter
and cannot be used; that every non-empty set of naturals has a least element can
(`LeastElement`, from the well-foundedness of `<`), and serves instead: a claim about all
sequences, or all lists, is proved of the least place where it could fail. Of a recursive
function a lemma first shows that a function with its equations exists for every sequence
(by appending one element) and that there is only one; then its value is what the
equations say. The definitions that are proved about in this way are functions, and use no
fold.

`SessionProofs`: `TypeCorrect` (`[](TypeOK /\ IInv)`), `MutualExclusion` (`[]ExecutorMutex`),
`SnapshotsStay`, `EvaluationsAreOwned`, `ServerHoldsText`, `DiscardsRevert` and `EditsExplain`
(`EditsExplainContents`). `TypeOK` alone is not inductive: the steps of a call use `sid`, the
head of `rest` and the text the baseline read, so `IInv` adds that a running call has a
session and, where its position needs one, an edit; that contents and original contents are
texts once the baseline was read; that Commit's loop visits only files with content; and that
the semaphore is held exactly between Acquire and Release. That gives the first four.
`ServerHoldsText` and `DiscardsRevert` relate the server's buffer to the session's text,
between whose changes lie the steps of a call: `TextInv` names the steps at which they may
differ. A file's text is the server's, but for a file between Mutate and SendChange or while a
Discard reverts (`TextIsSent`); a Discard has reverted exactly the files it is done with
(`RevertDone`), and a session it has ended is reverted but for a late edit (`DiscardHolds`); a
text without a Commit implies an edit (`TextHasEdit`), so a discard of nothing leaves nothing.
`EditsExplain` compares the text with the replay of all recorded edits. Between a change of
the text and its record the replay lags one edit behind; `ReplayInv` says which edit that is,
and whose (`Explained`), and that a baseline reads again only a file that has none
(`RereadsUnopened`). That the record keeps pace is the step of the replay itself: an edit
appended to the list adds one application to the replay of its file (`ReplayedAppended`), one
to its count (`CountAppended`), and nothing to other files (`ReplayedOthers`).

`LspClientProofs`: `ClientTypeCorrect`, `OneOutcomeEach` and the other four properties of
`lsp`. `OneOutcome` says nothing about a
channel not yet used, so `IInv` follows it: pending (nothing was sent, no read loop holds
it), then in the hand of one read loop, then sent to. Every other step leaves the three
places alone (lemma `Frame`). `AlwaysConnected` holds for any number
of restarters: `LifeInv` says that a monitor moves only when its process is dead, that later
processes are not started, and that whoever took the stdin away is waiting for the current
process. The others assume `OneRestarter`, stated in the theorems; without it
`OneProcess` is false. `OneProcessAtATime` needs that a restarter between the reset and the
start has seen the end of the current process (`AfterInv`). `CallersFailFast` and
`OutcomeFromOwnProcess` follow where a request is: `RouteInv` (two calls never share an id, and
a process holds only what was written to it) and `WaitInv` (a written request is pending only
while the monitor of its process has not finished; one that is nowhere was dropped by a
restart that saw the end of an earlier process).

`GateProofs`, on what stands between a tool call and a server that can answer it. Of `Phase`:
`PhaseTypeCorrect` (`PhaseTypes`) and `TrackerImplementsGate`, the refinement: initial states
map to initial states, and each step of the tracker is a step of the gate or a stutter. Its
heart is the lemma that the search for the next phase returns a later phase that lists the
tool. `HistoryLeadsToPhase` (`HistoryExplainsPhase`): the history, replayed from the first
phase, leads along a path of phases (`Path`), there is only one, and an accepted call extends
it by the phase it moved to; so the phase is the end of it (`Followed`). Of `Readiness`:
`ReadinessTypeCorrect`; `TimeoutsAreNotLoads` (`IndexedUnlessOverwritten`), where `LoadInv`
says that while the load runs its token is active, and that a wait which is about to set the
flag, unless it was overtaken or cancelled, has marked that token stale; `LoadedStays`
(`LoadedForGood`).

The same module has, of `Daemon`: `DaemonTypeCorrect`, `PublishedAfterBind`
(`PublishedIsBound`), with the invariant that only connected sessions have a connection, which
no other broker holds; and `ServingStaysRegistered`, `WarmSessionsAreIndexed`. Those two hold
while nothing is contended, and only then is `Quiet` inductive: at most one broker runs and at
most one session starts one; what daemon.json says and what a session read of it is of a
broker that lives (`InfoIsLive`, `SightIsLive`); the files and the socket are those of the
broker that serves (`EntriesStay`). Each step that could break it is one that sets
`contended`.

`DiagnosticsProofs`: `DiagnosticsTypeCorrect` and `SettledStaysCurrent` (`SettledIsCurrent`),
for any number of callers, documents and notifications and every kind of server. `DiagInv`
says of a document whose versions never started again: everything that travels has a version
lower than the next one (`Versions`); a versioned server never publishes without one while
nothing was closed (`NeverClosed`); a tracked document is open for the server once it has read
what it was sent, unless a call is about to open it (`Opens`). While c's edit is the last
change (`Own`), it is queued, read or published (`Stage`), and only it carries its version
(`OnlyLast`), or, when nothing was under way at the mark, nothing else is under way
(`AtMostOne`). So a poll that finds the mark covered, or a server with nothing left to do, has
the publication of the edit behind it (`Settled`). That the cache then holds it needs one
thing more: a server may leave out what it published before only because the client still has
it, which is true while a close is always followed by an open (`InOrder`). The steps that do
not concern a document are dealt with once: `SameDoc` for those of calls about another, `Kept`
for those of the server and of readLoop. The proof showed what the run's two changes cannot:
with four, OpenDocument's read and write of the version may overlap and hand one version out
twice, so documents to which that happened count as started again.

`ServerProofs`: `TypeCorrect`, `NoOrphanLeft` (`AutoInitLeavesNoOrphan`), `CurrentStaysUsable`
(`CurrentIsUsable`), `UserConfigSurvives` (`UserConfigKept`), from one invariant, `ServerInv`.
`StepsOfCalls` says which call is at which step and which mutex it holds there; so two calls
past the lock of an auto-init are one. `Kept`: a user's file is in place, or it is the backup
and a generated file in place, and every scope a client or a call still holds would take it
back rather than delete it. `OneStart`: while starts neither overlapped nor failed, only one
call is in `Starting`, and what it is about to make current runs (`AboutToSet`). `OwnServers`:
while only auto-inits of one root have started servers, the servers that run are those that
the one under way has put into the entries; once there is a current client it is of that
root, so that the second check sends every later auto-init away. `Cardinality(starts) <= 1`
is turned into "any two are equal" with the library's theorems on finite sets.

`ToolsProofs`, over `Tools!Spec`: `SafeVerdict` (`SafeIsClean`), `NothingFoundIsSaid`
(`NotFoundIsSaid`), `AbsencesAreAnswered`, `OpensPrecedeChanges`, `VerifiedFollowsEdit`,
`PreviewsCleanUp` and `CallersNamed` (`CallersAreNamed`). The four machines share no state, so
`ToolsInv` is the conjunction of theirs. `VerdictInv`: a document is pulled once, and its
entry is what the pull that verified it answered, or has the errors last published, unless
they came later. `SearchInv`: at the end of find_symbol an empty merge without a note or a
cause is an answer of every server that stayed. `HandlersInv`, over the scripts of all 47
handlers: an unanswered question has ended the call or set its gap (`GapsEndCalls`); the
running server holds every document tracked as open, but for a didOpen known to be lost
(`ServerHolds`); where the preview's session is at each step of its script (`PreviewAt`); and
that after the cache was dropped only the new text can reach it (`OnlyNewText`). That a script
has the steps it has (`ScriptFacts`, `EditShapes`, `PreviewSteps`) is proved from the tables
themselves. `ImpactInv`: a caller is what `FindEnclosingCaller` names in the sorted list.
However long that is, some declaration around a position is the smallest, and the first of
that size (`SmallestAround`), and nothing inside it can be around the position, for it would
be smaller (`InsideIsSmaller`).

`EditsProofs`: `MatchesLand` (`MatchedEditsLand`), `DryRunsWriteNothing`, `SuccessIsWritten`
(`SuccessMeansWritten`), `ServerStaysInSync` (`ServerInSync`) and `SimulationsAreWritten`
(`SimulatedIsWritten`), for any number of calls and any plans, from one invariant, `EditsInv`,
and with it `EditsTypeCorrect` (no document is open in the server that the client does not
track). `Roles`: which tool is at which step, and who holds the capture. `Owned`: the
operations the read loop works on are of a call that sent its command, and those of a dry run
reach it only after its request was given up. `Straight`: the edits astray in a text, on disk
or in hand, are of calls that have begun and search for no text. `WorkLeft`: every edit of a
call's plan is written or among the operations it still has to do. Those hold however calls
overlap. While none has overlapped, `Uncontended` adds that one actor works at a time, but for
the read loop beside the call that waits for its command, that what it holds is the file it
works on, and that the server has the text of every file but the one being sent (`Synced`).
For `SimulationsAreWritten`, `PreviewOf` says of a preview that waits to be matched: its file
no longer has the text it holds, or that is the text it was simulated on. A step of another
actor breaks that only by bringing back the text, which `reverted` records (`OthersPreviews`);
the attempt to prove it showed that besides another program's write a file that is deleted and
created again can do so.

`ReferencesProofs`, over `References` with the channels of `Notify`: `ReferencesTypeCorrect`
(never two goroutines listen), `HitsAreOfTheFile` (`HitsMatchTheFile`), `QuietRowsAreCurrent`
(`QuietCacheIsCurrent`) and `ChangesAreTold` (`NothingUntold`). `RefInv` adds to them that a
clean row pairs an answer with its own hash, in the database and in an exported cache
(`RowsMatch`); that what a query is about to store is of what is on disk, unless the file was
written since it asked (`Queries`); that only the current goroutine listens, and has never
been stopped while some file was never missed (`Listeners`); that a change not yet held by a
channel is one a listening goroutine has still to pass on (`Untold`); and that a stop function
which stops a timer is followed by its flush (`StopsFlush`).

The assumptions on the constants say that the model values that stand for "none" are none of
the others, that bounds are natural numbers, that tables are functions on what they are
asked for, in `Phase`, that a skill has phases, in `Impact`, that the files are lists of
declarations, and in `Edits`, that a plan has an operation: a call's file is that of its first
one. None restricts the code.

**Only model-checked.** Liveness under fairness (`CallsReturn`, `QueryReturns`), out of the
prover's reach. Every other property of the runs is a theorem.

## Not modelled

- The diff of diagnostics, URIs, positions in text, symbol paths, and the rendering of
  results: pure functions without state or concurrency. Where their failure decides what a
  tool does next, it is a step of a handler.
- The framing of messages and the normalisation of results: the models take whole messages.
- init, uninstall, update, doctor and the detection of configurations: one-shot commands on
  files nobody else writes at the time; the scope configuration is in `Server`.
- Logging, audit, GCF encoding and HTTP authentication: output only.
- SQLite, fsnotify and process creation as such: each is an action with its failures.
- The health poll and the list of progress subscribers: they only report.
- The token-savings experiment and the examples.
