------------------------------- MODULE Session -------------------------------
(***************************************************************************)
(* Speculative-execution sessions: the SessionManager of                   *)
(* internal/session/manager.go, the per-session semaphore of executor.go    *)
(* and the status methods of types.go.                                     *)
(*                                                                         *)
(* A process is one MCP tool call (one goroutine).  It runs one public      *)
(* method at a time; pc marks the places where the method can be           *)
(* interleaved with other calls: before and after the semaphore, around     *)
(* every disk access and around every OpenDocument.  All sessions share the *)
(* language server's documents (buffer) and the disk.                      *)
(*                                                                         *)
(* Texts are opaque; an edit is applied by ApplyRangeEdit.  What an         *)
(* evaluation reports is not modelled here, only when it runs.             *)
(***************************************************************************)
EXTENDS Naturals, Sequences, FiniteSets

CONSTANTS
  SessionId,              \* ids CreateSession can draw
  URI,                    \* files inside the workspace
  Proc,                   \* concurrent tool calls
  Text, Edit,             \* file contents; (range, newText) pairs
  ApplyRangeEdit(_, _),   \* text after an edit
  InitialText,            \* what every file holds at the start
  TornText,               \* what a failed write may leave behind
  ExternalText,           \* texts other programs write to a file
  NoText, NoSession, NoProc, NoItem,
  MaxEdits,               \* bound: edits issued to one session
  ChainLen                \* bound: edits of one SimulateChain

ASSUME TextAssumption ==
  /\ {InitialText, TornText} \cup ExternalText \subseteq Text
  /\ NoText \notin Text
  /\ \A t \in Text, e \in Edit : ApplyRangeEdit(t, e) \in Text

ASSUME IdAssumption == NoSession \notin SessionId /\ NoProc \notin Proc

ASSUME BoundAssumption == MaxEdits \in Nat /\ ChainLen \in Nat \ {0}

VARIABLES
  sessions,         \* SessionManager.sessions: ids a caller can look up
  status,           \* SimulationSession.Status
  dirtyErr,         \* SimulationSession.DirtyErr is set
  contents,         \* SimulationSession.Contents
  originalContents, \* SimulationSession.OriginalContents
  baselines,        \* keys of SimulationSession.Baselines
  versions,         \* SimulationSession.Versions
  edits,            \* SimulationSession.Edits
  sessionLocks,     \* SerializedExecutor: who fills the session's channel
  disk,             \* content of each file
  buffer,           \* the language server's document, NoText while closed
  pc, op, sid,      \* of each call: position, method, session
  rest,             \* edits still to apply (ApplyEdit, SimulateChain)
  todo,             \* files still to visit (Commit, Discard)
  item,             \* fileURI and content of Commit's current iteration
  issued,           \* history: edits issued to a session (bounded)
  sentBy,           \* history: sessions that sent a document
  committing,       \* history: a Commit passed its check
  dropped           \* history: edits recorded when a Discard finished

callVars == <<pc, op, sid, rest, todo, item, issued>>
locals == <<op, sid, rest, todo, item, issued>>      \* callVars without pc
editVars == <<contents, originalContents, baselines, versions, edits>>
statVars == <<sessions, status, dirtyErr>>
docVars  == <<disk, buffer, sentBy>>
history == <<committing, dropped>>
vars == <<statVars, editVars, sessionLocks, docVars, callVars, history>>

Statuses == {"created", "mutated", "evaluating", "evaluated",
             "committed", "discarded", "dirty", "destroyed"}

\* SimulationSession.IsTerminal
Terminal == {"committed", "discarded", "destroyed", "dirty"}

PCs == {"idle", "apply", "applyAcquire", "baseline", "open", "mutate", "send",
        "record", "evaluate", "evalAcquire", "evaluating",
        "commit", "write", "notify",
        "discard", "discardAcquire", "reverting", "destroying"}

Ops == {"none", "ApplyEdit", "SimulateChain", "Evaluate",
        "Commit", "Discard", "Destroy"}

EditReq == [uri : URI, edit : Edit]

\* positions between executor.Acquire and executor.Release
Critical == {"baseline", "open", "mutate", "send", "record",
             "evaluating", "reverting"}

Init ==
  /\ sessions = {}
  /\ status = [s \in SessionId |-> "created"]
  /\ dirtyErr = [s \in SessionId |-> FALSE]
  /\ contents = [s \in SessionId |-> [f \in URI |-> NoText]]
  /\ originalContents = [s \in SessionId |-> [f \in URI |-> NoText]]
  /\ baselines = [s \in SessionId |-> {}]
  /\ versions = [s \in SessionId |-> [f \in URI |-> 0]]
  /\ edits = [s \in SessionId |-> <<>>]
  /\ sessionLocks = [s \in SessionId |-> NoProc]
  /\ disk = [f \in URI |-> InitialText]
  /\ buffer = [f \in URI |-> NoText]
  /\ pc = [p \in Proc |-> "idle"]
  /\ op = [p \in Proc |-> "none"]
  /\ sid = [p \in Proc |-> NoSession]
  /\ rest = [p \in Proc |-> <<>>]
  /\ todo = [p \in Proc |-> {}]
  /\ item = [p \in Proc |-> NoItem]
  /\ issued = [s \in SessionId |-> 0]
  /\ sentBy = [f \in URI |-> {}]
  /\ committing = [s \in SessionId |-> FALSE]
  /\ dropped = [s \in SessionId |-> 0]

-----------------------------------------------------------------------------
(* Helpers shared by the methods *)

Goto(p, l) == pc' = [pc EXCEPT ![p] = l]

\* the call returns to its client
Return(p) ==
  /\ pc' = [pc EXCEPT ![p] = "idle"]
  /\ op' = [op EXCEPT ![p] = "none"]
  /\ sid' = [sid EXCEPT ![p] = NoSession]
  /\ rest' = [rest EXCEPT ![p] = <<>>]
  /\ todo' = [todo EXCEPT ![p] = {}]
  /\ item' = [item EXCEPT ![p] = NoItem]
  /\ UNCHANGED issued

SetStatus(s, st) == status' = [status EXCEPT ![s] = st]

MarkDirty(s) ==
  /\ status' = [status EXCEPT ![s] = "dirty"]
  /\ dirtyErr' = [dirtyErr EXCEPT ![s] = TRUE]

AcquireUnguarded(s, p) == sessionLocks' = [sessionLocks EXCEPT ![s] = p]   \* mutant

\* SerializedExecutor.Acquire: a channel of capacity one
Acquire(s, p) ==
  /\ sessionLocks[s] = NoProc
  /\ sessionLocks' = [sessionLocks EXCEPT ![s] = p]

Release(s) == sessionLocks' = [sessionLocks EXCEPT ![s] = NoProc]

\* LSPClient.OpenDocument(f, t) on behalf of session s: on success the server
\* holds t, on failure (not initialized, write error) nothing reaches it
OpenDocument(s, f, t, ok) ==
  IF ok THEN /\ buffer' = [buffer EXCEPT ![f] = t]
             /\ sentBy' = [sentBy EXCEPT ![f] = @ \cup {s}]
        ELSE UNCHANGED <<buffer, sentBy>>

FailDirtyKeepsLock(p) ==                                                   \* mutant
  MarkDirty(sid[p]) /\ Return(p) /\ UNCHANGED <<sessions, sessionLocks>>

\* the call fails inside the semaphore: MarkDirty, the deferred Release, return
FailDirty(p) ==
  /\ MarkDirty(sid[p])
  /\ Release(sid[p])
  /\ Return(p)
  /\ UNCHANGED sessions

-----------------------------------------------------------------------------
(* Calls *)

CreateSession(s) ==
  /\ s \notin sessions
  /\ status[s] = "created"      \* an id is never drawn twice
  /\ sessions' = sessions \cup {s}
  /\ UNCHANGED <<status, dirtyErr, editVars, sessionLocks, docVars, callVars, history>>

\* the user's editor, git or a formatter; sessions are not told
ExternalWrite(f) ==
  /\ \E t \in ExternalText : disk' = [disk EXCEPT ![f] = t]
  /\ UNCHANGED <<buffer, sentBy, statVars, editVars, sessionLocks, callVars, history>>

\* a tool call enters a method on a session; GetSession fails for other ids
Call(p, s, o, l, reqs) ==
  /\ pc[p] = "idle"
  /\ s \in sessions
  /\ issued[s] + Len(reqs) =< MaxEdits
  /\ pc' = [pc EXCEPT ![p] = l]
  /\ op' = [op EXCEPT ![p] = o]
  /\ sid' = [sid EXCEPT ![p] = s]
  /\ rest' = [rest EXCEPT ![p] = reqs]
  /\ issued' = [issued EXCEPT ![s] = @ + Len(reqs)]
  /\ UNCHANGED <<todo, item, statVars, editVars, sessionLocks, docVars, history>>

CallApplyEdit(p) ==
  \E s \in SessionId, r \in EditReq : Call(p, s, "ApplyEdit", "apply", <<r>>)

CallSimulateChain(p) ==
  \E s \in SessionId, reqs \in [1..ChainLen -> EditReq] :
    Call(p, s, "SimulateChain", "apply", reqs)

CallEvaluate(p) == \E s \in SessionId : Call(p, s, "Evaluate", "evaluate", <<>>)
CallCommit(p)   == \E s \in SessionId : Call(p, s, "Commit", "commit", <<>>)
CallDiscard(p)  == \E s \in SessionId : Call(p, s, "Discard", "discard", <<>>)
CallDestroy(p)  == \E s \in SessionId : Call(p, s, "Destroy", "destroying", <<>>)

-----------------------------------------------------------------------------
(* ApplyEdit *)

\* the checks before Acquire.  IsDirty is subsumed by IsTerminal; an edit
\* outside the workspace is refused with no effect
ApplyCheck(p) ==
  /\ pc[p] = "apply"
  /\ \/ status[sid[p]] \notin Terminal /\ sid[p] \in sessions
        /\ Goto(p, "applyAcquire")
        /\ UNCHANGED locals
     \/ Return(p)      \* terminal, looked up after Destroy, or path rejected
  /\ UNCHANGED <<statVars, editVars, sessionLocks, docVars, history>>

ApplyAcquireRereads(p) ==                                                  \* mutant
  /\ pc[p] = "applyAcquire"
  /\ Acquire(sid[p], p)
  /\ Goto(p, "baseline")
  /\ UNCHANGED <<locals, statVars, editVars, docVars, history>>

ApplyAcquire(p) ==
  /\ pc[p] = "applyAcquire"
  /\ Acquire(sid[p], p)
  /\ Goto(p, IF Head(rest[p]).uri \in baselines[sid[p]] THEN "mutate" ELSE "baseline")
  /\ UNCHANGED <<locals, statVars, editVars, docVars, history>>

SnapshotAgain(p) ==                                                        \* mutant
  LET s == sid[p]  f == Head(rest[p]).uri IN
  /\ pc[p] = "baseline"
  /\ contents' = [contents EXCEPT ![s][f] = disk[f]]
  /\ originalContents' = [originalContents EXCEPT ![s][f] = disk[f]]
  /\ Goto(p, "open")
  /\ UNCHANGED <<locals, statVars, baselines, versions, edits, sessionLocks,
                 docVars, history>>

\* Commits inside their loop over s.Contents, which ranges over the live map
Looping(s) ==
  {q \in Proc : op[q] = "Commit" /\ sid[q] = s /\ (todo[q] # {} \/ pc[q] = "notify")}

\* The first edit of a file reads it and keeps the first content ever read.  A
\* key added to Contents under a Commit's loop may or may not be visited.
Snapshot(p) ==
  LET s == sid[p]  f == Head(rest[p]).uri IN
  /\ pc[p] = "baseline"
  /\ contents' = [contents EXCEPT ![s][f] = disk[f]]
  /\ originalContents' =
       [originalContents EXCEPT ![s][f] = IF @ = NoText THEN disk[f] ELSE @]
  /\ \E seen \in SUBSET IF contents[s][f] = NoText THEN Looping(s) ELSE {} :
       todo' = [q \in Proc |-> IF q \in seen THEN todo[q] \cup {f} ELSE todo[q]]
  /\ Goto(p, "open")
  /\ UNCHANGED <<op, sid, rest, item, issued, statVars, baselines, versions,
                 edits, sessionLocks, docVars, history>>

SnapshotFails(p) ==
  /\ pc[p] = "baseline"
  /\ FailDirty(p)
  /\ UNCHANGED <<editVars, docVars, history>>

\* open with the original content, then take the diagnostics snapshot (a failed
\* pull falls back to the push stream, so that part cannot fail)
BaselineOpen(p) ==
  LET s == sid[p]  f == Head(rest[p]).uri IN
  /\ pc[p] = "open"
  /\ OpenDocument(s, f, contents[s][f], TRUE)
  /\ baselines' = [baselines EXCEPT ![s] = @ \cup {f}]
  /\ Goto(p, "mutate")
  /\ UNCHANGED <<locals, statVars, contents,
                 originalContents, versions, edits, sessionLocks, disk, history>>

BaselineOpenFails(p) ==
  /\ pc[p] = "open"
  /\ FailDirty(p)
  /\ UNCHANGED <<editVars, docVars, history>>

\* the version and the in-memory content change before anything is sent
Mutate(p) ==
  LET s == sid[p]  f == Head(rest[p]).uri IN
  /\ pc[p] = "mutate"
  /\ versions' = [versions EXCEPT ![s][f] = @ + 1]
  /\ contents' = [contents EXCEPT ![s][f] = ApplyRangeEdit(@, Head(rest[p]).edit)]
  /\ Goto(p, "send")
  /\ UNCHANGED <<locals, statVars, originalContents,
                 baselines, edits, sessionLocks, docVars, history>>

SendChange(p) ==
  LET s == sid[p]  f == Head(rest[p]).uri IN
  /\ pc[p] = "send"
  /\ OpenDocument(s, f, contents[s][f], TRUE)
  /\ Goto(p, "record")
  /\ UNCHANGED <<locals, statVars, editVars,
                 sessionLocks, disk, history>>

SendChangeFailsQuietly(p) ==                                               \* mutant
  /\ pc[p] = "send"
  /\ Release(sid[p])
  /\ Return(p)
  /\ UNCHANGED <<statVars, editVars, docVars, history>>

SendChangeFails(p) ==
  /\ pc[p] = "send"
  /\ FailDirty(p)
  /\ UNCHANGED <<editVars, docVars, history>>

\* append to Edits, SetStatus(mutated) whatever the status is, Release; a chain
\* goes on to evaluate this step
Record(p) ==
  LET s == sid[p]  r == Head(rest[p]) IN
  /\ pc[p] = "record"
  /\ edits' = [edits EXCEPT ![s] =
       Append(@, [uri |-> r.uri, edit |-> r.edit, version |-> versions[s][r.uri]])]
  /\ SetStatus(s, "mutated")
  /\ Release(s)
  /\ IF op[p] = "SimulateChain"
     THEN /\ Goto(p, "evaluate")
          /\ rest' = [rest EXCEPT ![p] = Tail(@)]
          /\ UNCHANGED <<op, sid, todo, item, issued>>
     ELSE Return(p)
  /\ UNCHANGED <<sessions, dirtyErr, contents, originalContents, baselines,
                 versions, docVars, history>>

-----------------------------------------------------------------------------
(* Evaluate *)

EvaluateCheckMarks(p) ==                                                   \* mutant
  /\ pc[p] = "evaluate"
  /\ IF sid[p] \in sessions /\ status[sid[p]] \in {"mutated", "evaluated"}
     THEN /\ SetStatus(sid[p], "evaluating")
          /\ Goto(p, "evalAcquire") /\ UNCHANGED locals
     ELSE Return(p) /\ UNCHANGED status
  /\ UNCHANGED <<sessions, dirtyErr, editVars, sessionLocks, docVars, history>>

\* the status is read before the semaphore is taken
EvaluateCheck(p) ==
  /\ pc[p] = "evaluate"
  /\ IF sid[p] \in sessions /\ status[sid[p]] \in {"mutated", "evaluated"}
     THEN Goto(p, "evalAcquire") /\ UNCHANGED locals
     ELSE Return(p)
  /\ UNCHANGED <<statVars, editVars, sessionLocks, docVars, history>>

EvaluateAcquire(p) ==
  /\ pc[p] = "evalAcquire"
  /\ Acquire(sid[p], p)
  /\ SetStatus(sid[p], "evaluating")
  /\ Goto(p, "evaluating")
  /\ UNCHANGED <<locals, sessions, dirtyErr, editVars,
                 docVars, history>>

\* pull or wait (a timeout is a result too), diff, SetStatus, Release; a chain
\* goes on to its next edit
EvaluateDone(p) ==
  /\ pc[p] = "evaluating"
  /\ SetStatus(sid[p], "evaluated")
  /\ Release(sid[p])
  /\ IF rest[p] # <<>>
     THEN Goto(p, "apply") /\ UNCHANGED locals
     ELSE Return(p)
  /\ UNCHANGED <<sessions, dirtyErr, editVars, docVars, history>>

\* ctx is cancelled before the semaphore is free
AcquireCancelled(p) ==
  /\ pc[p] \in {"applyAcquire", "evalAcquire", "discardAcquire"}
  /\ Return(p)
  /\ UNCHANGED <<statVars, editVars, sessionLocks, docVars, history>>

-----------------------------------------------------------------------------
(* Commit takes no semaphore *)

TouchedAll(s) == URI                                                       \* mutant

Touched(s) == {f \in URI : contents[s][f] # NoText}

\* apply=false only returns the patch and sets the status
CommitCheck(p) ==
  LET s == sid[p] IN
  /\ pc[p] = "commit"
  /\ IF s \in sessions /\ status[s] \in {"mutated", "evaluated"}
     THEN /\ Goto(p, "write")
          /\ \E apply \in BOOLEAN :
               todo' = [todo EXCEPT ![p] = IF apply THEN Touched(s) ELSE {}]
          /\ committing' = [committing EXCEPT ![s] = TRUE]
          /\ UNCHANGED <<op, sid, rest, item, issued>>
     ELSE Return(p) /\ UNCHANGED committing
  /\ UNCHANGED <<statVars, editVars, sessionLocks, docVars, dropped>>

\* one iteration writes the content the session holds at that moment
CommitWrite(p) ==
  LET s == sid[p] IN
  /\ pc[p] = "write"
  /\ \E f \in todo[p] :
       /\ disk' = [disk EXCEPT ![f] = contents[s][f]]
       /\ item' = [item EXCEPT ![p] = [uri |-> f, text |-> contents[s][f]]]
       /\ todo' = [todo EXCEPT ![p] = @ \ {f}]
  /\ Goto(p, "notify")
  /\ UNCHANGED <<op, sid, rest, issued, statVars, editVars, sessionLocks,
                 buffer, sentBy, history>>

\* a rejected path or a failed write; the write may have truncated the file
CommitWriteFails(p) ==
  /\ pc[p] = "write"
  /\ \E f \in todo[p] : \E t \in {disk[f], TornText} :
       disk' = [disk EXCEPT ![f] = t]
  /\ MarkDirty(sid[p])
  /\ Return(p)
  /\ UNCHANGED <<sessions, editVars, sessionLocks, buffer, sentBy, history>>

\* OpenDocument with what was written; a failure marks the session dirty and
\* the loop goes on
CommitNotify(p) ==
  LET s == sid[p]  w == item[p] IN
  /\ pc[p] = "notify"
  /\ \E ok \in BOOLEAN :
       /\ OpenDocument(s, w.uri, w.text, ok)
       /\ IF ok THEN UNCHANGED <<status, dirtyErr>> ELSE MarkDirty(s)
  /\ item' = [item EXCEPT ![p] = NoItem]
  /\ Goto(p, "write")
  /\ UNCHANGED <<op, sid, rest, todo, issued, sessions, editVars, sessionLocks,
                 disk, history>>

\* SetStatus(committed) whatever the status is
CommitDone(p) ==
  /\ pc[p] = "write" /\ todo[p] = {}
  /\ SetStatus(sid[p], "committed")
  /\ Return(p)
  /\ UNCHANGED <<sessions, dirtyErr, editVars, sessionLocks, docVars, history>>

-----------------------------------------------------------------------------
(* Discard and Destroy *)

DiscardCheck(p) ==
  /\ pc[p] = "discard"
  /\ IF sid[p] \in sessions /\ status[sid[p]] \notin Terminal
     THEN Goto(p, "discardAcquire") /\ UNCHANGED locals
     ELSE Return(p)
  /\ UNCHANGED <<statVars, editVars, sessionLocks, docVars, history>>

DiscardAcquire(p) ==
  LET s == sid[p] IN
  /\ pc[p] = "discardAcquire"
  /\ Acquire(s, p)
  /\ todo' = [todo EXCEPT ![p] = {f \in Touched(s) : originalContents[s][f] # NoText}]
  /\ Goto(p, "reverting")
  /\ UNCHANGED <<op, sid, rest, item, issued, statVars, editVars, docVars, history>>

DiscardRevertFromDisk(p) ==                                                \* mutant
  /\ pc[p] = "reverting"
  /\ \E f \in todo[p] :
       /\ OpenDocument(sid[p], f, disk[f], TRUE)
       /\ todo' = [todo EXCEPT ![p] = @ \ {f}]
  /\ UNCHANGED <<pc, op, sid, rest, item, issued, statVars, editVars,
                 sessionLocks, disk, history>>

DiscardRevert(p) ==
  LET s == sid[p] IN
  /\ pc[p] = "reverting"
  /\ \E f \in todo[p] :
       /\ OpenDocument(s, f, originalContents[s][f], TRUE)
       /\ todo' = [todo EXCEPT ![p] = @ \ {f}]
  /\ UNCHANGED <<pc, op, sid, rest, item, issued, statVars, editVars, sessionLocks,
                 disk, history>>

DiscardRevertFails(p) ==
  /\ pc[p] = "reverting" /\ todo[p] # {}
  /\ FailDirty(p)
  /\ UNCHANGED <<editVars, docVars, history>>

DiscardDone(p) ==
  /\ pc[p] = "reverting" /\ todo[p] = {}
  /\ SetStatus(sid[p], "discarded")
  /\ dropped' = [dropped EXCEPT ![sid[p]] = Len(edits[sid[p]])]
  /\ Release(sid[p])
  /\ Return(p)
  /\ UNCHANGED <<sessions, dirtyErr, editVars, docVars, committing>>

\* SetStatus(destroyed) and delete from the map, under m.mu only
Destroy(p) ==
  /\ pc[p] = "destroying"
  /\ SetStatus(sid[p], "destroyed")
  /\ sessions' = sessions \ {sid[p]}
  /\ Return(p)
  /\ UNCHANGED <<dirtyErr, editVars, sessionLocks, docVars, history>>

-----------------------------------------------------------------------------

AcquireStep(p) == ApplyAcquire(p) \/ EvaluateAcquire(p) \/ DiscardAcquire(p)

\* steps a running call takes on its own
Step(p) ==
  \/ ApplyCheck(p) \/ Snapshot(p) \/ SnapshotFails(p)
  \/ BaselineOpen(p) \/ BaselineOpenFails(p)
  \/ Mutate(p) \/ SendChange(p) \/ SendChangeFails(p) \/ Record(p)
  \/ EvaluateCheck(p) \/ EvaluateDone(p)
  \/ CommitCheck(p) \/ CommitWrite(p) \/ CommitWriteFails(p)
  \/ CommitNotify(p) \/ CommitDone(p)
  \/ DiscardCheck(p) \/ DiscardRevert(p) \/ DiscardRevertFails(p)
  \/ DiscardDone(p) \/ Destroy(p)

NewCall(p) ==
  \/ CallApplyEdit(p) \/ CallSimulateChain(p) \/ CallEvaluate(p)
  \/ CallCommit(p) \/ CallDiscard(p) \/ CallDestroy(p)

Next ==
  \/ \E s \in SessionId : CreateSession(s)
  \/ \E f \in URI : ExternalWrite(f)
  \/ \E p \in Proc : NewCall(p) \/ Step(p) \/ AcquireStep(p) \/ AcquireCancelled(p)

\* A goroutine runs, and every wait in a step ends (requests and diagnostic
\* waits have timeouts); senders blocked on a Go channel are served in order,
\* so a call waiting for the semaphore gets it
Fairness == \A p \in Proc : WF_vars(Step(p)) /\ SF_vars(AcquireStep(p))

Spec == Init /\ [][Next]_vars /\ Fairness
-----------------------------------------------------------------------------
(* Properties *)

StatType ==
  /\ sessions \subseteq SessionId
  /\ status \in [SessionId -> Statuses]
  /\ dirtyErr \in [SessionId -> BOOLEAN]
  /\ sessionLocks \in [SessionId -> Proc \cup {NoProc}]

EditType ==
  /\ contents \in [SessionId -> [URI -> Text \cup {NoText}]]
  /\ originalContents \in [SessionId -> [URI -> Text \cup {NoText}]]
  /\ baselines \in [SessionId -> SUBSET URI]
  /\ versions \in [SessionId -> [URI -> Nat]]
  /\ edits \in [SessionId -> Seq([uri : URI, edit : Edit, version : Nat])]

DocType ==
  /\ disk \in [URI -> Text]
  /\ buffer \in [URI -> Text \cup {NoText}]
  /\ sentBy \in [URI -> SUBSET SessionId]

CallType ==
  /\ pc \in [Proc -> PCs]
  /\ op \in [Proc -> Ops]
  /\ sid \in [Proc -> SessionId \cup {NoSession}]
  /\ rest \in [Proc -> Seq(EditReq)]
  /\ todo \in [Proc -> SUBSET URI]
  /\ item \in [Proc -> [uri : URI, text : Text] \cup {NoItem}]

HistType ==
  /\ issued \in [SessionId -> Nat]
  /\ committing \in [SessionId -> BOOLEAN]
  /\ dropped \in [SessionId -> Nat]

TypeOK == StatType /\ EditType /\ DocType /\ CallType /\ HistType

Holds(p, s) == pc[p] \in Critical /\ sid[p] = s

\* Two calls are never between Acquire and Release of one session, and the
\* semaphore is full exactly while a call is there: it is neither leaked by an
\* early return nor emptied twice (executor.go:47, manager.go:132, 258, 508).
ExecutorMutex ==
  \A s \in SessionId, p \in Proc : Holds(p, s) <=> sessionLocks[s] = p

\* A session is "evaluating" only while an Evaluate holds its semaphore, so a
\* failed Acquire never leaves it stuck there (manager.go:255).
EvaluatingHasOwner ==
  \A s \in SessionId : status[s] = "evaluating" =>
    \E p \in Proc : pc[p] = "evaluating" /\ sid[p] = s

\* Nothing but edits has happened to s: no failure, no Commit, and no Discard
\* that had anything to drop.
OnlyEdited(s) == ~dirtyErr[s] /\ ~committing[s] /\ dropped[s] = 0

\* a call is changing the session's documents
Busy(s) == \E p \in Proc :
  sid[p] = s /\ pc[p] \in {"open", "mutate", "send", "record", "reverting"}

\* While a session that was only edited is not inside ApplyEdit or Discard, the language
\* server holds what the session holds for every file no other session sent:
\* what an evaluation sees are the session's own edits, all of them
\* (manager.go:188-197 against every interleaving of ApplyEdit and Evaluate).
ServerHoldsSessionText ==
  \A s \in SessionId : OnlyEdited(s) /\ ~Busy(s) =>
    \A f \in URI : sentBy[f] = {s} => buffer[f] = contents[s][f]

\* How many of the first n edits of es are of f, and the text they all make of t.
Count(es, f, n) == Cardinality({j \in 1..n : es[j].uri = f})
Replayed(es, f, t) ==
  LET text[i \in 0..Len(es)] ==
        IF i = 0 THEN t
        ELSE IF es[i].uri = f THEN ApplyRangeEdit(text[i - 1], es[i].edit) ELSE text[i - 1]
  IN  text[Len(es)]

\* The recorded edits, replayed in order on the content first read, give the
\* session's content, and number a file's versions without a gap: concurrent
\* ApplyEdits lose, duplicate or reorder nothing (manager.go:185-213).
EditsExplainContents ==
  \A s \in SessionId : ~dirtyErr[s] /\ ~Busy(s) =>
    \A f \in URI :
      /\ versions[s][f] = Count(edits[s], f, Len(edits[s]))
      /\ \A i \in DOMAIN edits[s] :
           edits[s][i].uri = f => edits[s][i].version = Count(edits[s], f, i)
      /\ originalContents[s][f] # NoText =>
           contents[s][f] = Replayed(edits[s], f, originalContents[s][f])

\* The text a Discard restores is fixed by the first read of the file: a later
\* edit that has to take the baseline again does not replace it
\* (manager.go:153-155).
SnapshotImmutable ==
  [][\A s \in SessionId, f \in URI :
       originalContents[s][f] # NoText =>
         originalContents'[s][f] = originalContents[s][f]]_vars

\* After a Discard, with no Commit of the session, the server again holds the
\* text the session found, for every file no other session sent and unless a
\* late ApplyEdit is sending another one (manager.go:510-526).
DiscardReverts ==
  \A s \in SessionId :
    status[s] = "discarded" /\ ~committing[s] /\ sessionLocks[s] = NoProc =>
      \A f \in URI : sentBy[f] = {s} => buffer[f] = originalContents[s][f]

\* Every call returns: no method leaves the semaphore taken, no loop runs on.
CallsReturn == \A p \in Proc : pc[p] # "idle" ~> pc[p] = "idle"

\* A dirty session stays dirty until it is destroyed
\* (docs/guide/speculative-execution.md:105, 316).
DirtyIsFinal ==
  [][\A s \in SessionId :
       status[s] = "dirty" => status'[s] \in {"dirty", "destroyed"}]_vars

\* What a Discard has dropped is never written to disk: no Commit is let in that
\* would write a file edited before the session was discarded
\* (docs/guide/speculative-execution.md:104, 272).
DiscardedNotCommitted ==
  [][\A p \in Proc :
       pc[p] = "commit" /\ pc'[p] = "write" =>
         \A i \in 1..dropped[sid[p]] : edits[sid[p]][i].uri \notin todo'[p]]_vars
=============================================================================
