-------------------------------- MODULE Edits --------------------------------
(***************************************************************************)
(* Writing edits to disk: the tools rename_symbol, replace_symbol_body and  *)
(* its kin, apply_edit, safe_apply_edit, refactor and execute_command       *)
(* (internal/tools), and the client that applies them and keeps the server  *)
(* informed (internal/lsp/client.go, interactive.go).                       *)
(*                                                                         *)
(* A text is the set of edits it holds and, of these, the ones that were    *)
(* spliced into another text than the one their positions were computed on. *)
(* The read loop, which applies the edits a server asks for, is the actor   *)
(* Loop; each call and the read loop take one step per system call.         *)
(***************************************************************************)
EXTENDS Integers, Sequences, FiniteSets

CONSTANTS File, Call, Loop, None, User, Gone, Plans, MaxUser

ASSUME ActorAssumption == Loop \notin Call /\ User \notin Call \cup {Loop}
ASSUME NoneAssumption == None \notin Call /\ None # "ok"

\* A plan is the operations of one edit, of which there is at least one.
PlanOp == [op : {"edit", "create", "rename", "delete"}, file : File, to : File]

ASSUME PlanAssumption == Plans \subseteq Seq(PlanOp) \ {<<>>}

VARIABLES
  disk, tracked, server,       \* files, openDocs, the server's open documents
  pc, kind, plan, dry,         \* a call: where it is, its tool, its edit, dry_run
  todo, hold, simulated, res,  \* an actor: operations left, the text in hand, the
                               \* text a preview ran on, its result
  capture, caught, sent, cut,  \* the running capture, what it holds; the edits the
                               \* server has sent; requests that were given up
  landed, toggles, reverted, outside, contended
    \* history: files written, the user's writes, previews whose text was changed and
    \* brought back, open files changed behind the server, calls overlapped

docVars == <<disk, tracked, server>>
callVars == <<kind, plan, dry, simulated>>
captureVars == <<capture, caught, sent, cut>>
historyVars == <<landed, toggles, reverted, outside, contended>>
vars == <<docVars, pc, callVars, todo, hold, res, captureVars, historyVars>>

Actor == Call \cup {Loop}
Pristine == [in |-> {}, astray |-> {}]
Text == [in : SUBSET (Call \cup {User}), astray : SUBSET Call]

Init ==
  /\ disk = [f \in File |-> Pristine]
  /\ tracked = {} /\ server = [f \in File |-> None]
  /\ pc = [a \in Actor |-> "idle"] /\ kind = [c \in Call |-> None]
  /\ plan = [c \in Call |-> <<>>] /\ dry = [c \in Call |-> FALSE]
  /\ todo = [a \in Actor |-> <<>>] /\ hold = [a \in Actor |-> Gone]
  /\ simulated = [c \in Call |-> Gone] /\ res = [a \in Actor |-> None]
  /\ capture = None /\ caught = [c \in Call |-> <<>>]
  /\ sent = {} /\ cut = {}
  /\ landed = [c \in Call |-> {}] /\ toggles = 0 /\ reverted = {}
  /\ outside = {} /\ contended = FALSE

Go(a, from, to) == pc[a] = from /\ pc' = [pc EXCEPT ![a] = to]
Finish(a, r) == pc' = [pc EXCEPT ![a] = "done"] /\ res' = [res EXCEPT ![a] = r]
Hold(a, t) == hold' = [hold EXCEPT ![a] = t]
Busy(a) == pc[a] \notin {"idle", "done"}

Requested(c) == Head(plan[c]).file
Verifies(c) == kind[c] \in {"rename", "refactor"}
Checked(c) == kind[c] \in {"match", "safe"}

\* What the server computes positions on: its open document, else the file.
View(f) == IF server[f] # None THEN server[f] ELSE disk[f]

\* An operation as it is handed to the client: the call it is for and the text
\* its positions are computed on, the empty one for a file that is to be created.
Op(o, c, t) == [op |-> o.op, file |-> o.file, to |-> o.to, by |-> c,
                on |-> IF t = Gone THEN Pristine ELSE t]
Planned(c, text) == [i \in DOMAIN plan[c] |-> Op(plan[c][i], c, text[plan[c][i].file])]
OnView == [f \in File |-> View(f)]

Splice(t, o) ==
  [in |-> t.in \cup {o.by},
   astray |-> IF t = o.on THEN t.astray ELSE t.astray \cup {o.by}]
------------------------------------------------------------------------------
(* Starting a call *)

StartPC(k) == CASE k \in {"rename", "refactor"} -> "read"
                [] k = "execute" -> "running"
                [] OTHER -> "plan"

\* A tool call, and the edit it stands for.  The positions of a raw workspace
\* edit are the agent's, who has read the files; a file is renamed to a free name.
Begin(c) ==
  /\ pc[c] = "idle"
  /\ \E k \in {"rename", "raw", "match", "safe", "execute", "refactor"}, p \in Plans,
        d \in BOOLEAN :
       /\ k \in {"match", "safe"} => Len(p) = 1
       /\ d => k \in {"rename", "refactor"}
       /\ \A i \in DOMAIN p : p[i].op = "rename" => disk[p[i].to] = Gone
       /\ kind' = [kind EXCEPT ![c] = k] /\ plan' = [plan EXCEPT ![c] = p]
       /\ dry' = [dry EXCEPT ![c] = d] /\ pc' = [pc EXCEPT ![c] = StartPC(k)]
       /\ todo' = [todo EXCEPT ![c] =
                     IF k # "raw" THEN <<>>
                     ELSE [i \in DOMAIN p |-> Op(p[i], c, disk[p[i].file])]]
  /\ contended' = (contended \/ \E a \in Actor : Busy(a))
  /\ UNCHANGED <<docVars, simulated, hold, res, captureVars, landed, toggles, reverted, outside>>

\* WithDocument reads the file, then opens it with what it has read.
ReadFile(c) ==
  /\ pc[c] = "read"
  /\ IF disk[Requested(c)] = Gone
     THEN Finish(c, "error") /\ UNCHANGED hold
     ELSE Go(c, "read", "open") /\ Hold(c, disk[Requested(c)]) /\ UNCHANGED res
  /\ UNCHANGED <<docVars, callVars, todo, captureVars, historyVars>>

\* OpenDocument: didOpen, or didChange when the document is tracked already,
\* which a server that has it closed ignores.
Opened(f, t) ==
  /\ tracked' = tracked \cup {f}
  /\ server' = IF f \in tracked /\ server[f] = None THEN server
               ELSE [server EXCEPT ![f] = t]

OpenDocument(c) ==
  /\ Go(c, "open", IF kind[c] = "refactor" THEN "lock" ELSE "plan")
  /\ Opened(Requested(c), hold[c])
  /\ Hold(c, Gone) /\ outside' = outside \ {Requested(c)}
  /\ UNCHANGED <<disk, callVars, todo, res, captureVars, landed, toggles, reverted, contended>>
------------------------------------------------------------------------------
(* Planning *)

PlannedOnStale(c) == \E i \in DOMAIN plan[c] : plan[c][i].file \in outside

\* textDocument/rename: the server answers with an edit, which dry_run returns.
RenameSymbol(c) ==
  /\ kind[c] = "rename" /\ pc[c] = "plan"
  /\ IF dry[c]
     THEN Finish(c, "preview") /\ UNCHANGED todo
     ELSE /\ Go(c, "plan", "apply") /\ todo' = [todo EXCEPT ![c] = Planned(c, OnView)]
          /\ UNCHANGED res
  /\ contended' = (contended \/ PlannedOnStale(c))
  /\ UNCHANGED <<docVars, callVars, hold, captureVars, landed, toggles, reverted, outside>>

HandleApplyEdit(c) ==
  /\ kind[c] = "raw" /\ Go(c, "plan", "apply")
  /\ UNCHANGED <<docVars, callVars, todo, hold, res, captureVars, historyVars>>

\* safe_apply_edit reads the file, then a session reads it again, simulates the
\* edit and discards it (module Session); only a preview without new errors that
\* has settled goes on.
ReadForPreview(c) ==
  /\ kind[c] = "safe" /\ pc[c] = "plan"
  /\ IF disk[Requested(c)] = Gone
     THEN Finish(c, "error") /\ UNCHANGED hold
     ELSE Go(c, "plan", "preview") /\ Hold(c, disk[Requested(c)]) /\ UNCHANGED res
  /\ UNCHANGED <<docVars, callVars, todo, captureVars, historyVars>>

SimulateEdit(c) ==
  /\ pc[c] = "preview"
  /\ \/ /\ disk[Requested(c)] # Gone
        /\ Go(c, "preview", "match") /\ UNCHANGED <<hold, res>>
     \/ \E r \in {"error", "blocked"} : Finish(c, r) /\ Hold(c, Gone)
  /\ simulated' = [simulated EXCEPT ![c] = disk[Requested(c)]]
  /\ UNCHANGED <<docVars, kind, plan, dry, todo, captureVars, historyVars>>

\* applyTextMatch: the range is computed from one read of the file, which for a
\* previewed edit must be the text that was previewed.
MatchAnyText(c) ==  \* mutant
  /\ (kind[c] = "match" /\ pc[c] = "plan") \/ pc[c] = "match"
  /\ IF disk[Requested(c)] = Gone
     THEN Finish(c, "error") /\ UNCHANGED todo
     ELSE /\ Go(c, pc[c], "apply") /\ UNCHANGED res
          /\ todo' = [todo EXCEPT ![c] = Planned(c, disk)]
  /\ Hold(c, Gone)
  /\ UNCHANGED <<docVars, callVars, captureVars, historyVars>>

ApplyTextMatch(c) ==
  /\ (kind[c] = "match" /\ pc[c] = "plan") \/ pc[c] = "match"
  /\ LET text == disk[Requested(c)] IN
     IF text = Gone \/ (pc[c] = "match" /\ text # hold[c])
     THEN Finish(c, "error") /\ UNCHANGED todo
     ELSE /\ Go(c, pc[c], "apply") /\ UNCHANGED res
          /\ todo' = [todo EXCEPT ![c] = Planned(c, disk)]
  /\ Hold(c, Gone)
  /\ UNCHANGED <<docVars, callVars, captureVars, historyVars>>
------------------------------------------------------------------------------
(* Commands: the server computes the edit and asks the client to apply it *)

\* Captures are serialized (captureRunMu).
StartCapture(c) ==
  /\ capture = None
  /\ Go(c, "lock", "running") /\ capture' = c
  /\ UNCHANGED <<docVars, callVars, todo, hold, res, caught, sent, cut, historyVars>>

\* workspace/applyEdit: collected for the capture that runs, whosever edit it
\* is, else applied by the read loop, which does nothing else meanwhile.
CaptureAndApply(c) ==  \* mutant
  /\ pc[c] = "running" \/ c \in cut
  /\ c \notin sent /\ pc[Loop] = "idle"
  /\ sent' = sent \cup {c}
  /\ caught' = IF capture = None THEN caught
               ELSE [caught EXCEPT ![capture] = @ \o Planned(c, OnView)]
  /\ todo' = [todo EXCEPT ![Loop] = Planned(c, OnView)]
  /\ pc' = [pc EXCEPT ![Loop] = "apply"]
  /\ contended' = (contended \/ PlannedOnStale(c) \/ \E x \in Call \ {c} : Busy(x))
  /\ UNCHANGED <<docVars, callVars, hold, res, capture, cut, landed, toggles, reverted, outside>>

ServerApplyEdit(c) ==
  /\ pc[c] = "running" \/ c \in cut
  /\ c \notin sent /\ pc[Loop] = "idle"
  /\ sent' = sent \cup {c}
  /\ IF capture # None
     THEN /\ caught' = [caught EXCEPT ![capture] = @ \o Planned(c, OnView)]
          /\ UNCHANGED <<pc, todo>>
     ELSE /\ todo' = [todo EXCEPT ![Loop] = Planned(c, OnView)]
          /\ pc' = [pc EXCEPT ![Loop] = "apply"]
          /\ UNCHANGED caught
  /\ contended' = (contended \/ PlannedOnStale(c) \/ \E x \in Call \ {c} : Busy(x))
  /\ UNCHANGED <<docVars, callVars, hold, res, capture, cut, landed, toggles, reverted, outside>>

EndCapture(c) == capture' = IF capture = c THEN None ELSE capture

\* The answer to workspace/executeCommand, which the read loop takes: a refactor
\* goes on with the edits caught, execute_command returns.
Executed(c) ==
  /\ pc[c] = "running" /\ pc[Loop] = "idle"
  /\ IF kind[c] = "refactor" /\ ~dry[c] /\ caught[c] # <<>>
     THEN /\ Go(c, "running", "apply") /\ todo' = [todo EXCEPT ![c] = caught[c]]
          /\ UNCHANGED res
     ELSE /\ Finish(c, IF kind[c] = "execute" THEN "executed" ELSE "preview")
          /\ UNCHANGED todo
  /\ EndCapture(c)
  /\ UNCHANGED <<docVars, callVars, hold, caught, sent, cut, historyVars>>

\* The request times out or is cancelled: the capture ends, the server goes on.
RequestEnds(c) ==
  /\ pc[c] = "running"
  /\ Finish(c, "error") /\ EndCapture(c)
  /\ cut' = cut \cup {c}
  /\ UNCHANGED <<docVars, callVars, todo, hold, caught, sent, historyVars>>
------------------------------------------------------------------------------
(* ApplyWorkspaceEdit, one operation after the other *)

Working(a) == pc[a] = "apply" /\ todo[a] # <<>>
NextOp(a) == todo' = [todo EXCEPT ![a] = Tail(@)]

\* The call is told of the error; what was written before stays.
Fail(a) ==
  /\ IF a = Loop THEN pc' = [pc EXCEPT ![Loop] = "idle"] /\ UNCHANGED res
     ELSE Finish(a, "error")
  /\ todo' = [todo EXCEPT ![a] = <<>>]

\* A file goes back to the text that a preview holds, after it has left it.
Reverts ==
  reverted' = reverted \cup {c \in Call : pc[c] = "match" /\ disk[Requested(c)] # hold[c]
                                         /\ disk'[Requested(c)] = hold[c]}

\* The server is not told of a file operation.
Untold(fs) == outside' = outside \cup {f \in fs : server[f] # None}

CreateFile(a) ==
  /\ Working(a) /\ Head(todo[a]).op = "create"
  /\ LET f == Head(todo[a]).file IN
     disk' = IF disk[f] = Gone THEN [disk EXCEPT ![f] = Pristine] ELSE disk
  /\ Reverts /\ NextOp(a) /\ Untold({Head(todo[a]).file})
  /\ UNCHANGED <<tracked, server, pc, callVars, hold, res, captureVars, landed, toggles, contended>>

RenameFile(a) ==
  /\ Working(a) /\ Head(todo[a]).op = "rename"
  /\ LET o == Head(todo[a]) IN
     IF disk[o.file] = Gone THEN Fail(a) /\ UNCHANGED <<disk, outside>>
     ELSE /\ disk' = [disk EXCEPT ![o.file] = Gone, ![o.to] = disk[o.file]]
          /\ NextOp(a) /\ Untold({o.file, o.to}) /\ UNCHANGED <<pc, res>>
  /\ Reverts
  /\ UNCHANGED <<tracked, server, callVars, hold, captureVars, landed, toggles, contended>>

DeleteFile(a) ==
  /\ Working(a) /\ Head(todo[a]).op = "delete"
  /\ disk' = [disk EXCEPT ![Head(todo[a]).file] = Gone]
  /\ Reverts /\ NextOp(a) /\ Untold({Head(todo[a]).file})
  /\ UNCHANGED <<tracked, server, pc, callVars, hold, res, captureVars, landed, toggles, contended>>

\* applyEditsToFileExpecting: the comparison is made on the read that is spliced.
SpliceUnchecked(a) ==  \* mutant
  /\ Working(a) /\ Head(todo[a]).op = "edit"
  /\ LET o == Head(todo[a]) IN
     IF disk[o.file] = Gone THEN Fail(a) /\ UNCHANGED hold
     ELSE Hold(a, Splice(disk[o.file], o)) /\ Go(a, "apply", "write") /\ UNCHANGED <<res, todo>>
  /\ UNCHANGED <<docVars, callVars, captureVars, historyVars>>

ReadAndSplice(a) ==
  /\ Working(a) /\ Head(todo[a]).op = "edit"
  /\ LET o == Head(todo[a]) IN
     IF disk[o.file] = Gone \/ (a # Loop /\ Checked(o.by) /\ disk[o.file] # o.on)
     THEN Fail(a) /\ UNCHANGED hold
     ELSE Hold(a, Splice(disk[o.file], o)) /\ Go(a, "apply", "write") /\ UNCHANGED <<res, todo>>
  /\ UNCHANGED <<docVars, callVars, captureVars, historyVars>>

\* The file is replaced, whatever has been written to it since; or not, on error.
FailureSkipped(a) ==  \* mutant
  LET o == Head(todo[a]) IN
  /\ pc[a] = "write"
  /\ \/ /\ disk' = [disk EXCEPT ![o.file] = hold[a]]
        /\ landed' = [landed EXCEPT ![o.by] = @ \cup {o.file}]
        /\ Go(a, "write", "send") /\ UNCHANGED <<todo, res, hold>>
     \/ /\ NextOp(a) /\ Go(a, "write", "apply") /\ Hold(a, Gone) /\ UNCHANGED <<disk, landed, res>>
  /\ Reverts
  /\ UNCHANGED <<tracked, server, callVars, captureVars, toggles, outside, contended>>

WriteFile(a) ==
  LET o == Head(todo[a]) IN
  /\ pc[a] = "write"
  /\ \/ /\ disk' = [disk EXCEPT ![o.file] = hold[a]]
        /\ landed' = [landed EXCEPT ![o.by] = @ \cup {o.file}]
        /\ Go(a, "write", "send") /\ UNCHANGED <<todo, res, hold>>
     \/ Fail(a) /\ Hold(a, Gone) /\ UNCHANGED <<disk, landed>>
  /\ Reverts
  /\ UNCHANGED <<tracked, server, callVars, captureVars, toggles, outside, contended>>

\* didChange with the text written, also for a document that is not open.
SendNothing(a) ==  \* mutant
  /\ Go(a, "send", "apply") /\ NextOp(a) /\ Hold(a, Gone)
  /\ UNCHANGED <<docVars, callVars, res, captureVars, historyVars>>

SendDidChange(a) ==
  LET f == Head(todo[a]).file IN
  /\ Go(a, "send", "apply") /\ NextOp(a)
  /\ server' = IF server[f] = None THEN server ELSE [server EXCEPT ![f] = hold[a]]
  /\ Hold(a, Gone) /\ outside' = outside \ {f}
  /\ UNCHANGED <<disk, tracked, callVars, res, captureVars, landed, toggles, reverted, contended>>

\* Everything is applied: the read loop answers the server, rename_symbol and
\* refactor verify the requested file and then the other ones, the rest return.
Edited(c) == {plan[c][i].file : i \in {j \in DOMAIN plan[c] : plan[c][j].op = "edit"}}

Applied(a) ==
  /\ pc[a] = "apply" /\ todo[a] = <<>>
  /\ IF a = Loop THEN pc' = [pc EXCEPT ![Loop] = "idle"] /\ UNCHANGED <<todo, res>>
     ELSE IF Verifies(a)
     THEN /\ Go(a, "apply", "reopen") /\ UNCHANGED res
          /\ \E order \in [1 .. Cardinality(Edited(a)) -> Edited(a)] :
               /\ order[1] = Requested(a)
               /\ \A f \in Edited(a) : \E i \in DOMAIN order : order[i] = f
               /\ todo' = [todo EXCEPT ![a] = order]
     ELSE Finish(a, "ok") /\ UNCHANGED todo
  /\ UNCHANGED <<docVars, callVars, hold, captureVars, historyVars>>
------------------------------------------------------------------------------
(* getDiagnosticsForFileStatus and verifyWorkspaceEditChannels: ReopenDocument *)

\* A tracked document is closed first.
CloseForReopen(c) ==
  /\ todo[c] # <<>> /\ Go(c, "reopen", "reread")
  /\ server' = IF Head(todo[c]) \in tracked THEN [server EXCEPT ![Head(todo[c])] = None] ELSE server
  /\ UNCHANGED <<disk, tracked, callVars, todo, hold, res, captureVars, historyVars>>

\* A file that cannot be read is left closed.
RereadFile(c) ==
  /\ pc[c] = "reread"
  /\ LET t == disk[Head(todo[c])] IN
     /\ Hold(c, t)
     /\ IF t = Gone THEN Go(c, "reread", "reopen") /\ NextOp(c)
        ELSE Go(c, "reread", "didOpen") /\ UNCHANGED todo
  /\ UNCHANGED <<docVars, callVars, res, captureVars, historyVars>>

ReopenDocument(c) ==
  LET f == Head(todo[c]) IN
  /\ Go(c, "didOpen", "reopen") /\ NextOp(c)
  /\ tracked' = tracked \cup {f} /\ server' = [server EXCEPT ![f] = hold[c]]
  /\ Hold(c, Gone) /\ outside' = outside \ {f}
  /\ UNCHANGED <<disk, callVars, res, captureVars, landed, toggles, reverted, contended>>

Verified(c) ==
  /\ pc[c] = "reopen" /\ todo[c] = <<>>
  /\ Finish(c, "ok")
  /\ UNCHANGED <<docVars, callVars, todo, hold, captureVars, historyVars>>
------------------------------------------------------------------------------
\* Another program writes a file, or takes its change back (bound: MaxUser).
UserWrites(f) ==
  /\ toggles < MaxUser /\ disk[f] # Gone
  /\ disk' = [disk EXCEPT ![f].in = IF User \in @ THEN @ \ {User} ELSE @ \cup {User}]
  /\ toggles' = toggles + 1 /\ Reverts
  /\ outside' = IF server[f] # None THEN outside \cup {f} ELSE outside
  /\ contended' = (contended \/ \E a \in Actor : Busy(a))
  /\ UNCHANGED <<tracked, server, pc, callVars, todo, hold, res, captureVars, landed>>

Next ==
  \/ \E c \in Call :
       \/ Begin(c) \/ ReadFile(c) \/ OpenDocument(c) \/ RenameSymbol(c) \/ HandleApplyEdit(c)
       \/ ReadForPreview(c) \/ SimulateEdit(c) \/ ApplyTextMatch(c)
       \/ StartCapture(c) \/ ServerApplyEdit(c) \/ Executed(c) \/ RequestEnds(c)
       \/ CloseForReopen(c) \/ RereadFile(c) \/ ReopenDocument(c) \/ Verified(c)
  \/ \E a \in Actor :
       \/ CreateFile(a) \/ RenameFile(a) \/ DeleteFile(a)
       \/ ReadAndSplice(a) \/ WriteFile(a) \/ SendDidChange(a) \/ Applied(a)
  \/ \E f \in File : UserWrites(f)

Spec == Init /\ [][Next]_vars
------------------------------------------------------------------------------
(* Properties *)

PCs == {"idle", "read", "open", "plan", "preview", "match", "lock", "running", "apply",
        "write", "send", "reopen", "reread", "didOpen", "done"}
Operations == [op : {"edit", "create", "rename", "delete"}, file : File, to : File,
               by : Call, on : Text \cup {Gone}]

\* Types; a document the server has open is tracked, a capture belongs to a
\* refactor that waits for its command.
TypeOK ==
  /\ disk \in [File -> Text \cup {Gone}]
  /\ tracked \subseteq File /\ server \in [File -> Text \cup {None}]
  /\ pc \in [Actor -> PCs] /\ dry \in [Call -> BOOLEAN]
  /\ \A a \in Actor : hold[a] \in Text \cup {Gone}
  /\ \A a \in Actor : todo[a] \in Seq(Operations) \cup Seq(File)
  /\ \A c \in Call : caught[c] \in Seq(Operations) /\ landed[c] \subseteq File
  /\ res \in [Actor -> {None, "ok", "error", "preview", "executed", "blocked"}]
  /\ \A f \in File : server[f] # None => f \in tracked
  /\ capture # None => kind[capture] = "refactor" /\ pc[capture] = "running"

\* An edit found by its text is never spliced into another text than the one it
\* was found in, whoever writes the file in between (workspace.go:599-604).
MatchedEditsLand ==
  \A f \in File : disk[f] # Gone => \A c \in disk[f].astray : ~Checked(c)

\* Between calls that do not overlap, with writes by other programs only between
\* them and only to files the server does not keep open or is told of first, the
\* server has the text of every file it has open: what it plans an edit on is the file.
ServerInSync ==
  ~contended /\ (\A a \in Actor : ~Busy(a))
    => \A f \in File \ outside : disk[f] # Gone => View(f) = disk[f]

\* A call that reports success has written every file of its edit (client.go:2866-2980).
SuccessMeansWritten ==
  \A c \in Call : res[c] = "ok" =>
    IF kind[c] = "refactor"
    THEN \A i \in DOMAIN caught[c] : caught[c][i].op = "edit" => caught[c][i].file \in landed[caught[c][i].by]
    ELSE Edited(c) \subseteq landed[c]

\* A dry run writes nothing, unless its request is given up (interactive.go:128-135).
DryRunWritesNothing ==
  \A c \in Call : dry[c] /\ c \notin cut => landed[c] = {}

\* What safe_apply_edit writes was simulated on the text it is spliced into, unless
\* that text was changed and brought back since (workspace.go:602-604).
SimulatedIsWritten ==
  \A c \in Call : kind[c] = "safe" /\ c \notin reverted
     => \A i \in DOMAIN todo[c] : todo[c][i].on = simulated[c]
==============================================================================
