----------------------------- MODULE Diagnostics -----------------------------
(***************************************************************************)
(* Documents and the diagnostics published for them: LSPClient.OpenDocument,*)
(* CloseDocument, ReopenDocument, ResetDiagnostics and                      *)
(* handlePublishDiagnostics (internal/lsp/client.go), the marks and the     *)
(* settled wait of internal/lsp/diagnostics.go, as used by ApplyEdit and    *)
(* Evaluate of internal/session/manager.go for servers that are not pulled. *)
(*                                                                         *)
(* A document's text stands for the diagnostics computed from it.  The      *)
(* server is external: it reads notifications in order, analyses one        *)
(* snapshot of a document at a time and publishes with a lag, so results    *)
(* for an older version arrive after newer ones were sent.                  *)
(*                                                                         *)
(* Time is abstract: whether the 500 ms quiet window or the deadline has    *)
(* passed is a choice at every poll.  A publication between the two reads   *)
(* of one poll can be covered while the window still counts as quiet.       *)
(***************************************************************************)
EXTENDS Integers, SequencesExt

CONSTANTS
  URI, Caller,    \* documents; concurrent callers, each a session or a tool
  Text, DiskText, \* contents, and the one on disk
  NoText,         \* no diagnostics: nothing cached, or an empty list
  NoDoc, NoMark, NoCall,
  Kinds,          \* server behaviours that Init may choose
  MaxSends        \* bound: notifications that open or change a document

\* versioned: publications carry the document version; republishes: unchanged
\* diagnostics are published too (gopls); timely: the server has answered when a
\* wait's deadline passes; clears: didClose publishes an empty list
ServerKind ==
  [versioned : BOOLEAN, republishes : BOOLEAN, timely : BOOLEAN, clears : BOOLEAN]

ASSUME TextAssumption == DiskText \in Text /\ NoText \notin Text
ASSUME KindAssumption == Kinds \subseteq ServerKind
ASSUME BoundAssumption == MaxSends \in Nat

Doc == [version : Nat, text : Text]
Mark == [gen : Nat, version : Nat]
Msg == [kind : {"open", "change", "close"}, uri : URI, version : Nat,
        text : Text \cup {NoText}]
Publication == [uri : URI, version : Nat, text : Text \cup {NoText}]

Call == [uri : URI, text : Text, version : Nat, fresh : BOOLEAN]

ASSUME NoneAssumption == NoDoc \notin Doc /\ NoMark \notin Mark /\ NoCall \notin Call

VARIABLES
  server,       \* the server's kind, never changed
  openDocs,     \* LSPClient.openDocs: last version, 0 while not tracked
  toServer,     \* notifications the server has not read
  srvDoc,       \* the server's copy of a document
  stale,        \* documents changed since their last analysis began
  analysing,    \* the snapshot under analysis
  lastPub,      \* what the server last published since the document was opened
  toClient,     \* publications readLoop has not dispatched
  diags, diagGen, diagVersion,   \* LSPClient's cache, version 0 when absent
  pc, call,     \* where each caller is, and the locals of OpenDocument
  marks,        \* SimulationSession.DiagMarks of each caller
  sends,        \* bounded by MaxSends
  sent,         \* history: text of the caller's last edit
  alone,        \* history: no other call changes the document from the mark on
  calm,         \* history: nothing was under way when the mark was taken
  past          \* history: "never" closed, "reopened", or its versions "restarted":
                \* it was closed, or a call wrote an older version back

clientVars == <<diags, diagGen, diagVersion>>
serverVars == <<srvDoc, stale, analysing, lastPub>>
markVars == <<marks, sent, alone, calm>>
vars == <<server, openDocs, toServer, toClient, serverVars, clientVars, pc, call,
          markVars, sends, past>>

Init ==
  /\ server \in Kinds
  /\ openDocs = [u \in URI |-> 0]
  /\ toServer = <<>> /\ toClient = <<>>
  /\ srvDoc = [u \in URI |-> NoDoc]
  /\ stale = {}
  /\ analysing = [u \in URI |-> NoDoc]
  /\ lastPub = [u \in URI |-> NoText]
  /\ diags = [u \in URI |-> NoText]
  /\ diagGen = [u \in URI |-> 0]
  /\ diagVersion = [u \in URI |-> 0]
  /\ pc = [c \in Caller |-> "idle"]
  /\ call = [c \in Caller |-> NoCall]
  /\ marks = [c \in Caller |-> [u \in URI |-> NoMark]]
  /\ sends = 0
  /\ sent = [c \in Caller |-> [u \in URI |-> NoText]]
  /\ alone = [c \in Caller |-> [u \in URI |-> FALSE]]
  /\ calm = [c \in Caller |-> [u \in URI |-> FALSE]]
  /\ past = [u \in URI |-> "never"]

-----------------------------------------------------------------------------
(* History *)

\* call c changes document u; a tool call (not an edit of c's session) also
\* ends what c itself may expect
Touch(c, u, edit) ==
  alone' = [d \in Caller |->
              [alone[d] EXCEPT ![u] = IF d = c /\ edit THEN @ ELSE FALSE]]

\* another call is between its look at u and its last notification about u
Changing(u, c) ==
  \E d \in Caller \ {c} : call[d] # NoCall /\ call[d].uri = u

UnderWay(u) ==
  \/ u \in stale \/ analysing[u] # NoDoc
  \/ \E i \in DOMAIN toServer : toServer[i].uri = u
  \/ \E i \in DOMAIN toClient : toClient[i].uri = u

-----------------------------------------------------------------------------
(* OpenDocument: look the version up, count it up, send *)

At(c, l) == pc' = [pc EXCEPT ![c] = l]

End(c) == At(c, "idle") /\ call' = [call EXCEPT ![c] = NoCall]

Enter(c, u, t, l) ==
  /\ pc[c] = "idle"
  /\ sends < MaxSends
  /\ sends' = sends + 1
  /\ At(c, l)
  /\ call' = [call EXCEPT ![c] =
       [uri |-> u, text |-> t, version |-> openDocs[u], fresh |-> openDocs[u] = 0]]

\* session.ApplyEdit: the mark is taken before the change goes out
EditMark(c) ==
  \E u \in URI, t \in Text :
    /\ Enter(c, u, t, "lookupEdit")
    /\ marks' = [marks EXCEPT ![c][u] = [gen |-> diagGen[u], version |-> 0]]
    /\ sent' = [sent EXCEPT ![c][u] = t]
    /\ alone' = [alone EXCEPT ![c][u] = ~Changing(u, c)]
    /\ calm' = [calm EXCEPT ![c][u] = ~UnderWay(u)]
    /\ UNCHANGED <<server, openDocs, toServer, toClient, serverVars, clientVars, past>>

\* the version counter is read here, and again by a session's edit in OpenLookup
CallOpen(c) ==
  \E u \in URI, t \in Text :
    /\ Enter(c, u, t, "assign")
    /\ UNCHANGED <<server, openDocs, toServer, toClient, serverVars, clientVars,
                   markVars, past>>

OpenLookup(c) ==
  /\ pc[c] = "lookupEdit"
  /\ call' = [call EXCEPT ![c].version = openDocs[call[c].uri],
                          ![c].fresh = openDocs[call[c].uri] = 0]
  /\ At(c, "assignEdit")
  /\ UNCHANGED <<server, openDocs, toServer, toClient, serverVars, clientVars,
                 markVars, sends, past>>

\* writes back the version read before, plus one: after two calls of another
\* caller that is an older version than the document has
OpenAssign(c) ==
  LET u == call[c].uri  edit == pc[c] = "assignEdit" IN
  /\ pc[c] \in {"assign", "assignEdit"}
  /\ call' = [call EXCEPT ![c].version = @ + 1]
  /\ openDocs' = [openDocs EXCEPT ![u] = call[c].version + 1]
  /\ Touch(c, u, edit)
  /\ past' = [past EXCEPT ![u] = IF call[c].version + 1 < openDocs[u] THEN "restarted" ELSE @]
  /\ At(c, IF edit THEN "sendEdit" ELSE "send")
  /\ UNCHANGED <<server, toServer, toClient, serverVars, clientVars,
                 marks, sent, calm, sends>>

OpenSend(c) ==
  LET u == call[c].uri  edit == pc[c] = "sendEdit" IN
  /\ pc[c] \in {"send", "sendEdit"}
  /\ toServer' = Append(toServer,
       [kind |-> IF call[c].fresh THEN "open" ELSE "change",
        uri |-> u, version |-> call[c].version, text |-> call[c].text])
  /\ Touch(c, u, edit)
  /\ IF edit THEN At(c, "markVersion") /\ UNCHANGED call ELSE End(c)
  /\ UNCHANGED <<server, openDocs, toClient, serverVars, clientVars,
                 marks, sent, calm, sends, past>>

\* ApplyEdit asks DocumentVersion which version its change got
EditVersion(c) ==
  LET u == call[c].uri IN
  /\ pc[c] = "markVersion"
  /\ marks' = [marks EXCEPT ![c][u].version = IF openDocs[u] > 0 THEN openDocs[u] ELSE @]
  /\ End(c)
  /\ UNCHANGED <<server, openDocs, toServer, toClient, serverVars, clientVars,
                 sent, alone, calm, sends, past>>

-----------------------------------------------------------------------------
(* CloseDocument, ReopenDocument, ResetDiagnostics, called by tools *)

SendClose(u) ==
  toServer' = Append(toServer, [kind |-> "close", uri |-> u, version |-> 0, text |-> NoText])

\* only of tracked documents: the didClose of another one changes nothing
CloseDocument(c) ==
  \E u \in URI :
    /\ pc[c] = "idle"
    /\ openDocs[u] > 0
    /\ openDocs' = [openDocs EXCEPT ![u] = 0]
    /\ call' = [call EXCEPT ![c] =
         [uri |-> u, text |-> DiskText, version |-> 0, fresh |-> FALSE]]
    /\ Touch(c, u, FALSE)
    /\ past' = [past EXCEPT ![u] = "restarted"]
    /\ At(c, "close")
    /\ UNCHANGED <<server, toServer, toClient, serverVars, clientVars,
                   marks, sent, calm, sends>>

CloseSend(c) ==
  /\ pc[c] = "close"
  /\ SendClose(call[c].uri)
  /\ Touch(c, call[c].uri, FALSE)
  /\ End(c)
  /\ UNCHANGED <<server, openDocs, toClient, serverVars, clientVars,
                 marks, sent, calm, sends, past>>

\* an untracked document is opened from disk instead
CallReopen(c) ==
  \E u \in URI :
    /\ openDocs[u] > 0
    /\ Enter(c, u, DiskText, "reopen")
    /\ UNCHANGED <<server, openDocs, toServer, toClient, serverVars, clientVars,
                   markVars, past>>

\* didClose without forgetting the version, then read the file; the read may fail
ReopenClose(c) ==
  LET u == call[c].uri IN
  /\ pc[c] = "reopen"
  /\ SendClose(u)
  /\ Touch(c, u, FALSE)
  /\ \/ /\ past' = [past EXCEPT ![u] = IF @ = "never" THEN "reopened" ELSE @]
        /\ call' = [call EXCEPT ![c].fresh = TRUE]
        /\ At(c, "assign")
     \/ /\ past' = [past EXCEPT ![u] = "restarted"]
        /\ End(c)
  /\ UNCHANGED <<server, openDocs, toClient, serverVars, clientVars,
                 marks, sent, calm, sends>>

\* the check after an edit (getDiagnosticsForFileStatus) drops what was published
\* before and reopens the document
ResetDiagnostics(c) ==
  \E u \in URI :
    /\ Enter(c, u, DiskText, "lookupReopen")
    /\ diags' = [diags EXCEPT ![u] = NoText]
    /\ diagVersion' = [diagVersion EXCEPT ![u] = 0]
    /\ Touch(c, u, FALSE)
    /\ UNCHANGED <<server, openDocs, toServer, toClient, serverVars, diagGen,
                   marks, sent, calm, past>>

ReopenLookup(c) ==
  LET u == call[c].uri IN
  /\ pc[c] = "lookupReopen"
  /\ call' = [call EXCEPT ![c].version = openDocs[u], ![c].fresh = openDocs[u] = 0]
  /\ At(c, IF openDocs[u] > 0 THEN "reopen" ELSE "assign")
  /\ UNCHANGED <<server, openDocs, toServer, toClient, serverVars, clientVars,
                 markVars, sends, past>>

-----------------------------------------------------------------------------
(* Evaluate's wait: WaitForDiagnosticsSettled on every marked document *)

Marked(c) == {u \in URI : marks[c][u] # NoMark}

CoverageAnyPublication(u, m) ==                                            \* mutant
  IF diagGen[u] = m.gen THEN "silent" ELSE "covered"

\* diagnosticsCoverage
Coverage(u, m) ==
  CASE m.version > 0 /\ diagVersion[u] >= m.version -> "covered"
    [] diagVersion[u] < m.version \/ m.version = 0 ->
         IF diagGen[u] = m.gen THEN "silent"
         ELSE IF m.version > 0 /\ diagVersion[u] > 0 THEN "stale"
         ELSE "covered"

CallEvaluate(c) ==
  /\ pc[c] = "idle"
  /\ Marked(c) # {}
  /\ pc' = [pc EXCEPT ![c] = "waiting"]
  /\ UNCHANGED <<server, openDocs, toServer, toClient, serverVars, clientVars,
                 call, markVars, sends, past>>

\* everything the server was sent has been analysed and delivered
Drained == stale = {} /\ toServer = <<>> /\ toClient = <<>>
           /\ \A u \in URI : analysing[u] = NoDoc

WaitPoll(c) ==
  LET cover == {Coverage(u, marks[c][u]) : u \in Marked(c)} IN
  /\ pc[c] = "waiting"
  /\ \/ /\ cover = {"covered"}         \* covered and quiet
        /\ pc' = [pc EXCEPT ![c] = "settled"]
     \/ /\ server.timely => Drained    \* the deadline has passed
        /\ \E quiet \in BOOLEAN :
             pc' = [pc EXCEPT ![c] =
               IF quiet /\ "stale" \notin cover /\ ~server.republishes
               THEN "settled" ELSE "unsettled"]
  /\ UNCHANGED <<server, openDocs, toServer, toClient, serverVars, clientVars,
                 call, markVars, sends, past>>

\* Evaluate reads the cache and returns
EvaluateRead(c) ==
  /\ pc[c] \in {"settled", "unsettled"}
  /\ pc' = [pc EXCEPT ![c] = "idle"]
  /\ UNCHANGED <<server, openDocs, toServer, toClient, serverVars, clientVars,
                 call, markVars, sends, past>>

-----------------------------------------------------------------------------
(* readLoop dispatches a publication *)

\* handlePublishDiagnostics
Deliver ==
  LET p == Head(toClient) IN
  /\ toClient # <<>>
  /\ toClient' = Tail(toClient)
  /\ diags' = [diags EXCEPT ![p.uri] = p.text]
  /\ diagGen' = [diagGen EXCEPT ![p.uri] = @ + 1]
  /\ diagVersion' = [diagVersion EXCEPT ![p.uri] = p.version]
  /\ UNCHANGED <<server, openDocs, toServer, serverVars, pc, call, markVars, sends, past>>

-----------------------------------------------------------------------------
(* The language server (external) *)

ServerReads ==
  LET m == Head(toServer)  u == m.uri IN
  /\ toServer # <<>>
  /\ toServer' = Tail(toServer)
  /\ \/ /\ m.kind = "open" \/ (m.kind = "change" /\ srvDoc[u] # NoDoc)
        /\ srvDoc' = [srvDoc EXCEPT ![u] = [version |-> m.version, text |-> m.text]]
        /\ stale' = stale \cup {u}
        /\ lastPub' = [lastPub EXCEPT ![u] = IF m.kind = "open" THEN NoText ELSE @]
        /\ UNCHANGED <<analysing, toClient>>
     \/ /\ m.kind = "change" /\ srvDoc[u] = NoDoc       \* not open: ignored
        /\ UNCHANGED <<serverVars, toClient>>
     \/ /\ m.kind = "close"
        /\ srvDoc' = [srvDoc EXCEPT ![u] = NoDoc]
        /\ stale' = stale \ {u}
        /\ analysing' = [analysing EXCEPT ![u] = NoDoc]
        /\ toClient' = IF server.clears
             THEN Append(toClient, [uri |-> u, version |-> 0, text |-> NoText])
             ELSE toClient
        /\ UNCHANGED lastPub
  /\ UNCHANGED <<server, openDocs, clientVars, pc, call, markVars, sends, past>>

ServerAnalyses(u) ==
  /\ u \in stale /\ analysing[u] = NoDoc
  /\ analysing' = [analysing EXCEPT ![u] = srvDoc[u]]
  /\ stale' = stale \ {u}
  /\ UNCHANGED <<server, openDocs, toServer, toClient, srvDoc, lastPub, clientVars,
                 pc, call, markVars, sends, past>>

\* unchanged diagnostics may be left out by a server that does not republish
ServerPublishes(u) ==
  LET d == analysing[u] IN
  /\ d # NoDoc
  /\ analysing' = [analysing EXCEPT ![u] = NoDoc]
  /\ lastPub' = [lastPub EXCEPT ![u] = d.text]
  /\ \/ toClient' = Append(toClient,
          [uri |-> u, version |-> IF server.versioned THEN d.version ELSE 0,
           text |-> d.text])
     \/ ~server.republishes /\ lastPub[u] = d.text /\ UNCHANGED toClient
  /\ UNCHANGED <<server, openDocs, toServer, srvDoc, stale, clientVars, pc, call,
                 markVars, sends, past>>

-----------------------------------------------------------------------------

Next ==
  \/ \E c \in Caller :
       \/ EditMark(c) \/ CallOpen(c) \/ OpenLookup(c) \/ OpenAssign(c) \/ OpenSend(c)
       \/ EditVersion(c) \/ CloseDocument(c) \/ CloseSend(c)
       \/ CallReopen(c) \/ ReopenClose(c) \/ ResetDiagnostics(c) \/ ReopenLookup(c)
       \/ CallEvaluate(c) \/ WaitPoll(c) \/ EvaluateRead(c)
  \/ Deliver \/ ServerReads
  \/ \E u \in URI : ServerAnalyses(u) \/ ServerPublishes(u)

Spec == Init /\ [][Next]_vars
-----------------------------------------------------------------------------
(* Properties *)

PCs == {"idle", "lookupEdit", "assign", "assignEdit", "send", "sendEdit",
        "markVersion", "close", "lookupReopen", "reopen", "waiting", "settled", "unsettled"}

TypeOK ==
  /\ server \in Kinds
  /\ openDocs \in [URI -> Nat]
  /\ toServer \in Seq(Msg) /\ toClient \in Seq(Publication)
  /\ srvDoc \in [URI -> Doc \cup {NoDoc}]
  /\ stale \subseteq URI
  /\ analysing \in [URI -> Doc \cup {NoDoc}]
  /\ lastPub \in [URI -> Text \cup {NoText}]
  /\ diags \in [URI -> Text \cup {NoText}]
  /\ diagGen \in [URI -> Nat] /\ diagVersion \in [URI -> Nat]
  /\ pc \in [Caller -> PCs]
  /\ call \in [Caller -> Call \cup {NoCall}]
  /\ marks \in [Caller -> [URI -> Mark \cup {NoMark}]]
  /\ sends \in Nat
  /\ sent \in [Caller -> [URI -> Text \cup {NoText}]]
  /\ alone \in [Caller -> [URI -> BOOLEAN]]
  /\ calm \in [Caller -> [URI -> BOOLEAN]]
  /\ past \in [URI -> {"never", "reopened", "restarted"}]

\* No other call touched u since c's edit, and the server reports either every
\* change or reports in time.
OwnEdit(c, u) == alone[c][u] /\ (server.republishes \/ server.timely)

\* The publications that arrive are then about c's edit: they say so by their
\* version, or none was under way.  Not when the versions of the document started
\* again: a version published before would pass for that of the edit.
Identified(c, u) ==
  /\ past[u] # "restarted"
  /\ calm[c][u] \/ (server.versioned /\ past[u] = "never")

\* When the wait reports settled, the cached diagnostics are those of the
\* session's edit, never of an earlier text: Evaluate then reports a high
\* confidence (diagnostics.go:40, manager.go:190-205, 288-297).
SettledIsCurrent ==
  \A c \in Caller : pc[c] = "settled" =>
    \A u \in Marked(c) : OwnEdit(c, u) /\ Identified(c, u) => diags[u] = sent[c][u]

\* Of a server that publishes for every version, silence since the edit means
\* it was not analysed: the wait is not settled (diagnostics.go:71-73).  Violated:
\* CloseDocument leaves diagVersion, versions start again at 1, and a version
\* published before the close covers the edit (diagnostics.go:42-44).
SilenceIsNotSettled ==
  \A c \in Caller : pc[c] = "settled" /\ server.republishes =>
    \A u \in Marked(c) : diagGen[u] > marks[c][u].gen
=============================================================================
