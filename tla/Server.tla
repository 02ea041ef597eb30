-------------------------------- MODULE Server --------------------------------
(* The server manager and the current client (internal/lsp/manager.go,
   cmd/agent-lsp/server.go and tools_workspace.go, internal/lsp/scope.go).

   Each MCP tool call is a goroutine.  A call about a file takes the client of the
   file's extension, else the current client, else starts every server at the
   file's inferred root (auto-init).  start_lsp starts all servers, one language,
   or connects to a running server.  The manager's mutex is held for the whole of
   a start, the initMu mutex for the whole of an auto-init, and the current client
   is set after the manager's mutex is released.  Direct servers are child
   processes; a daemon or passive client is a socket to a server of somebody else. *)
EXTENDS Naturals, Sequences, FiniteSets

CONSTANTS Caller,        \* concurrent tool calls
          MaxClients,    \* bound: LSPClient objects reachable or running at once
          Entry,         \* the language of each managed entry, in order
          DaemonLang,    \* languages served by a daemon (daemon.go:43)
          ScopeLang,     \* languages with a scope configuration (scope.go:51)
          File, LangOf, RootOf, Root,
          None,
          MaxCalls,      \* bound: calls started
          MaxCrashes,    \* bound: server processes that die on their own
          Tools          \* the calls that are made

Client == 1..MaxClients

ASSUME EntryAssumption == Entry \in Seq(STRING) /\ Entry # << >>
ASSUME BoundAssumption == MaxClients \in Nat \ {0}
ASSUME RootAssumption == RootOf \in [File -> Root \cup {None}]
ASSUME NoneAssumption ==
  None \notin Client /\ None \notin Root \cup Caller /\ None \notin {"file", "all", "lang", "connect"}

VARIABLES mode,     \* "single": one client created beforehand; "multi": one per entry
          entry,    \* managedEntry.client
          cs,       \* clientState.client
          client,   \* what each LSPClient is
          mu, initMu, \* holders of ServerManager.mu and initMu
          call,     \* what each goroutine is doing
          calls, crashes, \* counters of the bounds
          cfg, bak, \* the language server configuration file of a root, and its backup
          starts,   \* history: roots servers were auto-started for, explicit starts
          disturbed, \* history: a start failed or overlapped another, or a server died
          user,     \* history: the roots whose configuration file the user wrote
          rescoped  \* history: a scoped start where a generated file was in place

vars == <<mode, entry, cs, client, mu, initMu, call, calls, crashes, cfg, bak,
          starts, disturbed, user, rescoped>>
-----------------------------------------------------------------------------
Unused == [kind |-> "unused", root |-> None, live |-> FALSE, init |-> FALSE, scope |-> None]
Idle == [pc |-> "idle", op |-> None, arg |-> None, root |-> None, at |-> 0,
         started |-> << >>, got |-> None, scope |-> None]

Index(l) == {i \in DOMAIN Entry : Entry[i] = l}

\* DefaultClient: the client of the first entry.
DefaultClient == entry[1]

\* ClientForFile: the entry of the extension, even one without a client, else the first.
ClientForFile(f) ==
  IF mode = "multi" /\ Index(LangOf[f]) # {}
  THEN entry[CHOOSE i \in Index(LangOf[f]) : TRUE] ELSE DefaultClient

IsInitialized(c) == c # None /\ client[c].init

\* Shutdown of a direct client removes its scope configuration and ends the
\* process; of a socket client it closes the socket and returns: the scope stays
\* and the client still calls itself initialized.
ShutdownIn(cl, c) ==
  IF c = None THEN cl
  ELSE IF cl[c].kind = "socket" THEN [cl EXCEPT ![c].live = FALSE]
  ELSE [cl EXCEPT ![c].live = FALSE, ![c].init = FALSE, ![c].scope = None]

\* RemoveScopeConfig on the files <<configuration, backup>>: the backup is renamed
\* back, or the generated file removed.
RemoveScopeConfig(files, sc) ==
  IF sc = None THEN files
  ELSE IF ~sc.backed THEN [files EXCEPT !.cfg[sc.root] = "none"]
  ELSE IF files.bak[sc.root] = "none" THEN files
  ELSE [cfg |-> [files.cfg EXCEPT ![sc.root] = files.bak[sc.root]],
        bak |-> [files.bak EXCEPT ![sc.root] = "none"]]

ScopeOf(c) == IF c = None \/ client[c].kind = "socket" THEN None ELSE client[c].scope
Files == [cfg |-> cfg, bak |-> bak]
SetFiles(files) == cfg' = files.cfg /\ bak' = files.bak

Started(c, kind, root) ==
  [client EXCEPT ![c] = [kind |-> kind, root |-> root, live |-> TRUE, init |-> TRUE,
                         scope |-> IF mode = "single" /\ kind = "process" THEN @.scope ELSE None]]

\* NewLSPClient: an object nothing refers to and nothing runs behind.
Referred == {cs} \cup {entry[i] : i \in DOMAIN entry} \cup {call[p].got : p \in Caller}
Fresh == LET free == {c \in Client : c \notin Referred /\ ~client[c].live}
         IN {c \in free : \A d \in free : c <= d}
Step(p, rec) == call' = [call EXCEPT ![p] = rec]
Done(p) == Step(p, Idle)
Starting == {p \in Caller : call[p].op \in {"all", "lang", "connect"} \/ call[p].pc \in {"all", "default", "set"}}
Overlaps(p) == Starting \ {p} # {}

fixed == <<mode, user>>
files == <<cfg, bak, rescoped>>

Init ==
  /\ mode \in {"single", "multi"}
  /\ client = [c \in Client |-> Unused]
  /\ entry = IF mode = "single" THEN <<1>> ELSE [i \in DOMAIN Entry |-> None]
  /\ cs = DefaultClient
  /\ mu = None /\ initMu = None /\ call = [p \in Caller |-> Idle]
  /\ calls = 0 /\ crashes = 0
  /\ user \in SUBSET Root /\ rescoped = FALSE
  /\ cfg = [r \in Root |-> IF r \in user THEN "user" ELSE "none"]
  /\ bak = [r \in Root |-> "none"]
  /\ starts = {} /\ disturbed = FALSE
-----------------------------------------------------------------------------
(* A call about a file *)

\* clientForFile, first half: the routed client if it is initialized.
FileCall(p, f) ==
  /\ call[p].pc = "idle" /\ calls < MaxCalls /\ "file" \in Tools /\ mu = None
  /\ calls' = calls + 1
  /\ Step(p, [Idle EXCEPT !.op = "file", !.arg = f,
               !.pc = IF IsInitialized(ClientForFile(f)) THEN "use" ELSE "current",
               !.got = IF IsInitialized(ClientForFile(f)) THEN ClientForFile(f) ELSE None])
  /\ UNCHANGED <<fixed, files, entry, cs, client, mu, initMu, crashes, starts, disturbed>>

\* Second half: the current client, initialized or not; only none leads to auto-init.
CurrentClient(p) ==
  /\ call[p].pc = "current"
  /\ Step(p, IF cs # None THEN [call[p] EXCEPT !.pc = "use", !.got = cs]
             ELSE [call[p] EXCEPT !.pc = IF RootOf[call[p].arg] = None THEN "use" ELSE "autoInit"])
  /\ UNCHANGED <<fixed, files, entry, cs, client, mu, initMu, calls, crashes, starts, disturbed>>

\* The file lies under the root of the current client.
UnderCurrent(f) == cs # None /\ client[cs].root = RootOf[f]

\* autoInitClient: an unlocked check, then initMu.
AutoInit(p) ==
  /\ call[p].pc = "autoInit"
  /\ Step(p, IF UnderCurrent(call[p].arg) THEN [call[p] EXCEPT !.pc = "use", !.got = cs]
             ELSE [call[p] EXCEPT !.pc = "lockInit"])
  /\ UNCHANGED <<fixed, files, entry, cs, client, mu, initMu, calls, crashes, starts, disturbed>>

LockInit(p) ==
  /\ call[p].pc = "lockInit" /\ initMu = None
  /\ initMu' = p /\ Step(p, [call[p] EXCEPT !.pc = "recheck"])
  /\ UNCHANGED <<fixed, files, entry, cs, client, mu, calls, crashes, starts, disturbed>>

\* mutant
RecheckSkipped(p) ==
  /\ call[p].pc = "recheck" /\ mu = None
  /\ mu' = p /\ UNCHANGED initMu /\ disturbed' = (disturbed \/ Overlaps(p))
  /\ starts' = starts \cup {RootOf[call[p].arg]}
  /\ Step(p, [call[p] EXCEPT !.pc = "all", !.at = 1, !.root = RootOf[call[p].arg]])
  /\ UNCHANGED <<fixed, files, entry, cs, client, calls, crashes>>

\* Under initMu the check is made again; then StartAll takes the manager's mutex.
Recheck(p) ==
  /\ call[p].pc = "recheck"
  /\ \/ /\ UnderCurrent(call[p].arg)
        /\ initMu' = None /\ Step(p, [call[p] EXCEPT !.pc = "use", !.got = cs])
        /\ UNCHANGED <<mu, starts, disturbed>>
     \/ /\ ~UnderCurrent(call[p].arg) /\ mu = None
        /\ mu' = p /\ UNCHANGED initMu /\ disturbed' = (disturbed \/ Overlaps(p))
        /\ starts' = starts \cup {RootOf[call[p].arg]}
        /\ Step(p, [call[p] EXCEPT !.pc = "all", !.at = 1, !.root = RootOf[call[p].arg]])
  /\ UNCHANGED <<fixed, files, entry, cs, client, calls, crashes>>

\* The handler runs with what it got: CheckInitialized refuses none, not an uninitialized one.
Use(p) ==
  /\ call[p].pc = "use" /\ Done(p)
  /\ UNCHANGED <<fixed, files, entry, cs, client, mu, initMu, calls, crashes, starts, disturbed>>
-----------------------------------------------------------------------------
(* ServerManager.StartAll, under mu: one entry a step *)

\* The current entry's client: a new one over whatever the entry held, or, in
\* single mode, the one created beforehand, unless it is initialized already.
StartEntry(p) ==
  LET i == call[p].at  multi == mode = "multi" IN
  /\ call[p].pc = "all" /\ i <= Len(entry)
  /\ \E c \in IF multi THEN Fresh ELSE {entry[i]} :
       IF ~multi /\ IsInitialized(c)
       THEN /\ Step(p, [call[p] EXCEPT !.at = i + 1])
            /\ UNCHANGED <<client, entry>>
       ELSE /\ client' = Started(c, "process", call[p].root)
            /\ entry' = [entry EXCEPT ![i] = c]
            /\ Step(p, [call[p] EXCEPT !.at = i + 1, !.started = Append(@, c)])
  /\ UNCHANGED <<fixed, files, cs, mu, initMu, calls, crashes, starts, disturbed>>

\* An Initialize that fails: the clients this call started are shut down, though
\* the entries keep them; the failed one is dropped (a process of its that still
\* runs is not modelled).  An auto-init gives up its mutex and answers none.
StartEntryFails(p) ==
  /\ call[p].pc = "all" /\ call[p].at <= Len(entry)
  /\ mode = "single" => ~IsInitialized(entry[1])
  /\ client' = [c \in Client |->
       IF mode = "single" /\ c = entry[1] THEN [client[c] EXCEPT !.root = call[p].root]
       ELSE IF \E k \in DOMAIN call[p].started : call[p].started[k] = c THEN ShutdownIn(client, c)[c]
       ELSE client[c]]
  /\ mu' = None /\ disturbed' = TRUE
  /\ initMu' = IF initMu = p THEN None ELSE initMu
  /\ IF call[p].op = "file" THEN Step(p, [call[p] EXCEPT !.pc = "use"]) ELSE Done(p)
  /\ UNCHANGED <<fixed, files, entry, cs, calls, crashes, starts>>

\* All entries are started; the current client is set after mu is released.
AllStarted(p) ==
  /\ call[p].pc = "all" /\ call[p].at > Len(entry)
  /\ mu' = None /\ Step(p, [call[p] EXCEPT !.pc = "default"])
  /\ UNCHANGED <<fixed, files, entry, cs, client, initMu, calls, crashes, starts, disturbed>>

\* DefaultClient takes the mutex for reading.
ReadDefault(p) ==
  /\ call[p].pc = "default" /\ mu = None
  /\ Step(p, [call[p] EXCEPT !.pc = "set", !.got = DefaultClient])
  /\ UNCHANGED <<fixed, files, entry, cs, client, mu, initMu, calls, crashes, starts, disturbed>>

\* mutant
SetNothing(p) ==
  /\ call[p].pc = "set" /\ UNCHANGED cs
  /\ initMu' = IF initMu = p THEN None ELSE initMu
  /\ Step(p, IF call[p].op = "file" THEN [call[p] EXCEPT !.pc = "use"]
             ELSE IF call[p].scope # None THEN [call[p] EXCEPT !.pc = "setScope"] ELSE Idle)
  /\ UNCHANGED <<fixed, files, entry, client, mu, calls, crashes, starts, disturbed>>

\* clientState.set, the end of every start that succeeds.
SetCurrent(p) ==
  /\ call[p].pc = "set" /\ cs' = call[p].got
  /\ initMu' = IF initMu = p THEN None ELSE initMu
  /\ Step(p, IF call[p].op = "file" THEN [call[p] EXCEPT !.pc = "use"]
             ELSE IF call[p].scope # None THEN [call[p] EXCEPT !.pc = "setScope"] ELSE Idle)
  /\ UNCHANGED <<fixed, files, entry, client, mu, calls, crashes, starts, disturbed>>
-----------------------------------------------------------------------------
(* start_lsp *)

StartCall(p, op, pc, arg, root) ==
  /\ call[p].pc = "idle" /\ calls < MaxCalls /\ op \in Tools
  /\ calls' = calls + 1 /\ starts' = starts \cup {None}
  /\ disturbed' = (disturbed \/ Overlaps(p))
  /\ Step(p, [Idle EXCEPT !.op = op, !.pc = pc, !.arg = arg, !.root = root])
  /\ UNCHANGED <<fixed, files, entry, cs, client, mu, initMu, crashes>>

\* start_lsp without a language.
StartLspAll(p, r) == StartCall(p, "all", "lockAll", None, r)
LockAll(p) ==
  /\ call[p].pc = "lockAll" /\ mu = None
  /\ mu' = p /\ Step(p, [call[p] EXCEPT !.pc = "all", !.at = 1])
  /\ UNCHANGED <<fixed, files, entry, cs, client, initMu, calls, crashes, starts, disturbed>>

\* start_lsp with a language, and maybe a scope.
StartLspLanguage(p, l, r) ==
  \E pc \in {"lockLang"} \cup {x \in {"scope"} : l \in ScopeLang} : StartCall(p, "lang", pc, l, r)

\* mutant
GenerateOver(p) ==
  LET r == call[p].root IN
  /\ call[p].pc = "scope"
  /\ cfg' = [cfg EXCEPT ![r] = "gen"] /\ UNCHANGED bak
  /\ rescoped' = (rescoped \/ cfg[r] = "gen")
  /\ Step(p, [call[p] EXCEPT !.pc = "lockLang", !.scope = [root |-> r, backed |-> FALSE]])
  /\ UNCHANGED <<fixed, entry, cs, client, mu, initMu, calls, crashes, starts, disturbed>>

\* GenerateScopeConfig, before the manager is asked for anything: a file in place,
\* whoever wrote it, is renamed to the backup, over a backup already there.
GenerateScopeConfig(p) ==
  LET r == call[p].root  present == cfg[r] # "none" IN
  /\ call[p].pc = "scope"
  /\ cfg' = [cfg EXCEPT ![r] = "gen"]
  /\ bak' = IF present THEN [bak EXCEPT ![r] = cfg[r]] ELSE bak
  /\ rescoped' = (rescoped \/ cfg[r] = "gen")
  /\ Step(p, [call[p] EXCEPT !.pc = "lockLang", !.scope = [root |-> r, backed |-> present]])
  /\ UNCHANGED <<fixed, entry, cs, client, mu, initMu, calls, crashes, starts, disturbed>>

\* StartForLanguage takes mu; in multi mode it shuts the entry's client down first.
StopOld(p) ==
  LET i == IF mode = "multi" THEN CHOOSE i \in Index(call[p].arg) : TRUE ELSE 1
      old == IF mode = "multi" THEN entry[i] ELSE None IN
  /\ call[p].pc = "lockLang" /\ mu = None /\ mu' = p
  /\ client' = ShutdownIn(client, old) /\ SetFiles(RemoveScopeConfig(Files, ScopeOf(old)))
  /\ Step(p, [call[p] EXCEPT !.pc = "lang", !.at = i])
  /\ UNCHANGED <<fixed, rescoped, entry, cs, initMu, calls, crashes, starts, disturbed>>

\* The new client: a process, or a socket to a daemon; in single mode the one
\* created beforehand, as it is when it is initialized, whatever root was asked for.
StartNew(p) ==
  LET i == call[p].at  l == call[p].arg IN
  /\ call[p].pc = "lang"
  /\ \E c \in IF mode = "multi" THEN Fresh ELSE {entry[1]} :
       /\ client' = IF mode = "single" /\ IsInitialized(c) THEN client
                    ELSE Started(c, IF mode = "multi" /\ l \in DaemonLang THEN "socket" ELSE "process",
                                 call[p].root)
       /\ entry' = [entry EXCEPT ![i] = c]
       /\ Step(p, [call[p] EXCEPT !.pc = "set", !.got = c])
  /\ mu' = None
  /\ UNCHANGED <<fixed, files, cs, initMu, calls, crashes, starts, disturbed>>

\* A start that fails leaves the entry with the client it has shut down.
StartNewFails(p) ==
  /\ call[p].pc = "lang" /\ (mode = "single" => ~IsInitialized(entry[1]))
  /\ mu' = None /\ disturbed' = TRUE
  /\ Step(p, IF call[p].scope # None THEN [call[p] EXCEPT !.pc = "setScope"] ELSE Idle)
  /\ UNCHANGED <<fixed, files, entry, cs, client, initMu, calls, crashes, starts>>

\* The deferred SetScopeConfig: on whatever client is current by then, if any.
SetScopeConfig(p) ==
  /\ call[p].pc = "setScope" /\ Done(p)
  /\ client' = IF cs = None THEN client ELSE [client EXCEPT ![cs].scope = call[p].scope]
  /\ UNCHANGED <<fixed, files, entry, cs, mu, initMu, calls, crashes, starts, disturbed>>

\* start_lsp connect=...: the current client is shut down before the dial.
Connect(p, r) == StartCall(p, "connect", "shut", None, r)
ShutCurrent(p) ==
  /\ call[p].pc = "shut"
  /\ client' = ShutdownIn(client, cs) /\ SetFiles(RemoveScopeConfig(Files, ScopeOf(cs)))
  /\ Step(p, [call[p] EXCEPT !.pc = "dial"])
  /\ UNCHANGED <<fixed, rescoped, entry, cs, mu, initMu, calls, crashes, starts, disturbed>>

\* NewPassiveClient and Initialize; a failure leaves the client that was shut down current.
Dial(p) ==
  /\ call[p].pc = "dial"
  /\ \/ /\ \E c \in Fresh : /\ client' = Started(c, "socket", call[p].root)
                            /\ Step(p, [call[p] EXCEPT !.pc = "set", !.got = c])
        /\ UNCHANGED disturbed
     \/ disturbed' = TRUE /\ Done(p) /\ UNCHANGED client
  /\ UNCHANGED <<fixed, files, entry, cs, mu, initMu, calls, crashes, starts>>

\* A server dies: its exit monitor clears initialized; a socket client keeps it.
Die(c) ==
  /\ client[c].live /\ crashes < MaxCrashes /\ crashes' = crashes + 1
  /\ client' = [client EXCEPT ![c].live = FALSE, ![c].init = @ /\ client[c].kind = "socket"]
  /\ disturbed' = TRUE
  /\ UNCHANGED <<fixed, files, entry, cs, mu, initMu, call, calls, starts>>

CallStep(p) ==
  \/ \E f \in File : FileCall(p, f)
  \/ CurrentClient(p) \/ AutoInit(p) \/ LockInit(p) \/ Recheck(p) \/ Use(p)
  \/ StartEntry(p) \/ StartEntryFails(p) \/ AllStarted(p) \/ ReadDefault(p) \/ SetCurrent(p)
  \/ \E r \in Root : StartLspAll(p, r) \/ Connect(p, r)
  \/ \E i \in DOMAIN Entry, r \in Root : StartLspLanguage(p, Entry[i], r)
  \/ LockAll(p) \/ GenerateScopeConfig(p) \/ StopOld(p) \/ StartNew(p) \/ StartNewFails(p)
  \/ SetScopeConfig(p) \/ ShutCurrent(p) \/ Dial(p)

Stopped == calls = MaxCalls /\ (\A p \in Caller : call[p].pc = "idle") /\ UNCHANGED vars

Next == (\E p \in Caller : CallStep(p)) \/ (\E c \in Client : Die(c)) \/ Stopped
Spec == Init /\ [][Next]_vars
-----------------------------------------------------------------------------
(* Properties *)

Scope == {None} \cup [root : Root, backed : BOOLEAN]
TypeOK ==
  /\ \A i \in DOMAIN entry : entry[i] \in Client \cup {None}
  /\ cs \in Client \cup {None}
  /\ mu # None => call[mu].pc \in {"all", "lang"}
  /\ initMu # None => call[initMu].op = "file" /\ call[initMu].pc \in {"recheck", "all", "default", "set"}
  /\ \A c \in Client : client[c].kind \in {"unused", "process", "socket"} /\ client[c].scope \in Scope

\* Servers that run and answer, but that neither an entry nor the current client names.
Orphan == {c \in Client : /\ client[c].kind = "process" /\ client[c].live /\ client[c].init
                          /\ c # cs /\ \A i \in DOMAIN entry : entry[i] # c}

\* Calls that auto-start the servers of one root at once never leave a server
\* nobody will shut down, also when some starts fail half-way (server.go:252-276,
\* manager.go:117-140).  Not claimed after start_lsp without a language, nor for
\* files of two roots: StartAll replaces clients it does not shut down.
AutoInitLeavesNoOrphan ==
  None \notin starts /\ Cardinality(starts) <= 1 => Orphan = {}

\* The current client, once started, is usable whenever no start is under way:
\* the server a start shuts down is never the one it leaves current.  Not claimed
\* once starts overlapped or failed or a server died (tools_workspace.go:186).
CurrentIsUsable ==
  ~disturbed /\ Starting = {} /\ cs # None
    => (client[cs].root # None => client[cs].live /\ client[cs].init)

\* A configuration file of the user survives scoped starts, in place or as the
\* backup (scope.go:83-90).  Not claimed once a scoped start met a generated file:
\* that is renamed over the user's backup.
UserConfigKept == ~rescoped => \A r \in user : "user" \in {cfg[r], bak[r]}
==============================================================================
