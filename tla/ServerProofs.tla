----------------------------- MODULE ServerProofs -----------------------------
(* The server manager never loses a server, the current client or a user's file.

   ServerInv is inductive.  Its parts: the types; at which step which call is and
   which mutex it holds (StepsOfCalls); what scoped starts leave of a user's
   configuration file (Kept); what a start that runs alone is about to make current
   (OneStart, on ProcessesLive); and, while only auto-inits of one root have started
   servers, that the one auto-init under way has started every server that runs
   (OwnServers).  Each part is preserved by a lemma with a case for each action. *)
EXTENDS Server, FiniteSetTheorems, SequenceTheorems, TLAPS
-----------------------------------------------------------------------------
(* Types: what the actions need to know of a call, a client and the files *)

PC == {"idle", "use", "current", "autoInit", "lockInit", "recheck", "all", "default", "set",
       "setScope", "lockAll", "lockLang", "scope", "lang", "shut", "dial"}
Explicit == {"all", "lang", "connect"}
Arg == File \cup {Entry[i] : i \in DOMAIN Entry} \cup {None}
CallRec == [pc : PC, op : Explicit \cup {"file", None}, arg : Arg, root : Root \cup {None}, at : Nat,
            started : Seq(Client), got : Client \cup {None}, scope : Scope]
ClientRec == [kind : {"unused", "process", "socket"}, root : Root \cup {None}, live : BOOLEAN,
              init : BOOLEAN, scope : Scope]

ServerTypes ==
  /\ mode \in {"single", "multi"}
  /\ entry \in Seq(Client \cup {None})
  /\ Len(entry) = IF mode = "single" THEN 1 ELSE Len(Entry)
  /\ cs \in Client \cup {None}
  /\ client \in [Client -> ClientRec] /\ call \in [Caller -> CallRec]
  /\ cfg \in [Root -> {"none", "user", "gen"}] /\ bak \in [Root -> {"none", "user", "gen"}]
  /\ user \subseteq Root

\* which calls are at which steps, and what they hold
StepsOfCall(p) ==
  /\ call[p].pc = "idle" => call[p].op = None
  /\ call[p].pc \in {"current", "autoInit", "lockInit", "recheck"} =>
       call[p].op = "file" /\ call[p].arg \in File /\ call[p].started = << >>
  /\ call[p].pc \in {"lockInit", "recheck", "autoInit"} => RootOf[call[p].arg] # None
  /\ call[p].pc \in {"all", "default"} => call[p].op \in {"file", "all"}
  /\ call[p].pc \in {"setScope", "lockAll", "lockLang", "scope", "lang", "shut", "dial"} =>
       call[p].op \in Explicit
  /\ call[p].op = "lang" => \E i \in DOMAIN Entry : call[p].arg = Entry[i]
  /\ call[p].op \in Explicit => None \in starts
  /\ call[p].pc \in {"recheck", "all", "default", "set"} /\ call[p].op = "file" => initMu = p
  /\ call[p].pc \in {"all", "lang"} => mu = p
  /\ call[p].pc \in {"lockAll", "lockLang", "scope", "lang", "all", "shut", "dial"} => call[p].root \in Root
  /\ call[p].op = None => call[p].pc = "idle"
  /\ call[p].pc \in {"lockLang", "scope", "lang"} => call[p].op = "lang"
  /\ call[p].pc = "lockAll" => call[p].op = "all"
  /\ call[p].pc = "use" => call[p].op = "file"
  /\ call[p].pc = "all" => call[p].at >= 1

StepsOfCalls ==
  /\ mu # None => mu \in Caller /\ call[mu].pc \in {"all", "lang"}
  /\ initMu # None => /\ initMu \in Caller /\ call[initMu].op = "file"
                      /\ call[initMu].pc \in {"recheck", "all", "default", "set"}
  /\ \A p \in Caller : StepsOfCall(p)

(* A user's configuration file *)

\* the file is in place, or a generated one and it the backup; and no scope that
\* would remove it instead of taking it back is held by a client or a call
KeptFor(r) ==
  /\ (cfg[r] = "user" /\ bak[r] \in {"none", "user"}) \/ (cfg[r] = "gen" /\ bak[r] = "user")
  /\ \A c \in Client : client[c].scope # None /\ client[c].scope.root = r => client[c].scope.backed
  /\ \A p \in Caller : call[p].scope # None /\ call[p].scope.root = r => call[p].scope.backed

Kept == ~rescoped => \A r \in user : KeptFor(r)

(* The current client *)

\* a process that is initialized is alive; one created beforehand is never a socket
ProcessesLive ==
  /\ \A c \in Client : client[c].kind # "socket" /\ client[c].init => client[c].live
  /\ mode = "single" => entry[1] = 1 /\ client[1].kind # "socket"

Good(c) == c # None /\ client[c].live /\ client[c].init
Usable == cs # None /\ client[cs].root # None => client[cs].live /\ client[cs].init

\* One start at a time: what it is about to make current is running.
AboutToSet(p) ==
  /\ call[p].pc = "setScope" => Usable
  /\ call[p].pc = "set" => Good(call[p].got)
  /\ (call[p].pc = "default" \/ (call[p].pc = "all" /\ call[p].at > 1)) => Good(entry[1])

OneStart ==
  ~disturbed =>
    /\ \A p, q \in Starting : p = q
    /\ Starting = {} => Usable
    /\ \A p \in Caller : AboutToSet(p)

(* The servers an auto-init starts *)

Running == {c \in Client : client[c].live /\ client[c].init}
Entries == {entry[i] : i \in DOMAIN entry}
Solo == None \notin starts /\ \A r, s \in starts : r = s
AutoStarting == {p \in Caller : call[p].pc \in {"all", "default", "set"}}

\* What an auto-init that is under way has started so far.
OwnStart(p) ==
  /\ call[p].root \in starts
  /\ call[p].pc = "all" =>
       /\ call[p].at = Len(call[p].started) + 1
       /\ \A k \in 1..Len(call[p].started) : call[p].started[k] = entry[k]
       /\ Running \subseteq {entry[k] : k \in 1..Len(call[p].started)}
       /\ call[p].at > 1 => entry[1] \in Client /\ client[entry[1]].root = call[p].root
  /\ call[p].pc = "default" => entry[1] \in Client /\ client[entry[1]].root = call[p].root
  /\ call[p].pc = "set" => call[p].got \in Client /\ client[call[p].got].root = call[p].root

\* Only the auto-inits of one root: those under way have started every server that
\* runs, and after one that succeeded the current client is of that root.
OwnServers ==
  Solo =>
    /\ \A c \in Client : client[c].kind # "socket"
    /\ mode = "single" =>
         /\ cs = 1 /\ Running \subseteq {1}
         /\ \A p \in Caller : call[p].pc = "set" => call[p].got = 1
    /\ mode = "multi" =>
         /\ AutoStarting = {} /\ cs = None => Running = {}
         /\ cs # None => AutoStarting = {} /\ client[cs].root \in starts /\ client[cs].root # None
         /\ Running \subseteq Entries
         /\ \A p \in AutoStarting : OwnStart(p)

ServerInv ==
  /\ ServerTypes /\ IsFiniteSet(starts)
  /\ StepsOfCalls /\ Kept /\ ProcessesLive /\ OneStart /\ OwnServers
-----------------------------------------------------------------------------
LEMMA ClientSet == Client \subseteq Nat /\ 1 \in Client /\ \A i \in DOMAIN Entry : Entry[i] \in STRING
  BY BoundAssumption, EntryAssumption DEF Client

LEMMA IdleType == Idle \in CallRec /\ Unused \in ClientRec
  BY DEF Idle, CallRec, PC, Arg, Scope, Unused, ClientRec

LEMMA StartedType ==
  ASSUME ServerTypes, NEW c \in Client, NEW k \in {"process", "socket"}, NEW r \in Root
  PROVE  Started(c, k, r) \in [Client -> ClientRec]
  <1>1. client[c] \in ClientRec
    BY DEF ServerTypes
  <1>2. [kind |-> k, root |-> r, live |-> TRUE, init |-> TRUE,
         scope |-> IF mode = "single" /\ k = "process" THEN client[c].scope ELSE None] \in ClientRec
    BY <1>1 DEF ClientRec, Scope
  <1>. QED BY <1>2 DEF Started, ServerTypes

LEMMA ShutdownType ==
  ASSUME ServerTypes, NEW c \in Client \cup {None}
  PROVE  ShutdownIn(client, c) \in [Client -> ClientRec]
  <1>1. CASE c \in Client /\ c # None
    <2>1. client[c] \in ClientRec
      BY <1>1 DEF ServerTypes
    <2>2. /\ [client[c] EXCEPT !.live = FALSE] \in ClientRec
          /\ [client[c] EXCEPT !.live = FALSE, !.init = FALSE, !.scope = None] \in ClientRec
      BY <2>1 DEF ClientRec, Scope
    <2>. QED BY <1>1, <2>2 DEF ShutdownIn, ServerTypes
  <1>2. CASE c = None
    BY <1>2 DEF ShutdownIn, ServerTypes
  <1>. QED BY <1>1, <1>2

LEMMA SeqFacts ==
  ASSUME NEW S, NEW s \in Seq(S)
  PROVE  /\ DOMAIN s = 1..Len(s) /\ Len(s) \in Nat
         /\ \A i \in DOMAIN s : s[i] \in S
  OBVIOUS

LEMMA SeqReplaced ==
  ASSUME NEW S, NEW s \in Seq(S), NEW i, NEW c \in S
  PROVE  [s EXCEPT ![i] = c] \in Seq(S) /\ Len([s EXCEPT ![i] = c]) = Len(s)
  <1>1. CASE i \in 1..Len(s)
    BY <1>1, ExceptSeq
  <1>2. CASE i \notin 1..Len(s)
    <2>1. s = [j \in DOMAIN s |-> s[j]] /\ i \notin DOMAIN s
      BY <1>2
    <2>2. [s EXCEPT ![i] = c] = s
      BY <2>1
    <2>. QED BY <2>2
  <1>. QED BY <1>1, <1>2

LEMMA ClientTypes ==
  ASSUME ServerTypes
  PROVE  /\ \A i \in DOMAIN entry : entry[i] \in Client \cup {None}
         /\ DOMAIN entry = 1..Len(entry) /\ 1 \in DOMAIN entry /\ 1 \in DOMAIN Entry
         /\ \A l : Index(l) # {} => (CHOOSE i \in Index(l) : TRUE) \in DOMAIN Entry
         /\ mode = "multi" => DOMAIN entry = DOMAIN Entry
         /\ mode = "single" => DOMAIN entry = {1}
         /\ DefaultClient \in Client \cup {None}
         /\ \A f : ClientForFile(f) \in Client \cup {None}
         /\ \A c \in Client \cup {None} : ScopeOf(c) \in Scope
  <1>1. /\ \A i \in DOMAIN entry : entry[i] \in Client \cup {None}
        /\ DOMAIN entry = 1..Len(entry) /\ 1 \in DOMAIN entry
        /\ mode = "multi" => DOMAIN entry = DOMAIN Entry
        /\ mode = "single" => DOMAIN entry = {1} /\ 1 \in DOMAIN Entry
    <2>1. /\ entry \in Seq(Client \cup {None}) /\ Entry \in Seq(STRING) /\ Len(Entry) \in Nat \ {0}
          /\ Len(entry) = IF mode = "single" THEN 1 ELSE Len(Entry)
      BY EntryAssumption DEF ServerTypes
    <2>2. DOMAIN entry = 1..Len(entry) /\ DOMAIN Entry = 1..Len(Entry)
      BY <2>1, SeqFacts
    <2>3. \A i \in DOMAIN entry : entry[i] \in Client \cup {None}
      BY <2>1, SeqFacts
    <2>4. 1..1 = {1}
      OBVIOUS
    <2>. QED BY <2>1, <2>2, <2>3, <2>4 DEF ServerTypes
  <1>2. \A l : Index(l) # {} => (CHOOSE i \in Index(l) : TRUE) \in DOMAIN Entry
    BY DEF Index
  <1>3. \A c \in Client \cup {None} : ScopeOf(c) \in Scope
    BY DEF ScopeOf, Scope, ServerTypes, ClientRec
  <1>4. 1 \in DOMAIN Entry
    BY EntryAssumption
  <1>. QED BY <1>1, <1>2, <1>3, <1>4 DEF DefaultClient, ClientForFile, ServerTypes

LEMMA FreshIs ==
  ASSUME ServerTypes, NEW c \in Fresh
  PROVE  /\ c \in Client /\ ~client[c].live /\ c # cs /\ (\A i \in DOMAIN entry : entry[i] # c)
         /\ \A p \in Caller : call[p].got # c
  BY DEF Fresh, Referred

LEMMA StepIs ==
  ASSUME ServerTypes, NEW p \in Caller, NEW rec \in CallRec, Step(p, rec)
  PROVE  /\ call' \in [Caller -> CallRec] /\ call'[p] = rec
         /\ \A q \in Caller \ {p} : call'[q] = call[q]
  BY DEF Step, ServerTypes

LEMMA RemoveType ==
  ASSUME ServerTypes, NEW sc \in Scope, SetFiles(RemoveScopeConfig(Files, sc))
  PROVE  /\ cfg' \in [Root -> {"none", "user", "gen"}] /\ bak' \in [Root -> {"none", "user", "gen"}]
         /\ sc = None => UNCHANGED <<cfg, bak>>
         /\ sc # None => /\ sc.root \in Root
                         /\ \A r \in Root \ {sc.root} : cfg'[r] = cfg[r] /\ bak'[r] = bak[r]
                         /\ ~sc.backed => bak' = bak /\ cfg'[sc.root] = "none"
                         /\ sc.backed /\ bak[sc.root] = "none" => bak' = bak /\ cfg' = cfg
                         /\ sc.backed /\ bak[sc.root] # "none" =>
                              cfg'[sc.root] = bak[sc.root] /\ bak'[sc.root] = "none"
  <1>1. CASE sc = None
    BY <1>1 DEF SetFiles, RemoveScopeConfig, Files, ServerTypes
  <1>2. CASE sc # None
    <2>1. sc \in [root : Root, backed : BOOLEAN]
      BY <1>2 DEF Scope
    <2>2. CASE ~sc.backed
      BY <1>2, <2>1, <2>2 DEF SetFiles, RemoveScopeConfig, Files, ServerTypes
    <2>3. CASE sc.backed /\ bak[sc.root] = "none"
      BY <1>2, <2>1, <2>3 DEF SetFiles, RemoveScopeConfig, Files, ServerTypes
    <2>4. CASE sc.backed /\ bak[sc.root] # "none"
      BY <1>2, <2>1, <2>4 DEF SetFiles, RemoveScopeConfig, Files, ServerTypes
    <2>. QED BY <2>1, <2>2, <2>3, <2>4
  <1>. QED BY <1>1, <1>2

LEMMA CallsTypes ==
  ASSUME ServerTypes, StepsOfCalls, ProcessesLive, NEW p \in Caller, CallStep(p)
  PROVE  call' \in [Caller -> CallRec] /\ call'[p] \in CallRec /\ \A q \in Caller \ {p} : call'[q] = call[q]
  <1>0. call[p] \in CallRec /\ Idle \in CallRec
    BY IdleType DEF ServerTypes
  <1>. SUFFICES \E rec \in CallRec : Step(p, rec)
    BY StepIs
  <1>1. ASSUME NEW f \in File, FileCall(p, f)
        PROVE  \E rec \in CallRec : Step(p, rec)
    <2>. DEFINE rec == [Idle EXCEPT !.op = "file", !.arg = f,
               !.pc = IF IsInitialized(ClientForFile(f)) THEN "use" ELSE "current",
               !.got = IF IsInitialized(ClientForFile(f)) THEN ClientForFile(f) ELSE None]
    <2>1. ClientForFile(f) \in Client \cup {None}
      BY ClientTypes
    <2>2. /\ \A pc \in PC, c \in Client \cup {None} :
               [Idle EXCEPT !.op = "file", !.arg = f, !.pc = pc, !.got = c] \in CallRec
          /\ "use" \in PC /\ "current" \in PC /\ None \in Client \cup {None}
      <3>1. f \in Arg /\ "file" \in Explicit \cup {"file", None}
        BY DEF Arg
      <3>2. "use" \in PC /\ "current" \in PC
        BY DEF PC
      <3>. QED BY <1>0, <3>1, <3>2 DEF CallRec
    <2>3. \E pc \in PC, c \in Client \cup {None} :
            /\ pc = IF IsInitialized(ClientForFile(f)) THEN "use" ELSE "current"
            /\ c = IF IsInitialized(ClientForFile(f)) THEN ClientForFile(f) ELSE None
      BY <2>1, <2>2
    <2>5. rec \in CallRec
      BY <2>2, <2>3
    <2>. QED BY <1>1, <2>5 DEF FileCall
  <1>2. CASE CurrentClient(p) \/ AutoInit(p) \/ LockInit(p) \/ Use(p)
    <2>1. cs \in Client \cup {None}
      BY DEF ServerTypes
    <2>2. /\ \A pc \in PC, c \in Client \cup {None} : [call[p] EXCEPT !.pc = pc, !.got = c] \in CallRec
          /\ \A pc \in PC : [call[p] EXCEPT !.pc = pc] \in CallRec
      BY <1>0 DEF CallRec
    <2>3. "use" \in PC /\ "autoInit" \in PC /\ "lockInit" \in PC /\ "recheck" \in PC
      BY DEF PC
    <2>4. CASE CurrentClient(p)
      <3>1. CASE cs # None
        BY <1>0, <2>1, <2>2, <2>3, <2>4, <3>1 DEF CurrentClient
      <3>2. CASE cs = None
        BY <1>0, <2>1, <2>2, <2>3, <2>4, <3>2 DEF CurrentClient
      <3>. QED BY <3>1, <3>2
    <2>5. CASE AutoInit(p)
      <3>1. CASE UnderCurrent(call[p].arg)
        BY <1>0, <2>1, <2>2, <2>3, <2>5, <3>1 DEF AutoInit
      <3>2. CASE ~UnderCurrent(call[p].arg)
        BY <1>0, <2>1, <2>2, <2>3, <2>5, <3>2 DEF AutoInit
      <3>. QED BY <3>1, <3>2
    <2>6. CASE LockInit(p) \/ Use(p)
      BY <1>0, <2>2, <2>3, <2>6 DEF LockInit, Use, Done
    <2>. QED BY <1>2, <2>4, <2>5, <2>6
  <1>3. CASE Recheck(p)
    <2>1. CASE UnderCurrent(call[p].arg)
      <3>1. [call[p] EXCEPT !.pc = "use", !.got = cs] \in CallRec
        BY <1>0 DEF CallRec, PC, ServerTypes
      <3>. QED BY <1>3, <2>1, <3>1 DEF Recheck
    <2>2. CASE ~UnderCurrent(call[p].arg)
      <3>1. call[p].arg \in File
        BY <1>3 DEF Recheck, StepsOfCalls, StepsOfCall
      <3>2. RootOf[call[p].arg] \in Root \cup {None}
        BY <3>1, RootAssumption
      <3>3. [call[p] EXCEPT !.pc = "all", !.at = 1, !.root = RootOf[call[p].arg]] \in CallRec
        BY <1>0, <3>2 DEF CallRec, PC
      <3>. QED BY <1>3, <2>2, <3>3 DEF Recheck
    <2>. QED BY <2>1, <2>2
  <1>4. CASE StartEntry(p)
    <2>1. PICK c \in (IF mode = "multi" THEN Fresh ELSE {entry[call[p].at]}) :
            \/ IsInitialized(c) /\ Step(p, [call[p] EXCEPT !.at = call[p].at + 1])
            \/ client' = Started(c, "process", call[p].root)
               /\ Step(p, [call[p] EXCEPT !.at = call[p].at + 1, !.started = Append(@, c)])
      BY <1>4 DEF StartEntry
    <2>2. call[p].at + 1 \in Nat
      BY <1>0 DEF CallRec
    <2>3. [call[p] EXCEPT !.at = call[p].at + 1] \in CallRec
      BY <1>0, <2>2 DEF CallRec
    <2>4. c \in Client => Append(call[p].started, c) \in Seq(Client)
      BY <1>0 DEF CallRec
    <2>5. c \in Client => [call[p] EXCEPT !.at = call[p].at + 1, !.started = Append(@, c)] \in CallRec
      BY <1>0, <2>2, <2>4 DEF CallRec
    <2>6. CASE mode = "multi"
      BY <2>1, <2>3, <2>5, <2>6 DEF Fresh
    <2>7. CASE mode = "single"
      <3>1. call[p].at \in DOMAIN entry
        BY <1>0, <1>4, <2>7, ClientTypes DEF StartEntry, StepsOfCalls, StepsOfCall, CallRec
      <3>2. c \in Client
        BY <2>1, <2>7, <3>1, ClientTypes, ClientSet DEF ProcessesLive
      <3>. QED BY <2>1, <2>3, <2>5, <3>2
    <2>. QED BY <2>6, <2>7 DEF ServerTypes
  <1>5. CASE StartEntryFails(p) \/ AllStarted(p)
    <2>1. [call[p] EXCEPT !.pc = "use"] \in CallRec /\ [call[p] EXCEPT !.pc = "default"] \in CallRec
      BY <1>0 DEF CallRec, PC
    <2>. QED BY <1>0, <1>5, <2>1 DEF StartEntryFails, AllStarted, Done
  <1>6. CASE ReadDefault(p)
    <2>1. [call[p] EXCEPT !.pc = "set", !.got = DefaultClient] \in CallRec
      BY <1>0, ClientTypes DEF CallRec, PC
    <2>. QED BY <1>6, <2>1 DEF ReadDefault
  <1>7. CASE SetCurrent(p) \/ StartNewFails(p)
    <2>1. [call[p] EXCEPT !.pc = "use"] \in CallRec /\ [call[p] EXCEPT !.pc = "setScope"] \in CallRec
      BY <1>0 DEF CallRec, PC
    <2>2. (IF call[p].op = "file" THEN [call[p] EXCEPT !.pc = "use"]
             ELSE IF call[p].scope # None THEN [call[p] EXCEPT !.pc = "setScope"] ELSE Idle) \in CallRec
      BY <1>0, <2>1
    <2>3. (IF call[p].scope # None THEN [call[p] EXCEPT !.pc = "setScope"] ELSE Idle) \in CallRec
      BY <1>0, <2>1
    <2>. QED BY <1>7, <2>2, <2>3 DEF SetCurrent, StartNewFails
  <1>8. ASSUME NEW op \in Explicit, NEW pc \in PC, NEW arg \in Arg, NEW r \in Root, StartCall(p, op, pc, arg, r)
        PROVE  \E rec \in CallRec : Step(p, rec)
    <2>1. [Idle EXCEPT !.op = op, !.pc = pc, !.arg = arg, !.root = r] \in CallRec
      BY <1>0 DEF CallRec
    <2>. QED BY <1>8, <2>1 DEF StartCall
  <1>9. ASSUME NEW r \in Root, StartLspAll(p, r) \/ Connect(p, r)
        PROVE  \E rec \in CallRec : Step(p, rec)
    <2>1. "lockAll" \in PC /\ "shut" \in PC /\ None \in Arg /\ "all" \in Explicit /\ "connect" \in Explicit
      BY DEF PC, Arg, Explicit
    <2>. QED BY <1>8, <1>9, <2>1 DEF StartLspAll, Connect
  <1>10. ASSUME NEW i \in DOMAIN Entry, NEW r \in Root, StartLspLanguage(p, Entry[i], r)
         PROVE  \E rec \in CallRec : Step(p, rec)
    <2>1. "lockLang" \in PC /\ "scope" \in PC /\ Entry[i] \in Arg /\ "lang" \in Explicit
      BY DEF PC, Arg, Explicit
    <2>. QED BY <1>8, <1>10, <2>1 DEF StartLspLanguage
  <1>11. CASE LockAll(p) \/ ShutCurrent(p)
    <2>1. [call[p] EXCEPT !.pc = "all", !.at = 1] \in CallRec /\ [call[p] EXCEPT !.pc = "dial"] \in CallRec
      BY <1>0 DEF CallRec, PC
    <2>. QED BY <1>11, <2>1 DEF LockAll, ShutCurrent
  <1>12. CASE GenerateScopeConfig(p)
    <2>1. call[p].root \in Root
      BY <1>12 DEF GenerateScopeConfig, StepsOfCalls, StepsOfCall
    <2>2. [root |-> call[p].root, backed |-> cfg[call[p].root] # "none"] \in Scope
      BY <2>1 DEF Scope
    <2>3. [call[p] EXCEPT !.pc = "lockLang",
             !.scope = [root |-> call[p].root, backed |-> cfg[call[p].root] # "none"]] \in CallRec
      BY <1>0, <2>2 DEF CallRec, PC
    <2>. QED BY <1>12, <2>3 DEF GenerateScopeConfig
  <1>13. CASE StopOld(p)
    <2>. DEFINE i == IF mode = "multi" THEN CHOOSE i \in Index(call[p].arg) : TRUE ELSE 1
    <2>1. Index(call[p].arg) # {}
      BY <1>13 DEF StopOld, StepsOfCalls, StepsOfCall, Index
    <2>2. i \in Nat
      BY <2>1, ClientTypes, EntryAssumption
    <2>3. [call[p] EXCEPT !.pc = "lang", !.at = i] \in CallRec
      BY <1>0, <2>2 DEF CallRec, PC
    <2>. QED BY <1>13, <2>3 DEF StopOld
  <1>14. CASE StartNew(p)
    <2>1. PICK c \in (IF mode = "multi" THEN Fresh ELSE {entry[1]}) :
            Step(p, [call[p] EXCEPT !.pc = "set", !.got = c])
      BY <1>14 DEF StartNew
    <2>2. c \in Client \cup {None}
      BY <2>1, ClientTypes DEF Fresh
    <2>3. [call[p] EXCEPT !.pc = "set", !.got = c] \in CallRec
      BY <1>0, <2>2 DEF CallRec, PC
    <2>. QED BY <2>1, <2>3
  <1>15. CASE SetScopeConfig(p)
    BY <1>0, <1>15 DEF SetScopeConfig, Done
  <1>16. CASE Dial(p)
    <2>1. \A c \in Client : [call[p] EXCEPT !.pc = "set", !.got = c] \in CallRec
      BY <1>0 DEF CallRec, PC
    <2>2. Fresh \subseteq Client
      BY DEF Fresh
    <2>. QED BY <1>0, <1>16, <2>1, <2>2 DEF Dial, Done
  <1>. QED BY <1>1, <1>2, <1>3, <1>4, <1>5, <1>6, <1>7, <1>9, <1>10, <1>11, <1>12, <1>13, <1>14,
              <1>15, <1>16 DEF CallStep

\* where start_lsp begins, for each of its forms
FirstStep == {<<"all", "lockAll">>, <<"lang", "lockLang">>, <<"lang", "scope">>, <<"connect", "shut">>}

\* The steps that only move a call along, or lock.
Moves(p) ==
  \/ \E f \in File : FileCall(p, f)
  \/ CurrentClient(p) \/ AutoInit(p) \/ LockInit(p) \/ Recheck(p) \/ Use(p)
  \/ AllStarted(p) \/ ReadDefault(p) \/ LockAll(p)
  \/ \E op \in Explicit, pc \in PC, arg \in Arg, r \in Root :
       /\ <<op, pc>> \in FirstStep
       /\ op = "lang" => \E i \in DOMAIN Entry : arg = Entry[i]
       /\ StartCall(p, op, pc, arg, r)

LEMMA StepCases ==
  ASSUME NEW p \in Caller, CallStep(p)
  PROVE  \/ Moves(p) \/ StartEntry(p) \/ StartEntryFails(p) \/ SetCurrent(p)
         \/ GenerateScopeConfig(p) \/ StopOld(p) \/ StartNew(p) \/ StartNewFails(p)
         \/ SetScopeConfig(p) \/ ShutCurrent(p) \/ Dial(p)
  <1>0. /\ {"lockAll", "lockLang", "scope", "shut"} \subseteq PC /\ None \in Arg
        /\ {"all", "lang", "connect"} = Explicit /\ \A i \in DOMAIN Entry : Entry[i] \in Arg
    BY DEF PC, Arg, Explicit
  <1>1. ASSUME NEW r \in Root, StartLspAll(p, r) \/ Connect(p, r)
        PROVE  Moves(p)
    BY <1>0, <1>1 DEF StartLspAll, Connect, Moves, FirstStep
  <1>2. ASSUME NEW i \in DOMAIN Entry, NEW r \in Root, StartLspLanguage(p, Entry[i], r)
        PROVE  Moves(p)
    <2>1. PICK pc \in {"lockLang", "scope"} : StartCall(p, "lang", pc, Entry[i], r)
      BY <1>2 DEF StartLspLanguage
    <2>. QED BY <1>0, <2>1 DEF Moves, FirstStep
  <1>. QED BY <1>1, <1>2 DEF CallStep, Moves

LEMMA MovesKeep ==
  ASSUME NEW p \in Caller, Moves(p)
  PROVE  UNCHANGED <<mode, user, cfg, bak, rescoped, entry, cs, client>> /\ (disturbed => disturbed')
  <1>1. ASSUME NEW f \in File, FileCall(p, f)
        PROVE  UNCHANGED <<mode, user, cfg, bak, rescoped, entry, cs, client>> /\ (disturbed => disturbed')
    BY <1>1 DEF FileCall, fixed, files
  <1>2. CASE CurrentClient(p) \/ AutoInit(p) \/ LockInit(p) \/ Use(p)
    BY <1>2 DEF CurrentClient, AutoInit, LockInit, Use, fixed, files
  <1>3. CASE Recheck(p)
    <2>1. UNCHANGED <<fixed, files, entry, cs, client>>
      BY <1>3 DEF Recheck
    <2>2. disturbed => disturbed'
      BY <1>3 DEF Recheck
    <2>. QED BY <2>1, <2>2 DEF fixed, files
  <1>4. CASE AllStarted(p) \/ ReadDefault(p) \/ LockAll(p)
    BY <1>4 DEF AllStarted, ReadDefault, LockAll, fixed, files
  <1>5. ASSUME NEW op, NEW pc, NEW arg, NEW r, StartCall(p, op, pc, arg, r)
        PROVE  UNCHANGED <<mode, user, cfg, bak, rescoped, entry, cs, client>> /\ (disturbed => disturbed')
    <2>1. UNCHANGED <<fixed, files, entry, cs, client>> /\ (disturbed => disturbed')
      BY <1>5 DEF StartCall
    <2>. QED BY <2>1 DEF fixed, files
  <1>. QED BY <1>1, <1>2, <1>3, <1>4, <1>5 DEF Moves

\* A shutdown of a client and of its scope, by a start that replaces it.
LEMMA Shuts ==
  ASSUME ServerTypes, StepsOfCalls, NEW p \in Caller, StopOld(p) \/ ShutCurrent(p)
  PROVE  \E old \in Client \cup {None} :
           client' = ShutdownIn(client, old) /\ SetFiles(RemoveScopeConfig(Files, ScopeOf(old)))
  <1>1. CASE ShutCurrent(p)
    BY <1>1 DEF ShutCurrent, ServerTypes
  <1>2. CASE StopOld(p)
    <2>. DEFINE i == IF mode = "multi" THEN CHOOSE i \in Index(call[p].arg) : TRUE ELSE 1
                old == IF mode = "multi" THEN entry[i] ELSE None
    <2>1. old \in Client \cup {None}
      BY <1>2, ClientTypes DEF StopOld, StepsOfCalls, StepsOfCall, Index
    <2>. QED BY <1>2, <2>1 DEF StopOld
  <1>. QED BY <1>1, <1>2

LEMMA TypesStep ==
  ASSUME ServerTypes, StepsOfCalls, ProcessesLive, [Next]_vars
  PROVE  ServerTypes'
  <1>1. CASE UNCHANGED vars
    BY <1>1 DEF ServerTypes, vars
  <1>2. ASSUME NEW c \in Client, Die(c)
        PROVE  ServerTypes'
    <2>1. client[c] \in ClientRec
      BY DEF ServerTypes
    <2>2. [client[c] EXCEPT !.live = FALSE, !.init = @ /\ client[c].kind = "socket"] \in ClientRec
      <3>1. (client[c].init /\ client[c].kind = "socket") \in BOOLEAN
        OBVIOUS
      <3>. QED BY <2>1, <3>1 DEF ClientRec
    <2>3. client' = [client EXCEPT ![c] = [client[c] EXCEPT !.live = FALSE, !.init = @ /\ client[c].kind = "socket"]]
      BY <1>2, <2>1 DEF Die, ServerTypes, ClientRec
    <2>4. client' \in [Client -> ClientRec]
      BY <2>2, <2>3 DEF ServerTypes
    <2>. QED BY <1>2, <2>4 DEF Die, ServerTypes, fixed, files
  <1>3. ASSUME NEW p \in Caller, CallStep(p)
        PROVE  ServerTypes'
    <2>0. call' \in [Caller -> CallRec] /\ call[p] \in CallRec
      BY <1>3, CallsTypes DEF ServerTypes
    <2>00. \A c \in Fresh : c \in Client
      BY DEF Fresh
    <2>1. CASE Moves(p)
      BY <2>0, <2>1, MovesKeep DEF ServerTypes
    <2>2. CASE StartEntry(p)
      <3>. DEFINE i == call[p].at
      <3>1. UNCHANGED <<mode, user, cs, cfg, bak>>
        BY <2>2 DEF StartEntry, fixed, files
      <3>2. PICK c \in (IF mode = "multi" THEN Fresh ELSE {entry[i]}) :
              \/ UNCHANGED <<client, entry>>
              \/ client' = Started(c, "process", call[p].root) /\ entry' = [entry EXCEPT ![i] = c]
        BY <2>2 DEF StartEntry
      <3>3. CASE UNCHANGED <<client, entry>>
        BY <2>0, <3>1, <3>3 DEF ServerTypes
      <3>4. CASE client' = Started(c, "process", call[p].root) /\ entry' = [entry EXCEPT ![i] = c]
        <4>1. c \in Client
          <5>1. CASE mode = "multi"
            BY <2>00, <3>2, <5>1
          <5>2. CASE mode = "single"
            <6>1. i = 1
              <7>1. call[p].at \in Nat /\ call[p].at <= Len(entry) /\ Len(entry) = 1
              BY <2>0, <2>2, <5>2 DEF StartEntry, ServerTypes, CallRec
            <7>2. call[p].at >= 1
              BY <2>2 DEF StartEntry, StepsOfCalls, StepsOfCall
            <7>. QED BY <7>1, <7>2
            <6>. QED BY <3>2, <5>2, <6>1, ClientSet DEF ProcessesLive
          <5>. QED BY <5>1, <5>2 DEF ServerTypes
        <4>2. call[p].root \in Root
          BY <2>2 DEF StartEntry, StepsOfCalls, StepsOfCall
        <4>3. client' \in [Client -> ClientRec]
          BY <3>4, <4>1, <4>2, StartedType
        <4>4. entry' \in Seq(Client \cup {None}) /\ Len(entry') = Len(entry)
          <5>1. c \in Client \cup {None} /\ entry \in Seq(Client \cup {None})
            BY <4>1 DEF ServerTypes
          <5>. QED BY <3>4, <5>1, SeqReplaced
        <4>. QED BY <2>0, <3>1, <4>3, <4>4 DEF ServerTypes
      <3>. QED BY <3>2, <3>3, <3>4
    <2>3. CASE StartEntryFails(p)
      <3>1. UNCHANGED <<mode, user, cs, cfg, bak, entry>>
        BY <2>3 DEF StartEntryFails, fixed, files
      <3>2. call[p].root \in Root
        BY <2>3 DEF StartEntryFails, StepsOfCalls, StepsOfCall
      <3>3. \A c \in Client : [client[c] EXCEPT !.root = call[p].root] \in ClientRec
        BY <3>2 DEF ServerTypes, ClientRec
      <3>4. \A c \in Client : ShutdownIn(client, c)[c] \in ClientRec
        BY ShutdownType
      <3>5. \A c \in Client : client[c] \in ClientRec
        BY DEF ServerTypes
      <3>6. client' = [c \in Client |->
              IF mode = "single" /\ c = entry[1] THEN [client[c] EXCEPT !.root = call[p].root]
              ELSE IF \E k \in DOMAIN call[p].started : call[p].started[k] = c THEN ShutdownIn(client, c)[c]
              ELSE client[c]]
        BY <2>3 DEF StartEntryFails
      <3>7. client' \in [Client -> ClientRec]
        BY <3>3, <3>4, <3>5, <3>6
      <3>. QED BY <2>0, <3>1, <3>7 DEF ServerTypes
    <2>4. CASE SetCurrent(p)
      BY <2>0, <2>4 DEF SetCurrent, ServerTypes, fixed, files, CallRec
    <2>5. CASE GenerateScopeConfig(p)
      <3>1. UNCHANGED <<mode, user, cs, entry, client>>
        BY <2>5 DEF GenerateScopeConfig, fixed
      <3>2. cfg' \in [Root -> {"none", "user", "gen"}] /\ bak' \in [Root -> {"none", "user", "gen"}]
        BY <2>5 DEF GenerateScopeConfig, ServerTypes
      <3>. QED BY <2>0, <3>1, <3>2 DEF ServerTypes
    <2>6. CASE StopOld(p) \/ ShutCurrent(p)
      <3>1. UNCHANGED <<mode, user, cs, entry>>
        BY <2>6 DEF StopOld, ShutCurrent, fixed
      <3>2. \E old \in Client \cup {None} :
              client' = ShutdownIn(client, old) /\ SetFiles(RemoveScopeConfig(Files, ScopeOf(old)))
        BY <2>6, Shuts
      <3>3. client' \in [Client -> ClientRec]
        BY <3>2, ShutdownType
      <3>4. cfg' \in [Root -> {"none", "user", "gen"}] /\ bak' \in [Root -> {"none", "user", "gen"}]
        BY <3>2, ClientTypes, RemoveType
      <3>. QED BY <2>0, <3>1, <3>3, <3>4 DEF ServerTypes
    <2>7. CASE StartNew(p)
      <3>1. UNCHANGED <<mode, user, cs, cfg, bak>>
        BY <2>7 DEF StartNew, fixed, files
      <3>2. PICK c \in (IF mode = "multi" THEN Fresh ELSE {entry[1]}) :
              /\ client' = IF mode = "single" /\ IsInitialized(c) THEN client
                    ELSE Started(c, IF mode = "multi" /\ call[p].arg \in DaemonLang THEN "socket" ELSE "process",
                                 call[p].root)
              /\ entry' = [entry EXCEPT ![call[p].at] = c]
        BY <2>7 DEF StartNew
      <3>3. c \in Client
        BY <2>00, <3>2, ClientSet DEF ServerTypes, ProcessesLive
      <3>4. call[p].root \in Root
        BY <2>7 DEF StartNew, StepsOfCalls, StepsOfCall
      <3>5. client' \in [Client -> ClientRec]
        <4>1. \A k \in {"socket", "process"} : Started(c, k, call[p].root) \in [Client -> ClientRec]
          BY <3>3, <3>4, StartedType
        <4>. QED BY <3>2, <4>1 DEF ServerTypes
      <3>6. entry' \in Seq(Client \cup {None}) /\ Len(entry') = Len(entry)
        BY <3>2, <3>3, SeqReplaced DEF ServerTypes
      <3>. QED BY <2>0, <3>1, <3>5, <3>6 DEF ServerTypes
    <2>8. CASE StartNewFails(p)
      BY <2>0, <2>8 DEF StartNewFails, ServerTypes, fixed, files
    <2>9. CASE SetScopeConfig(p)
      <3>1. UNCHANGED <<mode, user, cs, entry, cfg, bak>>
        BY <2>9 DEF SetScopeConfig, fixed, files
      <3>2. cs # None => [client[cs] EXCEPT !.scope = call[p].scope] \in ClientRec
        <4>1. call[p].scope \in Scope
          BY <2>0 DEF CallRec
        <4>2. cs # None => client[cs] \in ClientRec
          BY DEF ServerTypes
        <4>. QED BY <4>1, <4>2 DEF ClientRec
      <3>3. client' = IF cs = None THEN client ELSE [client EXCEPT ![cs].scope = call[p].scope]
        BY <2>9 DEF SetScopeConfig
      <3>4. client' \in [Client -> ClientRec]
        BY <3>2, <3>3 DEF ServerTypes
      <3>. QED BY <2>0, <3>1, <3>4 DEF ServerTypes
    <2>10. CASE Dial(p)
      <3>1. UNCHANGED <<mode, user, cs, entry, cfg, bak>>
        BY <2>10 DEF Dial, fixed, files
      <3>2. call[p].root \in Root
        BY <2>10 DEF Dial, StepsOfCalls, StepsOfCall
      <3>3. client' \in [Client -> ClientRec]
        <4>1. \A c \in Fresh : Started(c, "socket", call[p].root) \in [Client -> ClientRec]
          BY <2>00, <3>2, StartedType
        <4>. QED BY <2>10, <4>1 DEF Dial, ServerTypes
      <3>. QED BY <2>0, <3>1, <3>3 DEF ServerTypes
    <2>. QED BY <1>3, <2>1, <2>2, <2>3, <2>4, <2>5, <2>6, <2>7, <2>8, <2>9, <2>10, StepCases
  <1>. QED BY <1>1, <1>2, <1>3 DEF Next, Stopped

\* What is left of the invariant of the calls when one call takes a step.
LEMMA OtherSteps ==
  ASSUME ServerTypes, StepsOfCalls, NEW p \in Caller, \A q \in Caller \ {p} : call'[q] = call[q],
         starts \subseteq starts',
         mu' \in {mu, None, p}, mu' # mu => (mu = p \/ (mu = None /\ call'[p].pc \in {"all", "lang"})),
         mu' = p => call'[p].pc \in {"all", "lang"},
         initMu' \in {initMu, None, p}, initMu' # initMu => initMu \in {p, None},
         initMu' = p => call'[p].op = "file" /\ call'[p].pc \in {"recheck", "all", "default", "set"},
         StepsOfCall(p)'
  PROVE  StepsOfCalls'
  <1>1. \A q \in Caller \ {p} : call'[q] = call[q]
    OBVIOUS
  <1>2. None \notin Caller
    BY NoneAssumption
  <1>3. ASSUME NEW q \in Caller \ {p}
        PROVE  StepsOfCall(q)'
    <2>1. StepsOfCall(q) /\ call'[q] = call[q]
      BY <1>1 DEF StepsOfCalls
    <2>2. (mu = q => mu' = q) /\ (initMu = q => initMu' = q)
      BY <1>2
    <2>. QED BY <2>1, <2>2 DEF StepsOfCall
  <1>4. mu' # None => mu' \in Caller /\ call'[mu'].pc \in {"all", "lang"}
    BY <1>1 DEF StepsOfCalls
  <1>5. initMu' # None => /\ initMu' \in Caller /\ call'[initMu'].op = "file"
                          /\ call'[initMu'].pc \in {"recheck", "all", "default", "set"}
    BY <1>1 DEF StepsOfCalls
  <1>. QED BY <1>3, <1>4, <1>5 DEF StepsOfCalls

LEMMA StepsStep ==
  ASSUME ServerTypes, StepsOfCalls, ProcessesLive, [Next]_vars
  PROVE  StepsOfCalls'
  <1>1. CASE UNCHANGED vars
    BY <1>1 DEF StepsOfCalls, StepsOfCall, vars
  <1>2. ASSUME NEW c \in Client, Die(c)
        PROVE  StepsOfCalls'
    BY <1>2 DEF Die, StepsOfCalls, StepsOfCall
  <1>3. ASSUME NEW p \in Caller, CallStep(p)
        PROVE  StepsOfCalls'
    <2>0. /\ call \in [Caller -> CallRec] /\ call[p] \in CallRec /\ call'[p] \in CallRec
          /\ \A q \in Caller \ {p} : call'[q] = call[q]
      BY <1>3, CallsTypes DEF ServerTypes
    <2>00. StepsOfCall(p) /\ p # None
      BY NoneAssumption DEF StepsOfCalls
    <2>. DEFINE Goal == /\ starts \subseteq starts' /\ mu' \in {mu, None, p}
                        /\ mu' # mu => (mu = p \/ (mu = None /\ call'[p].pc \in {"all", "lang"}))
                        /\ mu' = p => call'[p].pc \in {"all", "lang"}
                        /\ initMu' \in {initMu, None, p} /\ (initMu' # initMu => initMu \in {p, None})
                        /\ initMu' = p => call'[p].op = "file" /\ call'[p].pc \in {"recheck", "all", "default", "set"}
                        /\ StepsOfCall(p)'
    <2>. SUFFICES Goal
      BY <2>0, OtherSteps
    <2>01. /\ mu = p => call[p].pc \in {"all", "lang"}
           /\ initMu = p => call[p].op = "file" /\ call[p].pc \in {"recheck", "all", "default", "set"}
      BY <2>00 DEF StepsOfCalls
    <2>1. ASSUME NEW f \in File, FileCall(p, f)
          PROVE  Goal
      <3>1. /\ UNCHANGED <<starts, mu, initMu>> /\ call[p].pc = "idle"
            /\ call'[p].pc \in {"use", "current"} /\ call'[p].op = "file" /\ call'[p].arg = f /\ call'[p].started = << >>
        BY <2>0, <2>1 DEF FileCall, Step, Idle
      <3>. QED BY <2>00, <2>01, <3>1, NoneAssumption DEF StepsOfCall, Explicit
    <2>2. CASE CurrentClient(p)
      <3>1. /\ UNCHANGED <<starts, mu, initMu>> /\ call[p].pc = "current"
            /\ call'[p].pc \in {"use", "autoInit"} /\ call'[p].op = call[p].op /\ call'[p].arg = call[p].arg
            /\ call'[p].started = call[p].started
            /\ call'[p].pc = "autoInit" => RootOf[call[p].arg] # None
        BY <2>0, <2>2 DEF CurrentClient, Step, CallRec
      <3>. QED BY <2>00, <2>01, <3>1, NoneAssumption DEF StepsOfCall, Explicit
    <2>3. CASE AutoInit(p)
      <3>1. /\ UNCHANGED <<starts, mu, initMu>> /\ call[p].pc = "autoInit"
            /\ call'[p].pc \in {"use", "lockInit"} /\ call'[p].op = call[p].op /\ call'[p].arg = call[p].arg
            /\ call'[p].started = call[p].started
        BY <2>0, <2>3 DEF AutoInit, Step, CallRec
      <3>. QED BY <2>00, <2>01, <3>1, NoneAssumption DEF StepsOfCall, Explicit
    <2>4. CASE LockInit(p)
      <3>1. /\ UNCHANGED <<starts, mu>> /\ call[p].pc = "lockInit" /\ initMu = None /\ initMu' = p
            /\ call'[p].pc = "recheck" /\ call'[p].op = call[p].op /\ call'[p].arg = call[p].arg
            /\ call'[p].started = call[p].started
        BY <2>0, <2>4 DEF LockInit, Step, CallRec
      <3>. QED BY <2>00, <2>01, <3>1, NoneAssumption DEF StepsOfCall, Explicit
    <2>5. CASE Recheck(p)
      <3>1. CASE UnderCurrent(call[p].arg)
        <4>1. /\ UNCHANGED <<starts, mu>> /\ call[p].pc = "recheck" /\ initMu' = None
              /\ call'[p].pc = "use" /\ call'[p].op = call[p].op /\ call'[p].arg = call[p].arg
              /\ call'[p].started = call[p].started
          <5>1. /\ UNCHANGED <<starts, mu>> /\ call[p].pc = "recheck" /\ initMu' = None
                /\ Step(p, [call[p] EXCEPT !.pc = "use", !.got = cs])
            BY <2>5, <3>1 DEF Recheck
          <5>. QED BY <2>0, <5>1 DEF Step, CallRec
        <4>. QED BY <2>00, <2>01, <4>1, NoneAssumption DEF StepsOfCall, Explicit
      <3>2. CASE ~UnderCurrent(call[p].arg)
        <4>1. /\ starts \subseteq starts' /\ mu = None /\ mu' = p /\ UNCHANGED initMu /\ call[p].pc = "recheck"
              /\ call'[p].pc = "all" /\ call'[p].op = call[p].op /\ call'[p].arg = call[p].arg
              /\ call'[p].started = call[p].started /\ call'[p].at = 1 /\ call'[p].root = RootOf[call[p].arg]
          <5>1. /\ starts \subseteq starts' /\ mu = None /\ mu' = p /\ UNCHANGED initMu /\ call[p].pc = "recheck"
                /\ Step(p, [call[p] EXCEPT !.pc = "all", !.at = 1, !.root = RootOf[call[p].arg]])
            BY <2>5, <3>2 DEF Recheck
          <5>. QED BY <2>0, <5>1 DEF Step, CallRec
        <4>2. call'[p].root \in Root
          BY <2>00, <4>1, RootAssumption DEF StepsOfCall
        <4>. QED BY <2>00, <2>01, <4>1, <4>2, NoneAssumption DEF StepsOfCall, Explicit
      <3>. QED BY <3>1, <3>2
    <2>6. CASE Use(p) \/ SetScopeConfig(p)
      <3>1. UNCHANGED <<starts, mu, initMu>> /\ call[p].pc \in {"use", "setScope"} /\ call'[p] = Idle
        BY <2>0, <2>6 DEF Use, SetScopeConfig, Done, Step
      <3>. QED BY <2>00, <2>01, <3>1, NoneAssumption DEF StepsOfCall, Explicit, Idle
    <2>7. CASE StartEntry(p)
      <3>1. /\ UNCHANGED <<starts, mu, initMu>> /\ call[p].pc = "all"
            /\ call'[p].pc = "all" /\ call'[p].op = call[p].op /\ call'[p].arg = call[p].arg
            /\ call'[p].at = call[p].at + 1 /\ call'[p].root = call[p].root
        <4>1. UNCHANGED <<starts, mu, initMu>> /\ call[p].pc = "all"
          BY <2>7 DEF StartEntry
        <4>2. PICK c \in (IF mode = "multi" THEN Fresh ELSE {entry[call[p].at]}) :
                \/ Step(p, [call[p] EXCEPT !.at = call[p].at + 1])
                \/ Step(p, [call[p] EXCEPT !.at = call[p].at + 1, !.started = Append(@, c)])
          BY <2>7 DEF StartEntry
        <4>3. \/ call'[p] = [call[p] EXCEPT !.at = call[p].at + 1]
              \/ \E st : call'[p] = [call[p] EXCEPT !.at = call[p].at + 1, !.started = st]
          BY <2>0, <4>2 DEF Step
        <4>. QED BY <2>0, <4>1, <4>3 DEF CallRec
      <3>2. call[p].at \in Nat
        BY <2>0 DEF CallRec
      <3>. QED BY <2>00, <2>01, <3>1, <3>2, NoneAssumption DEF StepsOfCall, Explicit
    <2>8. CASE StartEntryFails(p)
      <3>1. /\ UNCHANGED <<starts>> /\ call[p].pc = "all" /\ mu' = None
            /\ initMu' = IF initMu = p THEN None ELSE initMu
            /\ IF call[p].op = "file" THEN call'[p] = [call[p] EXCEPT !.pc = "use"] ELSE call'[p] = Idle
        BY <2>0, <2>8 DEF StartEntryFails, Done, Step
      <3>2. CASE call[p].op = "file"
        <4>1. call'[p].pc = "use" /\ call'[p].op = "file"
          BY <2>0, <3>1, <3>2 DEF CallRec
        <4>. QED BY <2>00, <2>01, <3>1, <4>1, NoneAssumption DEF StepsOfCall, Explicit
      <3>3. CASE call[p].op # "file"
        BY <2>00, <2>01, <3>1, <3>3, NoneAssumption DEF StepsOfCall, Explicit, Idle
      <3>. QED BY <3>2, <3>3
    <2>9. CASE AllStarted(p)
      <3>1. /\ UNCHANGED <<starts, initMu>> /\ call[p].pc = "all" /\ mu' = None
            /\ call'[p].pc = "default" /\ call'[p].op = call[p].op /\ call'[p].arg = call[p].arg
        BY <2>0, <2>9 DEF AllStarted, Step, CallRec
      <3>. QED BY <2>00, <2>01, <3>1, NoneAssumption DEF StepsOfCall, Explicit
    <2>10. CASE ReadDefault(p)
      <3>1. /\ UNCHANGED <<starts, mu, initMu>> /\ call[p].pc = "default"
            /\ call'[p].pc = "set" /\ call'[p].op = call[p].op /\ call'[p].arg = call[p].arg
        BY <2>0, <2>10 DEF ReadDefault, Step, CallRec
      <3>. QED BY <2>00, <2>01, <3>1, NoneAssumption DEF StepsOfCall, Explicit
    <2>11. CASE SetCurrent(p)
      <3>1. /\ UNCHANGED <<starts, mu>> /\ call[p].pc = "set"
            /\ initMu' = IF initMu = p THEN None ELSE initMu
            /\ call'[p] = IF call[p].op = "file" THEN [call[p] EXCEPT !.pc = "use"]
                          ELSE IF call[p].scope # None THEN [call[p] EXCEPT !.pc = "setScope"] ELSE Idle
        BY <2>0, <2>11 DEF SetCurrent, Step
      <3>2. CASE call[p].op = "file"
        <4>1. call'[p].pc = "use" /\ call'[p].op = "file"
          BY <2>0, <3>1, <3>2 DEF CallRec
        <4>. QED BY <2>00, <2>01, <3>1, <4>1, NoneAssumption DEF StepsOfCall, Explicit
      <3>3. CASE call[p].op # "file" /\ call[p].scope # None
        <4>1. call'[p].pc = "setScope" /\ call'[p].op = call[p].op /\ call'[p].arg = call[p].arg
          BY <2>0, <3>1, <3>3 DEF CallRec
        <4>2. call[p].op \in Explicit
          BY <2>0, <2>00, <3>1, <3>3 DEF StepsOfCall, CallRec
        <4>. QED BY <2>00, <2>01, <3>1, <3>3, <4>1, <4>2, NoneAssumption DEF StepsOfCall, Explicit
      <3>4. CASE call[p].op # "file" /\ call[p].scope = None
        <4>1. call'[p] = Idle
          BY <3>1, <3>4
        <4>. QED BY <2>00, <2>01, <3>1, <3>4, <4>1, NoneAssumption DEF StepsOfCall, Explicit, Idle
      <3>. QED BY <3>2, <3>3, <3>4
    <2>12. ASSUME NEW op \in Explicit, NEW pc \in PC, NEW arg \in Arg, NEW r \in Root,
                  <<op, pc>> \in FirstStep,
                  op = "lang" => \E i \in DOMAIN Entry : arg = Entry[i],
                  StartCall(p, op, pc, arg, r)
           PROVE  Goal
      <3>1. /\ starts' = starts \cup {None} /\ UNCHANGED <<mu, initMu>> /\ call[p].pc = "idle"
            /\ call'[p].pc = pc /\ call'[p].op = op /\ call'[p].arg = arg /\ call'[p].root = r
        BY <2>0, <2>12 DEF StartCall, Step, Idle
      <3>. QED BY <2>00, <2>01, <2>12, <3>1, NoneAssumption DEF StepsOfCall, Explicit, FirstStep
    <2>13. CASE LockAll(p)
      <3>1. /\ UNCHANGED <<starts, initMu>> /\ mu = None /\ mu' = p /\ call[p].pc = "lockAll"
            /\ call'[p].pc = "all" /\ call'[p].op = call[p].op /\ call'[p].arg = call[p].arg /\ call'[p].at = 1
            /\ call'[p].root = call[p].root
        BY <2>0, <2>13 DEF LockAll, Step, CallRec
      <3>. QED BY <2>00, <2>01, <3>1, NoneAssumption DEF StepsOfCall, Explicit
    <2>14. CASE GenerateScopeConfig(p)
      <3>1. /\ UNCHANGED <<starts, mu, initMu>> /\ call[p].pc = "scope"
            /\ call'[p].pc = "lockLang" /\ call'[p].op = call[p].op /\ call'[p].arg = call[p].arg
            /\ call'[p].root = call[p].root
        BY <2>0, <2>14 DEF GenerateScopeConfig, Step, CallRec
      <3>. QED BY <2>00, <2>01, <3>1, NoneAssumption DEF StepsOfCall, Explicit
    <2>15. CASE StopOld(p)
      <3>1. /\ UNCHANGED <<starts, initMu>> /\ mu = None /\ mu' = p /\ call[p].pc = "lockLang"
            /\ call'[p].pc = "lang" /\ call'[p].op = call[p].op /\ call'[p].arg = call[p].arg
            /\ call'[p].root = call[p].root
        BY <2>0, <2>15 DEF StopOld, Step, CallRec
      <3>. QED BY <2>00, <2>01, <3>1, NoneAssumption DEF StepsOfCall, Explicit
    <2>16. CASE StartNew(p)
      <3>1. /\ UNCHANGED <<starts, initMu>> /\ mu' = None /\ call[p].pc = "lang"
            /\ call'[p].pc = "set" /\ call'[p].op = call[p].op /\ call'[p].arg = call[p].arg
        BY <2>0, <2>16 DEF StartNew, Step, CallRec
      <3>. QED BY <2>00, <2>01, <3>1, NoneAssumption DEF StepsOfCall, Explicit
    <2>17. CASE StartNewFails(p)
      <3>1. /\ UNCHANGED <<starts, initMu>> /\ mu' = None /\ call[p].pc = "lang"
            /\ call'[p] = IF call[p].scope # None THEN [call[p] EXCEPT !.pc = "setScope"] ELSE Idle
        BY <2>0, <2>17 DEF StartNewFails, Step
      <3>2. CASE call[p].scope # None
        <4>1. call'[p].pc = "setScope" /\ call'[p].op = call[p].op /\ call'[p].arg = call[p].arg
          BY <2>0, <3>1, <3>2 DEF CallRec
        <4>. QED BY <2>00, <2>01, <3>1, <4>1, NoneAssumption DEF StepsOfCall, Explicit
      <3>3. CASE call[p].scope = None
        <4>1. call'[p] = Idle
          BY <3>1, <3>3
        <4>. QED BY <2>00, <2>01, <3>1, <4>1, NoneAssumption DEF StepsOfCall, Explicit, Idle
      <3>. QED BY <3>2, <3>3
    <2>18. CASE ShutCurrent(p)
      <3>1. /\ UNCHANGED <<starts, mu, initMu>> /\ call[p].pc = "shut"
            /\ call'[p].pc = "dial" /\ call'[p].op = call[p].op /\ call'[p].arg = call[p].arg
            /\ call'[p].root = call[p].root
        BY <2>0, <2>18 DEF ShutCurrent, Step, CallRec
      <3>. QED BY <2>00, <2>01, <3>1, NoneAssumption DEF StepsOfCall, Explicit
    <2>19. CASE Dial(p)
      <3>1. /\ UNCHANGED <<starts, mu, initMu>> /\ call[p].pc = "dial"
            /\ \/ call'[p] = Idle
               \/ call'[p].pc = "set" /\ call'[p].op = call[p].op /\ call'[p].arg = call[p].arg
        <4>1. UNCHANGED <<starts, mu, initMu>> /\ call[p].pc = "dial"
          BY <2>19 DEF Dial
        <4>2. call'[p] = Idle \/ \E c : call'[p] = [call[p] EXCEPT !.pc = "set", !.got = c]
          BY <2>0, <2>19 DEF Dial, Done, Step
        <4>. QED BY <2>0, <4>1, <4>2 DEF CallRec
      <3>2. CASE call'[p] = Idle
        BY <2>00, <2>01, <3>1, <3>2, NoneAssumption DEF StepsOfCall, Explicit, Idle
      <3>3. CASE call'[p].pc = "set" /\ call'[p].op = call[p].op /\ call'[p].arg = call[p].arg
        BY <2>00, <2>01, <3>1, <3>3, NoneAssumption DEF StepsOfCall, Explicit
      <3>. QED BY <3>1, <3>2, <3>3
    <2>20. CASE Moves(p)
      BY <2>1, <2>2, <2>3, <2>4, <2>5, <2>6, <2>9, <2>10, <2>12, <2>13, <2>20 DEF Moves
    <2>. HIDE DEF Goal
    <2>. QED BY <1>3, <2>6, <2>7, <2>8, <2>11, <2>14, <2>15, <2>16, <2>17, <2>18, <2>19, <2>20, StepCases
  <1>. QED BY <1>1, <1>2, <1>3 DEF Next, Stopped

(* A user's configuration file *)

\* A call keeps the scope it generated until it is idle again.
LEMMA CallScopes ==
  ASSUME ServerTypes, NEW p \in Caller, CallStep(p), ~GenerateScopeConfig(p), call'[p] \in CallRec
  PROVE  call'[p].scope \in {call[p].scope, None}
  <1>0. call \in [Caller -> CallRec] /\ call[p] \in CallRec
    BY DEF ServerTypes
  <1>1. \A rec : Step(p, rec) => call'[p] = rec
    BY <1>0 DEF Step
  <1>2. Idle.scope = None
    BY DEF Idle
  <1>3. CASE CurrentClient(p) \/ AutoInit(p) \/ LockInit(p)
    BY <1>0, <1>1, <1>3 DEF CurrentClient, AutoInit, LockInit, CallRec
  <1>4. CASE Recheck(p)
    <2>1. \/ call'[p] = [call[p] EXCEPT !.pc = "use", !.got = cs]
          \/ call'[p] = [call[p] EXCEPT !.pc = "all", !.at = 1, !.root = RootOf[call[p].arg]]
      BY <1>1, <1>4 DEF Recheck
    <2>. QED BY <1>0, <2>1 DEF CallRec
  <1>5. CASE StartEntry(p)
    <2>1. PICK c \in (IF mode = "multi" THEN Fresh ELSE {entry[call[p].at]}) :
            \/ Step(p, [call[p] EXCEPT !.at = call[p].at + 1])
            \/ Step(p, [call[p] EXCEPT !.at = call[p].at + 1, !.started = Append(@, c)])
      BY <1>5 DEF StartEntry
    <2>2. \/ call'[p] = [call[p] EXCEPT !.at = call[p].at + 1]
          \/ \E st : call'[p] = [call[p] EXCEPT !.at = call[p].at + 1, !.started = st]
      BY <1>1, <2>1
    <2>. QED BY <1>0, <2>2 DEF CallRec
  <1>6. CASE StartEntryFails(p) \/ SetCurrent(p) \/ StartNewFails(p)
    <2>1. call'[p] = Idle \/ \E pc : call'[p] = [call[p] EXCEPT !.pc = pc]
      BY <1>0, <1>1, <1>6 DEF StartEntryFails, SetCurrent, StartNewFails, Done
    <2>. QED BY <1>0, <1>2, <2>1 DEF CallRec
  <1>7. CASE AllStarted(p) \/ ReadDefault(p) \/ LockAll(p) \/ StopOld(p) \/ ShutCurrent(p)
    <2>1. CASE AllStarted(p) \/ ShutCurrent(p)
      BY <1>0, <1>1, <2>1 DEF AllStarted, ShutCurrent, CallRec
    <2>2. CASE ReadDefault(p) \/ LockAll(p)
      BY <1>0, <1>1, <2>2 DEF ReadDefault, LockAll, CallRec
    <2>3. CASE StopOld(p)
      <3>1. \E at : call'[p] = [call[p] EXCEPT !.pc = "lang", !.at = at]
        BY <1>1, <2>3 DEF StopOld
      <3>. QED BY <1>0, <3>1 DEF CallRec
    <2>. QED BY <1>7, <2>1, <2>2, <2>3
  <1>8. CASE StartNew(p)
    <2>1. \E c : call'[p] = [call[p] EXCEPT !.pc = "set", !.got = c]
      BY <1>1, <1>8 DEF StartNew
    <2>. QED BY <1>0, <2>1 DEF CallRec
  <1>9. CASE Dial(p)
    <2>1. call'[p] = Idle \/ \E c : call'[p] = [call[p] EXCEPT !.pc = "set", !.got = c]
      BY <1>1, <1>9 DEF Dial, Done
    <2>. QED BY <1>0, <1>2, <2>1 DEF CallRec
  <1>10. CASE Use(p) \/ SetScopeConfig(p)
    BY <1>1, <1>2, <1>10 DEF Use, SetScopeConfig, Done
  <1>11. ASSUME NEW f \in File, FileCall(p, f)
         PROVE  call'[p].scope = None
    BY <1>1, <1>11 DEF FileCall, Idle
  <1>12. ASSUME NEW op, NEW pc, NEW arg, NEW r, StartCall(p, op, pc, arg, r)
         PROVE  call'[p].scope = None
    BY <1>1, <1>12 DEF StartCall, Idle
  <1>13. CASE Moves(p)
    BY <1>3, <1>4, <1>7, <1>10, <1>11, <1>12, <1>13 DEF Moves
  <1>. QED BY <1>5, <1>6, <1>7, <1>8, <1>9, <1>10, <1>13, StepCases

\* A server keeps the scope it was given, drops it, or is given a call's.
LEMMA ClientScopes ==
  ASSUME ServerTypes, ProcessesLive, StepsOfCalls, NEW p \in Caller, CallStep(p)
  PROVE  \A c \in Client : client'[c].scope \in {client[c].scope, None, call[p].scope}
  <1>0. client \in [Client -> ClientRec] /\ \A c \in Client : client[c] \in ClientRec
    BY DEF ServerTypes
  <1>1. \A c, k, r : \A d \in Client : Started(c, k, r)[d].scope \in {client[d].scope, None}
    BY <1>0 DEF Started
  <1>2. \A c \in Client \cup {None} : \A d \in Client : ShutdownIn(client, c)[d].scope \in {client[d].scope, None}
    BY <1>0 DEF ShutdownIn, ClientRec
  <1>3. CASE Moves(p) \/ SetCurrent(p) \/ StartNewFails(p) \/ GenerateScopeConfig(p)
    BY <1>3, MovesKeep DEF SetCurrent, StartNewFails, GenerateScopeConfig
  <1>4. CASE StartEntry(p) \/ StartNew(p) \/ Dial(p)
    <2>1. client' = client \/ \E c, k, r : client' = Started(c, k, r)
      <3>1. CASE StartEntry(p)
        BY <3>1 DEF StartEntry
      <3>2. CASE StartNew(p)
        BY <3>2 DEF StartNew
      <3>3. CASE Dial(p)
        BY <3>3 DEF Dial
      <3>. QED BY <1>4, <3>1, <3>2, <3>3
    <2>. QED BY <1>1, <2>1
  <1>5. CASE StartEntryFails(p)
    <2>1. \A c \in Client : [client[c] EXCEPT !.root = call[p].root].scope = client[c].scope
      BY <1>0 DEF ClientRec
    <2>2. \A c \in Client : client'[c] \in {[client[c] EXCEPT !.root = call[p].root], ShutdownIn(client, c)[c], client[c]}
      BY <1>5 DEF StartEntryFails
    <2>3. \A c \in Client : ShutdownIn(client, c)[c].scope \in {client[c].scope, None}
      BY <1>2
    <2>. QED BY <2>1, <2>2, <2>3
  <1>6. CASE StopOld(p) \/ ShutCurrent(p)
    <2>1. \E c \in Client \cup {None} : client' = ShutdownIn(client, c)
      BY <1>6, Shuts
    <2>. QED BY <1>2, <2>1
  <1>7. CASE SetScopeConfig(p)
    BY <1>0, <1>7 DEF SetScopeConfig, ClientRec, ServerTypes
  <1>. QED BY <1>3, <1>4, <1>5, <1>6, <1>7, StepCases

LEMMA KeptStep ==
  ASSUME ServerTypes, StepsOfCalls, ProcessesLive, Kept, [Next]_vars
  PROVE  Kept'
  <1>1. CASE UNCHANGED vars
    BY <1>1 DEF Kept, KeptFor, vars
  <1>2. ASSUME NEW c \in Client, Die(c)
        PROVE  Kept'
    <2>1. \A d \in Client : client'[d].scope = client[d].scope
      BY <1>2 DEF Die, ServerTypes, ClientRec
    <2>2. UNCHANGED <<user, cfg, bak, rescoped, call>>
      BY <1>2 DEF Die, fixed, files
    <2>. QED BY <2>1, <2>2 DEF Kept, KeptFor
  <1>3. ASSUME NEW p \in Caller, CallStep(p)
        PROVE  Kept'
    <2>0. /\ call \in [Caller -> CallRec] /\ call[p] \in CallRec /\ call'[p] \in CallRec
          /\ \A q \in Caller \ {p} : call'[q] = call[q]
      BY <1>3, CallsTypes DEF ServerTypes
    <2>1. CASE GenerateScopeConfig(p)
      <3>. DEFINE r0 == call[p].root
      <3>1. /\ r0 \in Root /\ UNCHANGED <<mode, user, client>>
            /\ cfg' = [cfg EXCEPT ![r0] = "gen"]
            /\ bak' = IF cfg[r0] # "none" THEN [bak EXCEPT ![r0] = cfg[r0]] ELSE bak
            /\ rescoped' = (rescoped \/ cfg[r0] = "gen")
            /\ Step(p, [call[p] EXCEPT !.pc = "lockLang", !.scope = [root |-> r0, backed |-> cfg[r0] # "none"]])
        BY <2>1 DEF GenerateScopeConfig, StepsOfCalls, StepsOfCall, fixed
      <3>2. call'[p].scope = [root |-> r0, backed |-> cfg[r0] # "none"]
        BY <2>0, <3>1 DEF Step, CallRec
      <3>3. SUFFICES ASSUME ~rescoped', NEW r \in user
                     PROVE  KeptFor(r)'
        BY <3>1 DEF Kept
      <3>4. ~rescoped /\ cfg[r0] # "gen" /\ r \in Root
        BY <3>1, <3>3 DEF ServerTypes
      <3>5. /\ (cfg[r] = "user" /\ bak[r] \in {"none", "user"}) \/ (cfg[r] = "gen" /\ bak[r] = "user")
            /\ \A c \in Client : client[c].scope # None /\ client[c].scope.root = r => client[c].scope.backed
            /\ \A q \in Caller : call[q].scope # None /\ call[q].scope.root = r => call[q].scope.backed
        BY <3>4 DEF Kept, KeptFor
      <3>6. CASE r = r0
        <4>1. cfg[r] = "user" /\ cfg'[r] = "gen" /\ bak'[r] = "user"
          BY <3>1, <3>4, <3>5, <3>6 DEF ServerTypes
        <4>2. call'[p].scope.backed
          <5>1. (cfg[r0] # "none") = TRUE
            BY <3>6, <4>1
          <5>2. call'[p].scope = [root |-> r0, backed |-> TRUE]
            BY <3>2, <5>1, Zenon
          <5>. QED BY <5>2
        <4>. QED BY <2>0, <3>1, <3>5, <4>1, <4>2 DEF KeptFor
      <3>7. CASE r # r0
        BY <2>0, <3>1, <3>2, <3>4, <3>5, <3>7 DEF KeptFor, ServerTypes
      <3>. QED BY <3>6, <3>7
    <2>2. CASE ~GenerateScopeConfig(p)
      <3>1. /\ \A c \in Client : client'[c].scope \in {client[c].scope, None, call[p].scope}
            /\ \A q \in Caller : call'[q].scope \in {call[q].scope, None}
        BY <1>3, <2>0, <2>2, ClientScopes, CallScopes
      <3>2. /\ UNCHANGED <<user, rescoped>>
            /\ \/ UNCHANGED <<cfg, bak>>
               \/ \E c \in Client \cup {None} : SetFiles(RemoveScopeConfig(Files, ScopeOf(c)))
        <4>1. CASE Moves(p)
          BY <4>1, MovesKeep
        <4>2. CASE SetCurrent(p) \/ StartNewFails(p) \/ StartEntryFails(p) \/ SetScopeConfig(p)
          BY <4>2 DEF SetCurrent, StartNewFails, StartEntryFails, SetScopeConfig, fixed, files
        <4>3. CASE StartEntry(p) \/ StartNew(p) \/ Dial(p)
          BY <4>3 DEF StartEntry, StartNew, Dial, fixed, files
        <4>4. CASE StopOld(p) \/ ShutCurrent(p)
          <5>1. UNCHANGED <<user, rescoped>>
            BY <4>4 DEF StopOld, ShutCurrent, fixed
          <5>. QED BY <4>4, <5>1, Shuts
        <4>. QED BY <1>3, <2>2, <4>1, <4>2, <4>3, <4>4, StepCases
      <3>3. SUFFICES ASSUME ~rescoped, NEW r \in user
                     PROVE  KeptFor(r)'
        BY <3>2 DEF Kept
      <3>4. /\ r \in Root
            /\ (cfg[r] = "user" /\ bak[r] \in {"none", "user"}) \/ (cfg[r] = "gen" /\ bak[r] = "user")
            /\ \A c \in Client : client[c].scope # None /\ client[c].scope.root = r => client[c].scope.backed
            /\ \A q \in Caller : call[q].scope # None /\ call[q].scope.root = r => call[q].scope.backed
        BY <3>3 DEF Kept, KeptFor, ServerTypes
      <3>5. (cfg'[r] = "user" /\ bak'[r] \in {"none", "user"}) \/ (cfg'[r] = "gen" /\ bak'[r] = "user")
        <4>1. CASE UNCHANGED <<cfg, bak>>
          BY <3>4, <4>1
        <4>2. ASSUME NEW c \in Client \cup {None}, SetFiles(RemoveScopeConfig(Files, ScopeOf(c)))
              PROVE  (cfg'[r] = "user" /\ bak'[r] \in {"none", "user"}) \/ (cfg'[r] = "gen" /\ bak'[r] = "user")
          <5>. DEFINE sc == ScopeOf(c)
          <5>1. sc \in Scope /\ (sc # None => c \in Client /\ sc = client[c].scope)
            BY ClientTypes DEF ScopeOf
          <5>2. sc # None /\ sc.root = r => sc.backed
            BY <3>4, <5>1
          <5>. HIDE DEF sc
          <5>3. CASE sc = None
            BY <3>4, <4>2, <5>1, <5>3, RemoveType DEF sc
          <5>4. CASE sc # None /\ sc.root # r
            BY <3>4, <4>2, <5>1, <5>4, RemoveType DEF sc
          <5>5. CASE sc # None /\ sc.root = r
            BY <3>4, <4>2, <5>1, <5>2, <5>5, RemoveType DEF sc
          <5>. QED BY <5>3, <5>4, <5>5
        <4>. QED BY <3>2, <4>1, <4>2
      <3>. QED BY <3>1, <3>4, <3>5 DEF KeptFor
    <2>. QED BY <2>1, <2>2
  <1>. QED BY <1>1, <1>2, <1>3 DEF Next, Stopped

(* The current client *)

LEMMA LiveStep ==
  ASSUME ServerTypes, StepsOfCalls, ProcessesLive, [Next]_vars
  PROVE  ProcessesLive'
  <1>0. /\ client \in [Client -> ClientRec] /\ \A c \in Client : client[c] \in ClientRec
        /\ 1 \in DOMAIN entry /\ 1 \in Client /\ entry \in Seq(Client \cup {None})
    BY ClientTypes, ClientSet DEF ServerTypes
  <1>1. CASE UNCHANGED vars
    BY <1>1 DEF ProcessesLive, vars
  <1>2. ASSUME NEW c \in Client, Die(c)
        PROVE  ProcessesLive'
    <2>1. UNCHANGED <<mode, entry>>
      BY <1>2 DEF Die, fixed
    <2>2. client' = [client EXCEPT ![c].live = FALSE, ![c].init = @ /\ client[c].kind = "socket"]
      BY <1>2 DEF Die
    <2>3. \A d \in Client : /\ client'[d].kind = client[d].kind
                            /\ d # c => client'[d] = client[d]
      BY <1>0, <2>2 DEF ClientRec
    <2>4. client[c].kind # "socket" => ~client'[c].init
      BY <1>0, <2>2 DEF ClientRec
    <2>. QED BY <1>0, <2>1, <2>3, <2>4 DEF ProcessesLive
  <1>3. ASSUME NEW p \in Caller, CallStep(p)
        PROVE  ProcessesLive'
    <2>1. CASE Moves(p) \/ SetCurrent(p) \/ StartNewFails(p) \/ GenerateScopeConfig(p)
      <3>1. UNCHANGED <<mode, entry, client>>
        BY <2>1, MovesKeep DEF SetCurrent, StartNewFails, GenerateScopeConfig, fixed
      <3>. QED BY <3>1 DEF ProcessesLive
    <2>2. ASSUME NEW c \in Client, NEW k \in {"process", "socket"}, NEW r, client' = Started(c, k, r),
                 UNCHANGED mode, mode = "single" => entry'[1] = 1 /\ (c = 1 => k = "process")
          PROVE  ProcessesLive'
      <3>1. client'[c].live /\ client'[c].kind = k /\ \A d \in Client \ {c} : client'[d] = client[d]
        BY <1>0, <2>2 DEF Started
      <3>. QED BY <1>0, <2>2, <3>1 DEF ProcessesLive
    <2>3. CASE StartEntry(p)
      <3>1. UNCHANGED mode
        BY <2>3 DEF StartEntry, fixed
      <3>2. PICK c \in (IF mode = "multi" THEN Fresh ELSE {entry[call[p].at]}) :
              \/ UNCHANGED <<client, entry>>
              \/ client' = Started(c, "process", call[p].root) /\ entry' = [entry EXCEPT ![call[p].at] = c]
        BY <2>3 DEF StartEntry
      <3>3. CASE UNCHANGED <<client, entry>>
        BY <3>1, <3>3 DEF ProcessesLive
      <3>4. CASE client' = Started(c, "process", call[p].root) /\ entry' = [entry EXCEPT ![call[p].at] = c]
        <4>1. c \in Client /\ (mode = "single" => c = 1)
          <5>1. call[p].at \in Nat /\ call[p].at >= 1 /\ call[p].at <= Len(entry)
            BY <2>3 DEF StartEntry, StepsOfCalls, StepsOfCall, ServerTypes, CallRec
          <5>2. mode = "single" => call[p].at = 1
            BY <5>1 DEF ServerTypes
          <5>. QED BY <1>0, <3>2, <5>2 DEF ProcessesLive, ServerTypes, Fresh
        <4>2. mode = "single" => entry'[1] = 1
          BY <1>0, <3>4, <4>1 DEF ProcessesLive
        <4>. QED BY <2>2, <3>1, <3>4, <4>1, <4>2
      <3>. QED BY <3>2, <3>3, <3>4
    <2>4. CASE StartNew(p)
      <3>1. UNCHANGED mode
        BY <2>4 DEF StartNew, fixed
      <3>2. PICK c \in (IF mode = "multi" THEN Fresh ELSE {entry[1]}) :
              /\ client' = IF mode = "single" /\ IsInitialized(c) THEN client
                    ELSE Started(c, IF mode = "multi" /\ call[p].arg \in DaemonLang THEN "socket" ELSE "process",
                                 call[p].root)
              /\ entry' = [entry EXCEPT ![call[p].at] = c]
        BY <2>4 DEF StartNew
      <3>3. c \in Client /\ (mode = "single" => c = 1 /\ entry'[1] = 1)
        <4>1. c \in Client /\ (mode = "single" => c = 1)
          BY <1>0, <3>2 DEF ProcessesLive, ServerTypes, Fresh
        <4>2. mode = "single" => entry'[1] = 1
          BY <1>0, <3>2, <4>1 DEF ProcessesLive
        <4>. QED BY <4>1, <4>2
      <3>4. CASE client' = client
        BY <3>1, <3>3, <3>4 DEF ProcessesLive
      <3>5. CASE client' # client
        <4>1. \E k \in {"process", "socket"} :
                client' = Started(c, k, call[p].root) /\ (mode = "single" => k = "process")
          BY <3>2, <3>5
        <4>. QED BY <2>2, <3>1, <3>3, <4>1
      <3>. QED BY <3>4, <3>5
    <2>5. CASE Dial(p)
      <3>1. UNCHANGED <<mode, entry>>
        BY <2>5 DEF Dial, fixed
      <3>2. CASE UNCHANGED client
        BY <3>1, <3>2 DEF ProcessesLive
      <3>3. ASSUME NEW c \in Fresh, client' = Started(c, "socket", call[p].root)
            PROVE  ProcessesLive'
        <4>1. c \in Client /\ c # entry[1]
          BY <1>0, FreshIs
        <4>2. mode = "single" => entry'[1] = 1 /\ c # 1
          BY <3>1, <4>1 DEF ProcessesLive
        <4>. QED BY <2>2, <3>1, <3>3, <4>1, <4>2
      <3>. QED BY <2>5, <3>2, <3>3 DEF Dial
    <2>6. \A c \in Client \cup {None}, d \in Client :
            /\ ShutdownIn(client, c)[d].kind = client[d].kind
            /\ client[d].kind # "socket" /\ ShutdownIn(client, c)[d].init => ShutdownIn(client, c)[d].live
      <3>1. ASSUME NEW c \in Client, NEW d \in Client
            PROVE /\ ShutdownIn(client, c)[d].kind = client[d].kind
                  /\ client[d].kind # "socket" /\ ShutdownIn(client, c)[d].init => ShutdownIn(client, c)[d].live
        <4>1. CASE d # c
          BY <1>0, <4>1 DEF ShutdownIn, ProcessesLive
        <4>2. CASE d = c
          BY <1>0, <4>2 DEF ShutdownIn, ClientRec, ProcessesLive
        <4>. QED BY <4>1, <4>2
      <3>2. ASSUME NEW d \in Client
            PROVE /\ ShutdownIn(client, None)[d].kind = client[d].kind
                  /\ client[d].kind # "socket" /\ ShutdownIn(client, None)[d].init => ShutdownIn(client, None)[d].live
        BY DEF ShutdownIn, ProcessesLive
      <3>. QED BY <3>1, <3>2
    <2>7. CASE StopOld(p) \/ ShutCurrent(p)
      <3>1. UNCHANGED <<mode, entry>>
        BY <2>7 DEF StopOld, ShutCurrent, fixed
      <3>2. PICK c \in Client \cup {None} : client' = ShutdownIn(client, c)
        BY <2>7, Shuts
      <3>. QED BY <1>0, <2>6, <3>1, <3>2 DEF ProcessesLive
    <2>8. CASE StartEntryFails(p)
      <3>1. UNCHANGED <<mode, entry>>
        BY <2>8 DEF StartEntryFails, fixed
      <3>2. \A d \in Client : client'[d] \in {[client[d] EXCEPT !.root = call[p].root], ShutdownIn(client, d)[d], client[d]}
        BY <2>8 DEF StartEntryFails
      <3>3. \A d \in Client : client'[d].kind = client[d].kind
                              /\ (client[d].kind # "socket" /\ client'[d].init => client'[d].live)
        BY <1>0, <2>6, <3>2 DEF ClientRec, ProcessesLive
      <3>. QED BY <1>0, <3>1, <3>3 DEF ProcessesLive
    <2>9. CASE SetScopeConfig(p)
      <3>1. UNCHANGED <<mode, entry>>
        BY <2>9 DEF SetScopeConfig, fixed
      <3>2. \A d \in Client : /\ client'[d].kind = client[d].kind /\ client'[d].init = client[d].init
                              /\ client'[d].live = client[d].live
        BY <1>0, <2>9 DEF SetScopeConfig, ClientRec
      <3>. QED BY <1>0, <3>1, <3>2 DEF ProcessesLive
    <2>. QED BY <1>3, <2>1, <2>3, <2>4, <2>5, <2>7, <2>8, <2>9, StepCases
  <1>. QED BY <1>1, <1>2, <1>3 DEF Next, Stopped

LEMMA CallsApart ==
  ASSUME ServerTypes, StepsOfCalls, NEW p \in Caller, \A q \in Caller \ {p} : call'[q] = call[q],
         \A q \in Starting : q = p,
         p \notin Starting' => Usable', AboutToSet(p)'
  PROVE  OneStart'
  <1>1. \A q \in Starting' : q = p
    BY DEF Starting
  <1>2. Starting' = {} => Usable'
    OBVIOUS
  <1>3. ASSUME NEW q \in Caller \ {p}
        PROVE  AboutToSet(q)'
    <2>1. q \notin Starting /\ call'[q] = call[q] /\ StepsOfCall(q)
      BY DEF StepsOfCalls
    <2>2. call[q].op \notin Explicit /\ call[q].pc \notin {"all", "default", "set"}
      BY <2>1 DEF Starting, Explicit
    <2>3. call[q].pc # "setScope"
      BY <2>1, <2>2 DEF StepsOfCall
    <2>. QED BY <2>1, <2>2, <2>3 DEF AboutToSet
  <1>. QED BY <1>1, <1>2, <1>3 DEF OneStart

\* A step of a call that neither starts nor has started anything.
LEMMA CallsAside ==
  ASSUME OneStart, NEW p \in Caller, \A q \in Caller \ {p} : call'[q] = call[q],
         UNCHANGED <<entry, cs, client, disturbed>>, p \notin Starting, p \notin Starting',
         call'[p].pc # "setScope"
  PROVE  OneStart'
  <1>1. SUFFICES ASSUME ~disturbed' PROVE OneStart'
    BY DEF OneStart
  <1>2. Starting' = Starting
    BY DEF Starting
  <1>3. Usable' = Usable
    BY DEF Usable
  <1>4. ASSUME NEW q \in Caller
        PROVE  AboutToSet(q)'
    <2>1. CASE q = p
      BY <2>1 DEF AboutToSet, Starting
    <2>2. CASE q # p
      <3>1. call'[q] = call[q] /\ AboutToSet(q)
        BY <1>1, <2>2 DEF OneStart
      <3>. QED BY <1>3, <3>1 DEF AboutToSet, Good
    <2>. QED BY <2>1, <2>2
  <1>. QED BY <1>1, <1>2, <1>3, <1>4 DEF OneStart

LEMMA OneStartStep ==
  ASSUME ServerTypes, StepsOfCalls, StepsOfCalls', ServerTypes', ProcessesLive, OneStart, [Next]_vars
  PROVE  OneStart'
  <1>0. /\ client \in [Client -> ClientRec] /\ \A c \in Client : client[c] \in ClientRec
        /\ 1 \in DOMAIN entry /\ 1 \in Client /\ entry \in Seq(Client \cup {None}) /\ None \notin Client
    BY ClientTypes, ClientSet, NoneAssumption DEF ServerTypes
  <1>1. CASE UNCHANGED vars
    BY <1>1 DEF OneStart, AboutToSet, Usable, Good, Starting, vars
  <1>2. ASSUME NEW c \in Client, Die(c)
        PROVE  OneStart'
    BY <1>2 DEF Die, OneStart
  <1>3. ASSUME NEW p \in Caller, CallStep(p)
        PROVE  OneStart'
    <2>0. /\ call \in [Caller -> CallRec] /\ call[p] \in CallRec /\ call'[p] \in CallRec
          /\ \A q \in Caller \ {p} : call'[q] = call[q]
      BY <1>3, CallsTypes DEF ServerTypes
    <2>00. StepsOfCall(p) /\ StepsOfCall(p)' /\ p # None
      BY NoneAssumption DEF StepsOfCalls
    <2>000. \A rec : Step(p, rec) => call'[p] = rec
      BY <2>0 DEF Step
    <2>1. \A q \in Starting : p \in Starting /\ ~disturbed => q = p
      BY DEF OneStart
    <2>2. ASSUME NEW f \in File, FileCall(p, f)
          PROVE  OneStart'
      <3>1. UNCHANGED <<entry, cs, client, disturbed>> /\ call[p].pc = "idle"
            /\ call'[p].pc \in {"use", "current"} /\ call'[p].op = "file"
        BY <2>000, <2>2 DEF FileCall, Idle
      <3>2. p \notin Starting /\ p \notin Starting'
        BY <2>00, <3>1, NoneAssumption DEF Starting, StepsOfCall
      <3>. QED BY <2>0, <3>1, <3>2, CallsAside
    <2>3. CASE CurrentClient(p) \/ AutoInit(p) \/ LockInit(p)
      <3>1. UNCHANGED <<entry, cs, client, disturbed>> /\ call[p].pc \in {"current", "autoInit", "lockInit"}
            /\ call'[p].pc \in {"use", "autoInit", "lockInit", "recheck"} /\ call'[p].op = call[p].op
        BY <2>0, <2>000, <2>3 DEF CurrentClient, AutoInit, LockInit, CallRec
      <3>2. p \notin Starting /\ p \notin Starting'
        BY <2>00, <3>1 DEF Starting, StepsOfCall
      <3>. QED BY <2>0, <3>1, <3>2, CallsAside
    <2>4. CASE Use(p)
      <3>1. UNCHANGED <<entry, cs, client, disturbed>> /\ call[p].pc = "use" /\ call'[p] = Idle
        BY <2>000, <2>4 DEF Use, Done
      <3>2. p \notin Starting /\ p \notin Starting'
        BY <2>00, <3>1, NoneAssumption DEF Starting, StepsOfCall, Idle
      <3>. QED BY <2>0, <3>1, <3>2, CallsAside DEF Idle
    \* a start begins
    <2>5. ASSUME UNCHANGED <<entry, cs, client>>, disturbed' = (disturbed \/ Overlaps(p)),
                 p \notin Starting, p \in Starting', call'[p].pc \in {"all", "lockAll", "lockLang", "scope", "shut"},
                 call'[p].pc = "all" => call'[p].at = 1
          PROVE  OneStart'
      <3>1. SUFFICES ASSUME ~disturbed' PROVE OneStart'
        BY DEF OneStart
      <3>2. \A q \in Starting : q = p
        BY <2>5, <3>1 DEF Overlaps
      <3>3. AboutToSet(p)'
        BY <2>5 DEF AboutToSet
      <3>. QED BY <2>0, <2>5, <3>2, <3>3, CallsApart
    <2>6. CASE Recheck(p)
      <3>1. CASE UnderCurrent(call[p].arg)
        <4>1. UNCHANGED <<entry, cs, client, disturbed>> /\ call[p].pc = "recheck"
              /\ Step(p, [call[p] EXCEPT !.pc = "use", !.got = cs])
          BY <2>6, <3>1 DEF Recheck
        <4>2. call'[p].pc = "use" /\ call'[p].op = call[p].op
          BY <2>0, <2>000, <4>1 DEF CallRec
        <4>3. p \notin Starting /\ p \notin Starting'
          BY <2>00, <4>1, <4>2 DEF Starting, StepsOfCall
        <4>. QED BY <2>0, <4>1, <4>2, <4>3, CallsAside
      <3>2. CASE ~UnderCurrent(call[p].arg)
        <4>1. UNCHANGED <<entry, cs, client>> /\ call[p].pc = "recheck" /\ disturbed' = (disturbed \/ Overlaps(p))
              /\ Step(p, [call[p] EXCEPT !.pc = "all", !.at = 1, !.root = RootOf[call[p].arg]])
          BY <2>6, <3>2 DEF Recheck
        <4>2. call'[p].pc = "all" /\ call'[p].at = 1
          BY <2>0, <2>000, <4>1 DEF CallRec
        <4>3. p \notin Starting /\ p \in Starting'
          BY <2>00, <4>1, <4>2 DEF Starting, StepsOfCall
        <4>. QED BY <2>5, <4>1, <4>2, <4>3
      <3>. QED BY <3>1, <3>2
    <2>7. ASSUME NEW op \in Explicit, NEW pc, NEW arg, NEW r,
                 <<op, pc>> \in FirstStep,
                 StartCall(p, op, pc, arg, r)
           PROVE  OneStart'
      <3>1. UNCHANGED <<entry, cs, client>> /\ call[p].pc = "idle" /\ disturbed' = (disturbed \/ Overlaps(p))
            /\ call'[p].pc = pc /\ call'[p].op = op
        BY <2>000, <2>7 DEF StartCall, Idle
      <3>2. p \notin Starting /\ p \in Starting'
        BY <2>00, <3>1, NoneAssumption DEF Starting, StepsOfCall, Explicit
      <3>. QED BY <2>5, <2>7, <3>1, <3>2 DEF FirstStep
    \* a start goes on, alone
    <2>8. ASSUME disturbed => disturbed', p \in Starting,
                 ~disturbed /\ ~disturbed' => AboutToSet(p)' /\ (p \notin Starting' => Usable')
          PROVE  OneStart'
      <3>1. SUFFICES ASSUME ~disturbed' PROVE OneStart'
        BY DEF OneStart
      <3>. QED BY <2>0, <2>1, <2>8, <3>1, CallsApart
    <2>9. ASSUME ~disturbed
          PROVE  AboutToSet(p)
      BY <2>9 DEF OneStart
    <2>10. CASE AllStarted(p)
      <3>1. UNCHANGED <<entry, cs, client, disturbed>> /\ call[p].pc = "all" /\ call[p].at > Len(entry)
            /\ call'[p].pc = "default"
        BY <2>0, <2>000, <2>10 DEF AllStarted, CallRec
      <3>2. call[p].at > 1
        <4>1. call[p].at \in Nat /\ Len(entry) \in Nat /\ Len(entry) >= 1
          BY <1>0, <2>0 DEF CallRec
        <4>. QED BY <3>1, <4>1
      <3>3. p \in Starting /\ p \in Starting'
        BY <3>1 DEF Starting
      <3>. QED BY <2>8, <2>9, <3>1, <3>2, <3>3 DEF AboutToSet, Good
    <2>11. CASE ReadDefault(p)
      <3>1. UNCHANGED <<entry, cs, client, disturbed>> /\ call[p].pc = "default"
            /\ call'[p].pc = "set" /\ call'[p].got = entry[1]
        BY <2>0, <2>000, <2>11 DEF ReadDefault, CallRec, DefaultClient
      <3>3. p \in Starting /\ p \in Starting'
        BY <3>1 DEF Starting
      <3>. QED BY <2>8, <2>9, <3>1, <3>3 DEF AboutToSet, Good
    <2>12. CASE LockAll(p)
      <3>1. UNCHANGED <<entry, cs, client, disturbed>> /\ call[p].pc = "lockAll"
            /\ call'[p].pc = "all" /\ call'[p].at = 1
        BY <2>0, <2>000, <2>12 DEF LockAll, CallRec
      <3>3. p \in Starting /\ p \in Starting'
        BY <2>00, <3>1 DEF Starting, StepsOfCall
      <3>. QED BY <2>8, <3>1, <3>3 DEF AboutToSet
    <2>13. CASE Moves(p)
      BY <2>2, <2>3, <2>4, <2>6, <2>7, <2>10, <2>11, <2>12, <2>13 DEF Moves
    <2>14. CASE GenerateScopeConfig(p) \/ StopOld(p) \/ ShutCurrent(p)
      <3>1. UNCHANGED disturbed /\ call[p].pc \in {"scope", "lockLang", "shut"}
        BY <2>14 DEF GenerateScopeConfig, StopOld, ShutCurrent
      <3>2. call'[p].pc \in {"lockLang", "lang", "dial"}
        <4>1. CASE GenerateScopeConfig(p) \/ ShutCurrent(p)
          BY <2>0, <2>000, <4>1 DEF GenerateScopeConfig, ShutCurrent, CallRec
        <4>2. CASE StopOld(p)
          BY <2>0, <2>000, <4>2 DEF StopOld, CallRec
        <4>. QED BY <2>14, <4>1, <4>2
      <3>3. p \in Starting /\ p \in Starting'
        BY <2>00, <3>1, <3>2 DEF Starting, StepsOfCall, Explicit
      <3>. QED BY <2>8, <3>1, <3>2, <3>3 DEF AboutToSet
    <2>15. CASE StartEntryFails(p) \/ StartNewFails(p)
      <3>1. disturbed'
        BY <2>15 DEF StartEntryFails, StartNewFails
      <3>. QED BY <3>1 DEF OneStart
    <2>16. \A c \in Client : \A k, r : /\ Started(c, k, r)[c].live /\ Started(c, k, r)[c].init
                                       /\ \A d \in Client \ {c} : Started(c, k, r)[d] = client[d]
      BY <1>0 DEF Started
    <2>17. CASE Dial(p)
      <3>1. CASE disturbed'
        BY <3>1 DEF OneStart
      <3>2. CASE ~disturbed'
        <4>1. PICK c \in Fresh : client' = Started(c, "socket", call[p].root)
                                 /\ Step(p, [call[p] EXCEPT !.pc = "set", !.got = c])
          BY <2>17, <3>2 DEF Dial
        <4>2. call[p].pc = "dial" /\ UNCHANGED disturbed
          BY <2>17, <3>2 DEF Dial
        <4>3. call'[p].pc = "set" /\ call'[p].got = c /\ c \in Client
          BY <2>0, <2>000, <4>1 DEF CallRec, Fresh
        <4>4. AboutToSet(p)'
          BY <1>0, <2>16, <4>1, <4>3 DEF AboutToSet, Good
        <4>5. p \in Starting /\ p \in Starting'
          BY <2>00, <4>2, <4>3 DEF Starting, StepsOfCall, Explicit
        <4>. QED BY <2>8, <4>2, <4>4, <4>5
      <3>. QED BY <3>1, <3>2
    <2>18. CASE StartNew(p)
      <3>1. call[p].pc = "lang" /\ UNCHANGED disturbed
        BY <2>18 DEF StartNew
      <3>2. PICK c \in (IF mode = "multi" THEN Fresh ELSE {entry[1]}) :
              /\ client' = IF mode = "single" /\ IsInitialized(c) THEN client
                    ELSE Started(c, IF mode = "multi" /\ call[p].arg \in DaemonLang THEN "socket" ELSE "process",
                                 call[p].root)
              /\ Step(p, [call[p] EXCEPT !.pc = "set", !.got = c])
        BY <2>18 DEF StartNew
      <3>3. c \in Client /\ (mode = "single" => c = 1)
        BY <1>0, <3>2 DEF ProcessesLive, ServerTypes, Fresh
      <3>4. call'[p].pc = "set" /\ call'[p].got = c
        BY <2>0, <2>000, <3>2 DEF CallRec
      <3>5. client'[c].live /\ client'[c].init
        <4>1. CASE mode = "single" /\ IsInitialized(c)
          BY <3>2, <3>3, <4>1 DEF IsInitialized, ProcessesLive
        <4>2. CASE ~(mode = "single" /\ IsInitialized(c))
          BY <2>16, <3>2, <3>3, <4>2
        <4>. QED BY <4>1, <4>2
      <3>6. AboutToSet(p)'
        BY <1>0, <3>3, <3>4, <3>5 DEF AboutToSet, Good
      <3>7. p \in Starting /\ p \in Starting'
        BY <2>00, <3>1, <3>4 DEF Starting, StepsOfCall, Explicit
      <3>. QED BY <2>8, <3>1, <3>6, <3>7
    <2>19. CASE StartEntry(p)
      <3>1. call[p].pc = "all" /\ UNCHANGED disturbed /\ call[p].at \in Nat /\ call[p].at >= 1 /\ call[p].at <= Len(entry)
        BY <2>0, <2>00, <2>19 DEF StartEntry, StepsOfCall, CallRec
      <3>2. PICK c \in (IF mode = "multi" THEN Fresh ELSE {entry[call[p].at]}) :
              \/ mode = "single" /\ IsInitialized(c) /\ UNCHANGED <<client, entry>>
              \/ client' = Started(c, "process", call[p].root) /\ entry' = [entry EXCEPT ![call[p].at] = c]
        BY <2>19 DEF StartEntry, ServerTypes
      <3>3. c \in Client /\ (mode = "single" => call[p].at = 1 /\ c = 1 /\ entry[1] = 1)
        <4>1. mode = "single" => call[p].at = 1
          BY <3>1 DEF ServerTypes
        <4>. QED BY <1>0, <3>2, <4>1 DEF ProcessesLive, ServerTypes, Fresh
      <3>4. call'[p].pc = "all"
        <4>1. \/ call'[p] = [call[p] EXCEPT !.at = call[p].at + 1]
              \/ \E st : call'[p] = [call[p] EXCEPT !.at = call[p].at + 1, !.started = st]
          BY <2>000, <2>19 DEF StartEntry
        <4>. QED BY <2>0, <3>1, <4>1 DEF CallRec
      <3>5. ~disturbed => Good(entry[1])'
        <4>1. CASE mode = "single" /\ IsInitialized(c) /\ UNCHANGED <<client, entry>>
          BY <1>0, <3>3, <4>1 DEF IsInitialized, ProcessesLive, Good
        <4>2. CASE client' = Started(c, "process", call[p].root) /\ entry' = [entry EXCEPT ![call[p].at] = c]
          <5>1. CASE call[p].at = 1
            <6>1. entry'[1] = c
              BY <1>0, <4>2, <5>1
            <6>. QED BY <1>0, <2>16, <3>3, <4>2, <6>1 DEF Good
          <5>2. CASE call[p].at # 1
            <6>1. call[p].at > 1 /\ entry'[1] = entry[1]
              BY <1>0, <3>1, <4>2, <5>2
            <6>2. ~disturbed => Good(entry[1])
              BY <2>9, <3>1, <6>1 DEF AboutToSet
            <6>3. entry[1] # c
              BY <1>0, <3>2, <3>3, <5>2, FreshIs DEF ServerTypes
            <6>4. entry[1] \in Client \cup {None}
              BY <1>0
            <6>. QED BY <2>16, <3>3, <4>2, <6>1, <6>2, <6>3, <6>4 DEF Good
          <5>. QED BY <5>1, <5>2
        <4>. QED BY <3>2, <4>1, <4>2
      <3>6. p \in Starting /\ p \in Starting'
        BY <3>1, <3>4 DEF Starting
      <3>7. ~disturbed => AboutToSet(p)'
        BY <3>4, <3>5 DEF AboutToSet
      <3>. QED BY <2>8, <3>1, <3>6, <3>7
    <2>20. CASE SetCurrent(p)
      <3>1. UNCHANGED <<client, entry, disturbed>> /\ call[p].pc = "set" /\ cs' = call[p].got
            /\ (call'[p] = Idle \/ \E pc \in {"use", "setScope"} : call'[p] = [call[p] EXCEPT !.pc = pc])
        BY <2>000, <2>20 DEF SetCurrent
      <3>2. p \in Starting
        BY <3>1 DEF Starting
      <3>3. ~disturbed => Usable'
        BY <2>9, <3>1 DEF AboutToSet, Good, Usable
      <3>4. call'[p].pc \in {"idle", "use", "setScope"}
        BY <2>0, <3>1 DEF CallRec, Idle
      <3>5. ~disturbed => AboutToSet(p)'
        BY <3>3, <3>4 DEF AboutToSet
      <3>. QED BY <2>8, <3>1, <3>2, <3>3, <3>5
    <2>21. CASE SetScopeConfig(p)
      <3>1. UNCHANGED <<cs, entry, disturbed>> /\ call[p].pc = "setScope" /\ call'[p] = Idle
        BY <2>000, <2>21 DEF SetScopeConfig, Done
      <3>2. p \in Starting
        BY <2>00, <3>1 DEF Starting, StepsOfCall, Explicit
      <3>3. ~disturbed => Usable
        BY <2>9, <3>1 DEF AboutToSet
      <3>4. \A c \in Client : /\ client'[c].live = client[c].live /\ client'[c].init = client[c].init
                              /\ client'[c].root = client[c].root
        BY <1>0, <2>21 DEF SetScopeConfig, ClientRec
      <3>5. cs \in Client \cup {None}
        BY DEF ServerTypes
      <3>6. ~disturbed => Usable'
        BY <3>1, <3>3, <3>4, <3>5 DEF Usable
      <3>7. AboutToSet(p)'
        BY <3>1 DEF AboutToSet, Idle
      <3>. QED BY <2>8, <3>1, <3>2, <3>6, <3>7
    <2>. QED BY <1>3, <2>13, <2>14, <2>15, <2>17, <2>18, <2>19, <2>20, <2>21, StepCases
  <1>. QED BY <1>1, <1>2, <1>3 DEF Next, Stopped

(* The servers an auto-init starts *)

\* While only auto-inits start servers, the one that does holds initMu.
LEMMA SoloCalls ==
  ASSUME ServerTypes, StepsOfCalls, Solo, NEW p \in Caller
  PROVE  /\ call[p].op \in {"file", None}
         /\ call[p].pc \in {"idle", "use", "current", "autoInit", "lockInit", "recheck", "all", "default", "set"}
         /\ p \in AutoStarting \/ call[p].pc = "recheck" => initMu = p /\ call[p].op = "file"
         /\ p \in AutoStarting => \A q \in AutoStarting : q = p
  <1>1. ASSUME NEW q \in Caller
        PROVE  /\ call[q].op \in {"file", None} /\ call[q].op \notin Explicit
               /\ call[q].pc \in PC /\ StepsOfCall(q) /\ (call[q].op = None => call[q].pc = "idle")
    <2>1. StepsOfCall(q) /\ call[q] \in CallRec
      BY DEF StepsOfCalls, ServerTypes
    <2>2. call[q].op \notin Explicit
      BY <2>1 DEF StepsOfCall, Solo
    <2>. QED BY <2>1, <2>2 DEF CallRec, StepsOfCall
  <1>2. ASSUME NEW q \in Caller, q \in AutoStarting \/ call[q].pc = "recheck"
        PROVE  initMu = q /\ call[q].op = "file"
    BY <1>1, <1>2 DEF AutoStarting, StepsOfCall
  <1>3. \A q \in AutoStarting : q \in Caller
    BY DEF AutoStarting
  <1>. QED BY <1>1, <1>2, <1>3 DEF StepsOfCall, PC

\* Steps that start, end and disturb no server leave what an auto-init owns.
LEMMA OwnUnmoved ==
  ASSUME OwnServers, NEW p \in Caller, \A q \in Caller \ {p} : call'[q] = call[q],
         UNCHANGED <<mode, entry, cs, client, starts>>, p \notin AutoStarting, p \notin AutoStarting'
  PROVE  OwnServers'
  <1>1. AutoStarting' = AutoStarting /\ Running' = Running /\ Entries' = Entries /\ Solo' = Solo
    BY DEF AutoStarting, Running, Entries, Solo
  <1>2. \A q \in AutoStarting : call'[q] = call[q]
    BY DEF AutoStarting
  <1>3. ASSUME NEW q \in AutoStarting, OwnStart(q)
        PROVE  OwnStart(q)'
    BY <1>1, <1>2, <1>3 DEF OwnStart
  <1>4. \A q \in Caller : call'[q].pc = "set" => call'[q] = call[q]
    BY DEF AutoStarting
  <1>. QED BY <1>1, <1>3, <1>4 DEF OwnServers

LEMMA OwnDie ==
  ASSUME ServerTypes, OwnServers, NEW c \in Client, Die(c)
  PROVE  OwnServers'
  <1>1. UNCHANGED <<mode, entry, cs, call, starts>>
    BY DEF Die, fixed
  <1>2. \A d \in Client : /\ client'[d].kind = client[d].kind /\ client'[d].root = client[d].root
                          /\ client'[d].live => client[d].live /\ client'[d].init = client[d].init
    <2>1. client[c] \in ClientRec
      BY DEF ServerTypes
    <2>. QED BY <2>1 DEF Die, ServerTypes, ClientRec
  <1>3. Running' \subseteq Running
    BY <1>2 DEF Running
  <1>4. AutoStarting' = AutoStarting /\ Entries' = Entries /\ Solo' = Solo
    BY <1>1 DEF AutoStarting, Entries, Solo
  <1>5. ASSUME NEW q \in AutoStarting, OwnStart(q)
        PROVE  OwnStart(q)'
    BY <1>1, <1>2, <1>3, <1>5 DEF OwnStart
  <1>6. cs # None => cs \in Client
    BY DEF ServerTypes
  <1>. QED BY <1>1, <1>2, <1>3, <1>4, <1>5, <1>6 DEF OwnServers

\* What is left to show when a call alone is starting servers, in multi mode.
LEMMA OwnAlone ==
  ASSUME ServerTypes, StepsOfCalls, NEW p \in Caller, \A q \in Caller \ {p} : call'[q] = call[q],
         starts \subseteq starts', p \in AutoStarting \/ call[p].pc = "recheck",
         Solo' => /\ p \in AutoStarting' /\ (\A c \in Client : client'[c].kind # "socket")
                  /\ mode' = "multi" /\ cs' = None /\ Running' \subseteq Entries' /\ OwnStart(p)'
  PROVE  OwnServers'
  <1>1. SUFFICES ASSUME Solo' PROVE OwnServers'
    BY DEF OwnServers
  <1>2. Solo
    BY <1>1 DEF Solo
  <1>3. ASSUME NEW q \in AutoStarting'
        PROVE  q = p
    <2>1. q \in Caller /\ (q # p => q \in AutoStarting)
      BY DEF AutoStarting
    <2>. QED BY <1>2, <2>1, SoloCalls
  <1>. QED BY <1>1, <1>3 DEF OwnServers

LEMMA OwnStep ==
  ASSUME ServerTypes, StepsOfCalls, ServerTypes', StepsOfCalls', ProcessesLive, OwnServers, [Next]_vars
  PROVE  OwnServers'
  <1>0. /\ client \in [Client -> ClientRec] /\ \A c \in Client : client[c] \in ClientRec
        /\ 1 \in DOMAIN entry /\ 1 \in Client /\ entry \in Seq(Client \cup {None}) /\ None \notin Client
        /\ DOMAIN entry = 1..Len(entry) /\ Len(entry) \in Nat /\ Len(entry) >= 1
    BY ClientTypes, ClientSet, NoneAssumption DEF ServerTypes
  <1>1. CASE UNCHANGED vars
    <2>1. UNCHANGED <<mode, entry, cs, client, starts, call>>
      BY <1>1 DEF vars
    <2>2. AutoStarting' = AutoStarting /\ Running' = Running /\ Entries' = Entries /\ Solo' = Solo
      BY <2>1 DEF AutoStarting, Running, Entries, Solo
    <2>3. ASSUME NEW q, OwnStart(q)
          PROVE  OwnStart(q)'
      BY <2>1, <2>2, <2>3 DEF OwnStart
    <2>. QED BY <2>1, <2>2, <2>3 DEF OwnServers
  <1>2. ASSUME NEW c \in Client, Die(c)
        PROVE  OwnServers'
    BY <1>2, OwnDie
  <1>3. ASSUME NEW p \in Caller, CallStep(p)
        PROVE  OwnServers'
    <2>0. /\ call \in [Caller -> CallRec] /\ call[p] \in CallRec /\ call'[p] \in CallRec
          /\ \A q \in Caller \ {p} : call'[q] = call[q]
      BY <1>3, CallsTypes DEF ServerTypes
    <2>00. StepsOfCall(p) /\ p # None
      BY NoneAssumption DEF StepsOfCalls
    <2>000. \A rec : Step(p, rec) => call'[p] = rec
      BY <2>0 DEF Step
    <2>1. SUFFICES ASSUME Solo' PROVE OwnServers'
      BY DEF OwnServers
    <2>2. starts \subseteq starts'
      <3>1. CASE Moves(p)
        <4>1. CASE Recheck(p)
          BY <4>1 DEF Recheck
        <4>2. ASSUME NEW op, NEW pc, NEW arg, NEW r, StartCall(p, op, pc, arg, r)
              PROVE  starts \subseteq starts'
          BY <4>2 DEF StartCall
        <4>3. CASE UNCHANGED starts
          BY <4>3
        <4>. QED BY <3>1, <4>1, <4>2, <4>3
               DEF Moves, FileCall, CurrentClient, AutoInit, LockInit, Use, AllStarted, ReadDefault, LockAll
      <3>2. CASE StartEntry(p) \/ StartEntryFails(p) \/ SetCurrent(p) \/ StartNewFails(p) \/ SetScopeConfig(p)
        BY <3>2 DEF StartEntry, StartEntryFails, SetCurrent, StartNewFails, SetScopeConfig
      <3>3. CASE GenerateScopeConfig(p) \/ StopOld(p) \/ StartNew(p) \/ ShutCurrent(p) \/ Dial(p)
        BY <3>3 DEF GenerateScopeConfig, StopOld, StartNew, ShutCurrent, Dial
      <3>. QED BY <1>3, <3>1, <3>2, <3>3, StepCases
    <2>3. Solo
      BY <2>1, <2>2 DEF Solo
    <2>4. /\ call[p].op \in {"file", None}
          /\ call[p].pc \in {"idle", "use", "current", "autoInit", "lockInit", "recheck", "all", "default", "set"}
          /\ p \in AutoStarting \/ call[p].pc = "recheck" => initMu = p /\ call[p].op = "file"
      BY <2>3, SoloCalls
    <2>5. /\ \A c \in Client : client[c].kind # "socket"
          /\ mode = "single" => /\ cs = 1 /\ Running \subseteq {1} /\ entry[1] = 1
                                /\ \A q \in Caller : call[q].pc = "set" => call[q].got = 1
          /\ mode = "multi" => /\ AutoStarting = {} /\ cs = None => Running = {}
                               /\ cs # None => AutoStarting = {} /\ client[cs].root \in starts
                               /\ Running \subseteq Entries
                               /\ p \in AutoStarting => cs = None /\ OwnStart(p)
      BY <2>3 DEF OwnServers, ProcessesLive
    \* the other calls, while this one starts servers
    <2>6. ASSUME p \in AutoStarting \/ call[p].pc = "recheck", NEW q \in Caller, q # p
          PROVE  q \notin AutoStarting /\ q \notin AutoStarting'
      <3>1. initMu = p
        BY <2>4, <2>6
      <3>2. q \notin AutoStarting
        BY <2>3, <2>6, <3>1, SoloCalls
      <3>. QED BY <2>0, <2>6, <3>2 DEF AutoStarting
    \* the single client: it stays the current one, and the only one that runs
    <2>7. ASSUME mode = "single", UNCHANGED mode, cs' = 1, Running' \subseteq {1},
                 \A c \in Client : client'[c].kind # "socket", call'[p].pc = "set" => call'[p].got = 1
          PROVE  OwnServers'
      BY <2>0, <2>5, <2>7 DEF OwnServers
    <2>8. ASSUME NEW f \in File, FileCall(p, f)
          PROVE  OwnServers'
      <3>1. UNCHANGED <<mode, entry, cs, client, starts>> /\ call[p].pc = "idle" /\ call'[p].pc \in {"use", "current"}
        BY <2>000, <2>8 DEF FileCall, fixed, Idle
      <3>2. p \notin AutoStarting /\ p \notin AutoStarting'
        BY <3>1 DEF AutoStarting
      <3>. QED BY <2>0, <3>1, <3>2, OwnUnmoved
    <2>9. CASE CurrentClient(p) \/ AutoInit(p) \/ LockInit(p) \/ Use(p)
      <3>1. UNCHANGED <<mode, entry, cs, client, starts>> /\ call[p].pc \in {"current", "autoInit", "lockInit", "use"}
            /\ call'[p].pc \in {"use", "autoInit", "lockInit", "recheck", "idle"}
        <4>1. CASE CurrentClient(p)
          BY <2>0, <2>000, <4>1 DEF CurrentClient, CallRec, fixed
        <4>2. CASE AutoInit(p)
          BY <2>0, <2>000, <4>2 DEF AutoInit, CallRec, fixed
        <4>3. CASE LockInit(p)
          BY <2>0, <2>000, <4>3 DEF LockInit, CallRec, fixed
        <4>4. CASE Use(p)
          BY <2>000, <4>4 DEF Use, Done, Idle, fixed
        <4>. QED BY <2>9, <4>1, <4>2, <4>3, <4>4
      <3>2. p \notin AutoStarting /\ p \notin AutoStarting'
        BY <3>1 DEF AutoStarting
      <3>. QED BY <2>0, <3>1, <3>2, OwnUnmoved
    <2>10. CASE Recheck(p)
      <3>1. call[p].pc = "recheck" /\ UNCHANGED <<mode, entry, cs, client>>
        BY <2>10 DEF Recheck, fixed
      <3>2. p \notin AutoStarting
        BY <3>1 DEF AutoStarting
      <3>3. CASE UnderCurrent(call[p].arg)
        <4>1. UNCHANGED starts /\ Step(p, [call[p] EXCEPT !.pc = "use", !.got = cs])
          BY <2>10, <3>3 DEF Recheck
        <4>2. call'[p].pc = "use"
          BY <2>0, <2>000, <4>1 DEF CallRec
        <4>3. p \notin AutoStarting'
          BY <4>2 DEF AutoStarting
        <4>. QED BY <2>0, <3>1, <3>2, <4>1, <4>3, OwnUnmoved
      <3>4. CASE ~UnderCurrent(call[p].arg)
        <4>1. /\ starts' = starts \cup {RootOf[call[p].arg]}
              /\ Step(p, [call[p] EXCEPT !.pc = "all", !.at = 1, !.root = RootOf[call[p].arg]])
          BY <2>10, <3>4 DEF Recheck
        <4>2. call'[p].pc = "all" /\ call'[p].at = 1 /\ call'[p].root = RootOf[call[p].arg]
              /\ call'[p].started = call[p].started
          BY <2>0, <2>000, <4>1 DEF CallRec
        <4>3. call[p].started = << >>
          BY <2>00, <3>1 DEF StepsOfCall
        <4>4. Running' = Running /\ Entries' = Entries
          BY <3>1 DEF Running, Entries
        <4>5. CASE mode = "single"
          BY <2>5, <2>7, <3>1, <4>2, <4>4, <4>5
        <4>6. CASE mode = "multi"
          <5>1. AutoStarting = {}
            BY <2>6, <3>1, <3>2 DEF AutoStarting
          <5>2. cs = None
            <6>1. SUFFICES ASSUME cs # None PROVE FALSE
              OBVIOUS
            <6>2. client[cs].root \in starts' /\ RootOf[call[p].arg] \in starts'
              BY <2>2, <2>5, <4>1, <4>6, <6>1
            <6>3. client[cs].root = RootOf[call[p].arg]
              BY <2>1, <6>2 DEF Solo
            <6>. QED BY <3>4, <6>1, <6>3 DEF UnderCurrent
          <5>3. Running = {}
            BY <2>5, <4>6, <5>1, <5>2
          <5>4. OwnStart(p)'
            <6>1. call'[p].started = << >> /\ Len(call'[p].started) = 0 /\ call'[p].at = 1
              BY <4>2, <4>3
            <6>2. \A k \in 1..0 : FALSE
              OBVIOUS
            <6>. QED BY <4>1, <4>2, <4>4, <5>3, <6>1, <6>2 DEF OwnStart
          <5>5. p \in AutoStarting'
            BY <4>2 DEF AutoStarting
          <5>. QED BY <2>0, <2>2, <2>5, <3>1, <4>4, <4>6, <5>2, <5>3, <5>4, <5>5, OwnAlone
        <4>. QED BY <4>5, <4>6 DEF ServerTypes
      <3>. QED BY <3>3, <3>4
    <2>11. CASE StartEntry(p)
      <3>1. /\ call[p].pc = "all" /\ UNCHANGED <<mode, cs, starts>>
            /\ call[p].at \in Nat /\ call[p].at >= 1 /\ call[p].at <= Len(entry)
        BY <2>0, <2>00, <2>11 DEF StartEntry, StepsOfCall, CallRec, fixed
      <3>2. p \in AutoStarting
        BY <3>1 DEF AutoStarting
      <3>3. PICK c \in (IF mode = "multi" THEN Fresh ELSE {entry[call[p].at]}) :
              \/ /\ mode = "single" /\ UNCHANGED <<client, entry>>
                 /\ Step(p, [call[p] EXCEPT !.at = call[p].at + 1])
              \/ /\ client' = Started(c, "process", call[p].root) /\ entry' = [entry EXCEPT ![call[p].at] = c]
                 /\ Step(p, [call[p] EXCEPT !.at = call[p].at + 1, !.started = Append(@, c)])
        BY <2>11 DEF StartEntry, ServerTypes
      <3>4. c \in Client /\ (mode = "single" => c = 1)
        <4>1. mode = "single" => call[p].at = 1
          BY <3>1 DEF ServerTypes
        <4>. QED BY <1>0, <3>3, <4>1 DEF ProcessesLive, ServerTypes, Fresh
      <3>5. call'[p].pc = "all"
        <4>1. \/ call'[p] = [call[p] EXCEPT !.at = call[p].at + 1]
              \/ \E st : call'[p] = [call[p] EXCEPT !.at = call[p].at + 1, !.started = st]
          BY <2>000, <3>3
        <4>. QED BY <2>0, <3>1, <4>1 DEF CallRec
      <3>6. client' = Started(c, "process", call[p].root) =>
              /\ client'[c].kind = "process" /\ client'[c].root = call[p].root
              /\ \A d \in Client \ {c} : client'[d] = client[d]
        BY <1>0, <3>4 DEF Started
      <3>7. \A d \in Client : client'[d].kind # "socket"
        BY <2>5, <3>3, <3>6
      <3>8. Running' \subseteq Running \cup {c}
        BY <3>3, <3>6 DEF Running
      <3>9. CASE mode = "single"
        BY <2>5, <2>7, <3>1, <3>4, <3>5, <3>7, <3>8, <3>9
      <3>10. CASE mode = "multi"
        <4>1. /\ client' = Started(c, "process", call[p].root) /\ entry' = [entry EXCEPT ![call[p].at] = c]
              /\ Step(p, [call[p] EXCEPT !.at = call[p].at + 1, !.started = Append(@, c)])
          BY <3>3, <3>10
        <4>2. /\ call'[p].at = call[p].at + 1 /\ call'[p].started = Append(call[p].started, c)
              /\ call'[p].root = call[p].root
          BY <2>0, <2>000, <4>1 DEF CallRec
        <4>3. cs = None /\ OwnStart(p)
          BY <2>5, <3>2, <3>10
        <4>4. /\ call[p].at = Len(call[p].started) + 1 /\ Len(call[p].started) \in Nat
              /\ \A k \in 1..Len(call[p].started) : call[p].started[k] = entry[k]
              /\ Running \subseteq {entry[k] : k \in 1..Len(call[p].started)}
              /\ call[p].at > 1 => entry[1] \in Client /\ client[entry[1]].root = call[p].root
              /\ call[p].root \in starts
          BY <2>0, <3>1, <4>3 DEF OwnStart, CallRec
        <4>5. /\ Len(call'[p].started) = call[p].at
              /\ \A k \in 1..Len(call[p].started) : call'[p].started[k] = call[p].started[k]
              /\ call'[p].started[call[p].at] = c
          BY <2>0, <4>2, <4>4 DEF CallRec
        <4>6. entry'[call[p].at] = c /\ \A k \in 1..Len(call[p].started) : entry'[k] = entry[k]
          BY <1>0, <3>1, <4>1, <4>4
        <4>7. /\ \A k \in 1..Len(call'[p].started) : call'[p].started[k] = entry'[k]
              /\ Running' \subseteq {entry'[k] : k \in 1..Len(call'[p].started)}
          <5>1. \A k \in 1..Len(call'[p].started) : k \in 1..Len(call[p].started) \/ k = call[p].at
            BY <4>4, <4>5
          <5>2. \A k \in 1..Len(call[p].started) : k \in 1..Len(call'[p].started)
            BY <4>4, <4>5
          <5>3. call[p].at \in 1..Len(call'[p].started)
            BY <3>1, <4>5
          <5>4. ASSUME NEW k \in 1..Len(call'[p].started)
                PROVE  call'[p].started[k] = entry'[k]
            <6>1. CASE k = call[p].at
              BY <4>5, <4>6, <6>1
            <6>2. CASE k \in 1..Len(call[p].started)
              BY <4>4, <4>5, <4>6, <6>2
            <6>. QED BY <5>1, <6>1, <6>2
          <5>5. ASSUME NEW d \in Running'
                PROVE  d \in {entry'[k] : k \in 1..Len(call'[p].started)}
            <6>1. CASE d = c
              BY <4>6, <5>3, <6>1
            <6>2. CASE d \in Running
              <7>1. PICK k \in 1..Len(call[p].started) : d = entry[k]
                BY <4>4, <6>2
              <7>2. d = entry'[k] /\ k \in 1..Len(call'[p].started)
                BY <4>6, <5>2, <7>1
              <7>. QED BY <7>2
            <6>. QED BY <3>8, <5>5, <6>1, <6>2
          <5>. QED BY <5>4, <5>5
        <4>8. entry'[1] \in Client /\ client'[entry'[1]].root = call[p].root
          <5>1. CASE call[p].at = 1
            BY <3>4, <3>6, <4>1, <4>6, <5>1
          <5>2. CASE call[p].at # 1
            <6>1. call[p].at > 1 /\ entry'[1] = entry[1]
              BY <1>0, <3>1, <4>1, <5>2
            <6>2. entry[1] # c
              BY <1>0, <3>3, <3>10, FreshIs
            <6>. QED BY <3>6, <4>1, <4>4, <6>1, <6>2
          <5>. QED BY <5>1, <5>2
        <4>9. OwnStart(p)'
          <5>1. call'[p].at = Len(call'[p].started) + 1
            BY <4>2, <4>5
          <5>. QED BY <3>1, <3>5, <4>2, <4>4, <4>7, <4>8, <5>1 DEF OwnStart
        <4>10. Running' \subseteq Entries'
          <5>1. \A k \in 1..Len(call'[p].started) : k \in DOMAIN entry'
            BY <1>0, <3>1, <4>1, <4>5
          <5>. QED BY <4>7, <5>1 DEF Entries
        <4>11. p \in AutoStarting'
          BY <3>5 DEF AutoStarting
        <4>. QED BY <2>0, <3>1, <3>2, <3>7, <3>10, <4>3, <4>9, <4>10, <4>11, OwnAlone
      <3>. QED BY <3>9, <3>10 DEF ServerTypes
    <2>12. CASE StartEntryFails(p)
      <3>1. call[p].pc = "all" /\ UNCHANGED <<mode, cs, starts, entry>>
        BY <2>12 DEF StartEntryFails, fixed
      <3>2. p \in AutoStarting
        BY <3>1 DEF AutoStarting
      <3>3. call'[p].pc = "use" \/ call'[p] = Idle
        <4>1. call'[p] = [call[p] EXCEPT !.pc = "use"] \/ call'[p] = Idle
          BY <2>000, <2>12 DEF StartEntryFails, Done
        <4>. QED BY <2>0, <4>1 DEF CallRec
      <3>4. p \notin AutoStarting' /\ call'[p].pc # "set"
        BY <3>3 DEF AutoStarting, Idle
      <3>5. \A d \in Client : client'[d] =
              IF mode = "single" /\ d = entry[1] THEN [client[d] EXCEPT !.root = call[p].root]
              ELSE IF \E k \in DOMAIN call[p].started : call[p].started[k] = d THEN ShutdownIn(client, d)[d]
              ELSE client[d]
        BY <2>12 DEF StartEntryFails
      <3>6. \A d \in Client : /\ ShutdownIn(client, d)[d].kind = client[d].kind
                              /\ ~ShutdownIn(client, d)[d].init
        BY <1>0, <2>5 DEF ShutdownIn, ClientRec
      <3>7. \A d \in Client : /\ client'[d].kind = client[d].kind
                              /\ client'[d].init => client[d].init /\ client'[d].live = client[d].live
        <4>1. ASSUME NEW d \in Client
              PROVE  /\ client'[d].kind = client[d].kind
                     /\ client'[d].init => client[d].init /\ client'[d].live = client[d].live
          <5>1. client[d] \in ClientRec
            BY <1>0
          <5>2. CASE client'[d] = [client[d] EXCEPT !.root = call[p].root]
            BY <5>1, <5>2 DEF ClientRec
          <5>3. CASE client'[d] = ShutdownIn(client, d)[d]
            BY <3>6, <5>3
          <5>. QED BY <3>5, <5>2, <5>3
        <4>. QED BY <4>1
      <3>8. Running' \subseteq Running /\ \A d \in Client : client'[d].kind # "socket"
        BY <2>5, <3>7 DEF Running
      <3>9. CASE mode = "single"
        BY <2>5, <2>7, <3>1, <3>4, <3>8, <3>9
      <3>10. CASE mode = "multi"
        <4>1. cs = None /\ OwnStart(p)
          BY <2>5, <3>2, <3>10
        <4>2. AutoStarting' = {}
          BY <2>6, <3>2, <3>4 DEF AutoStarting
        <4>3. Running' = {}
          <5>1. SUFFICES ASSUME NEW d \in Running' PROVE FALSE
            OBVIOUS
          <5>2. d \in Client /\ client'[d].init /\ d \in Running
            BY <3>8, <5>1 DEF Running
          <5>3. PICK k \in 1..Len(call[p].started) : d = entry[k] /\ call[p].started[k] = entry[k]
            BY <3>1, <4>1, <5>2 DEF OwnStart
          <5>4. k \in DOMAIN call[p].started
            BY <2>0, <5>3 DEF CallRec
          <5>5. client'[d] = ShutdownIn(client, d)[d]
            BY <3>5, <3>10, <5>2, <5>3, <5>4
          <5>. QED BY <3>6, <5>2, <5>5
        <4>. QED BY <3>1, <3>8, <3>10, <4>1, <4>2, <4>3 DEF OwnServers
      <3>. QED BY <3>9, <3>10 DEF ServerTypes
    <2>13. CASE AllStarted(p) \/ ReadDefault(p)
      <3>1. UNCHANGED <<mode, cs, starts, entry, client>> /\ call[p].pc \in {"all", "default"}
        BY <2>13 DEF AllStarted, ReadDefault, fixed
      <3>2. p \in AutoStarting
        BY <3>1 DEF AutoStarting
      <3>3. \/ call[p].pc = "all" /\ call[p].at > 1 /\ call'[p].pc = "default" /\ call'[p].root = call[p].root
            \/ call[p].pc = "default" /\ call'[p].pc = "set" /\ call'[p].root = call[p].root /\ call'[p].got = entry[1]
        <4>1. CASE AllStarted(p)
          <5>1. call[p].at > Len(entry) /\ call[p].at \in Nat /\ call[p].pc = "all"
            BY <2>0, <4>1 DEF AllStarted, CallRec
          <5>2. call[p].at > 1
            BY <1>0, <5>1
          <5>. QED BY <2>0, <2>000, <4>1, <5>1, <5>2 DEF AllStarted, CallRec
        <4>2. CASE ReadDefault(p)
          BY <2>0, <2>000, <4>2 DEF ReadDefault, DefaultClient, CallRec
        <4>. QED BY <2>13, <4>1, <4>2
      <3>4. Running' = Running /\ Entries' = Entries
        BY <3>1 DEF Running, Entries
      <3>5. CASE mode = "single"
        <4>1. call'[p].pc = "set" => call'[p].got = 1
          BY <2>5, <3>3, <3>5
        <4>. QED BY <2>5, <2>7, <3>1, <3>4, <3>5, <4>1
      <3>6. CASE mode = "multi"
        <4>1. cs = None /\ OwnStart(p)
          BY <2>5, <3>2, <3>6
        <4>2. OwnStart(p)'
          BY <3>1, <3>3, <4>1 DEF OwnStart
        <4>3. p \in AutoStarting'
          BY <3>3 DEF AutoStarting
        <4>. QED BY <2>0, <2>5, <3>1, <3>2, <3>4, <3>6, <4>1, <4>2, <4>3, OwnAlone
      <3>. QED BY <3>5, <3>6 DEF ServerTypes
    <2>14. CASE SetCurrent(p)
      <3>1. UNCHANGED <<mode, starts, entry, client>> /\ call[p].pc = "set" /\ cs' = call[p].got
        BY <2>14 DEF SetCurrent, fixed
      <3>2. p \in AutoStarting
        BY <3>1 DEF AutoStarting
      <3>3. call'[p].pc = "use"
        <4>1. call'[p] = [call[p] EXCEPT !.pc = "use"]
          BY <2>000, <2>4, <2>14, <3>2 DEF SetCurrent
        <4>. QED BY <2>0, <4>1 DEF CallRec
      <3>4. Running' = Running /\ Entries' = Entries
        BY <3>1 DEF Running, Entries
      <3>5. CASE mode = "single"
        BY <2>5, <2>7, <3>1, <3>3, <3>4, <3>5
      <3>6. CASE mode = "multi"
        <4>1. OwnStart(p)
          BY <2>5, <3>2, <3>6
        <4>2. cs' \in Client /\ client'[cs'].root \in starts' /\ client'[cs'].root # None
          BY <2>3, <3>1, <4>1 DEF OwnStart, Solo
        <4>3. AutoStarting' = {}
          BY <2>6, <3>2, <3>3 DEF AutoStarting
        <4>. QED BY <1>0, <2>5, <3>1, <3>4, <3>6, <4>2, <4>3 DEF OwnServers
      <3>. QED BY <3>5, <3>6 DEF ServerTypes
    <2>15. ~(\/ LockAll(p) \/ GenerateScopeConfig(p) \/ StopOld(p) \/ StartNew(p) \/ StartNewFails(p)
             \/ SetScopeConfig(p) \/ ShutCurrent(p) \/ Dial(p))
      BY <2>4 DEF LockAll, GenerateScopeConfig, StopOld, StartNew, StartNewFails, SetScopeConfig, ShutCurrent, Dial
    <2>16. \A op, pc, arg, r : ~StartCall(p, op, pc, arg, r)
      BY <2>1 DEF StartCall, Solo
    <2>17. CASE Moves(p)
      BY <2>8, <2>9, <2>10, <2>13, <2>15, <2>16, <2>17 DEF Moves
    <2>. QED BY <1>3, <2>11, <2>12, <2>14, <2>15, <2>17, StepCases
  <1>. QED BY <1>1, <1>2, <1>3 DEF Next, Stopped

(* The invariant *)

LEMMA InitServer == Init => ServerInv
  <1>. SUFFICES ASSUME Init PROVE ServerInv
    OBVIOUS
  <1>0. /\ Client \subseteq Nat /\ 1 \in Client /\ Unused \in ClientRec /\ Idle \in CallRec
        /\ Entry \in Seq(STRING) /\ Len(Entry) \in Nat \ {0}
    BY ClientSet, IdleType, EntryAssumption
  <1>1. ServerTypes
    <2>1. entry \in Seq(Client \cup {None}) /\ Len(entry) = IF mode = "single" THEN 1 ELSE Len(Entry)
      <3>1. CASE mode = "single"
        BY <1>0, <3>1 DEF Init
      <3>2. CASE mode = "multi"
        <4>1. entry = [i \in 1..Len(Entry) |-> None]
          BY <1>0, <3>2 DEF Init
        <4>. QED BY <1>0, <3>2, <4>1
      <3>. QED BY <3>1, <3>2 DEF Init
    <2>2. cs \in Client \cup {None}
      BY <1>0 DEF Init, DefaultClient
    <2>3. cfg \in [Root -> {"none", "user", "gen"}] /\ bak \in [Root -> {"none", "user", "gen"}]
      BY DEF Init
    <2>. QED BY <1>0, <2>1, <2>2, <2>3 DEF Init, ServerTypes
  <1>2. \A p \in Caller : call[p] = Idle
    BY DEF Init
  <1>3. Starting = {} /\ AutoStarting = {}
    BY <1>2, NoneAssumption DEF Starting, AutoStarting, Idle
  <1>4. \A c \in Client : client[c] = Unused
    BY DEF Init
  <1>5. StepsOfCalls
    BY <1>2, NoneAssumption DEF StepsOfCalls, StepsOfCall, Idle, Explicit, Init
  <1>6. Kept
    BY <1>2, <1>4 DEF Kept, KeptFor, Init, Idle, Unused
  <1>7. ProcessesLive
    BY <1>0, <1>4 DEF ProcessesLive, Init, Unused
  <1>8. OneStart
    <2>1. Usable
      BY <1>4, <1>1 DEF Usable, Unused, ServerTypes
    <2>2. \A p \in Caller : AboutToSet(p)
      BY <1>2 DEF AboutToSet, Idle
    <2>. QED BY <1>3, <2>1, <2>2 DEF OneStart
  <1>9. OwnServers
    <2>1. Running = {}
      BY <1>4 DEF Running, Unused
    <2>2. mode = "single" => cs = 1
      BY DEF Init, DefaultClient
    <2>3. mode = "multi" => cs = None
      BY <1>0 DEF Init, DefaultClient
    <2>4. \A c \in Client : client[c].kind # "socket"
      BY <1>4 DEF Unused
    <2>5. \A p \in Caller : call[p].pc # "set"
      BY <1>2 DEF Idle
    <2>. QED BY <1>3, <2>1, <2>2, <2>3, <2>4, <2>5 DEF OwnServers
  <1>10. IsFiniteSet(starts)
    BY FS_EmptySet DEF Init
  <1>. QED BY <1>1, <1>5, <1>6, <1>7, <1>8, <1>9, <1>10 DEF ServerInv

LEMMA StartsStep ==
  ASSUME IsFiniteSet(starts), [Next]_vars
  PROVE  IsFiniteSet(starts')
  <1>1. \A x : IsFiniteSet(starts \cup {x})
    BY FS_AddElement
  <1>2. ASSUME NEW p \in Caller, CallStep(p)
        PROVE  starts' = starts \/ \E x : starts' = starts \cup {x}
    <2>1. ASSUME NEW op, NEW pc, NEW arg, NEW r, StartCall(p, op, pc, arg, r)
          PROVE  \E x : starts' = starts \cup {x}
      BY <2>1 DEF StartCall
    <2>2. CASE Recheck(p)
      BY <2>2 DEF Recheck
    <2>3. CASE Moves(p)
      BY <2>1, <2>2, <2>3 DEF Moves, FileCall, CurrentClient, AutoInit, LockInit, Use, AllStarted, ReadDefault, LockAll
    <2>4. CASE StartEntry(p) \/ StartEntryFails(p) \/ SetCurrent(p) \/ StartNewFails(p) \/ SetScopeConfig(p)
      BY <2>4 DEF StartEntry, StartEntryFails, SetCurrent, StartNewFails, SetScopeConfig
    <2>5. CASE GenerateScopeConfig(p) \/ StopOld(p) \/ StartNew(p) \/ ShutCurrent(p) \/ Dial(p)
      BY <2>5 DEF GenerateScopeConfig, StopOld, StartNew, ShutCurrent, Dial
    <2>. QED BY <1>2, <2>3, <2>4, <2>5, StepCases
  <1>3. ASSUME NEW c \in Client, Die(c)
        PROVE  starts' = starts
    BY <1>3 DEF Die
  <1>4. starts' = starts \/ \E x : starts' = starts \cup {x}
    BY <1>2, <1>3 DEF Next, Stopped, vars
  <1>. QED BY <1>1, <1>4

LEMMA ServerStep == ServerInv /\ [Next]_vars => ServerInv'
  <1>. SUFFICES ASSUME ServerInv, [Next]_vars PROVE ServerInv'
    OBVIOUS
  <1>1. /\ ServerTypes /\ IsFiniteSet(starts)
        /\ StepsOfCalls /\ Kept /\ ProcessesLive /\ OneStart /\ OwnServers
    BY DEF ServerInv
  <1>2. ServerTypes'
    BY <1>1, TypesStep
  <1>3. StepsOfCalls'
    BY <1>1, StepsStep
  <1>4. Kept' /\ ProcessesLive'
    BY <1>1, KeptStep, LiveStep
  <1>5. OneStart'
    BY <1>1, <1>2, <1>3, OneStartStep
  <1>6. OwnServers'
    BY <1>1, <1>2, <1>3, OwnStep
  <1>7. IsFiniteSet(starts')
    BY <1>1, StartsStep
  <1>. QED BY <1>2, <1>3, <1>4, <1>5, <1>6, <1>7 DEF ServerInv

LEMMA ServerInvariant == Spec => []ServerInv
  BY InitServer, ServerStep, PTL DEF Spec

\* Entries and the current client are clients or none; the manager's mutex is held
\* only by a call that is starting servers, and initMu only by a call about a file
\* between its second check and clientState.set (server.go:252-276).
THEOREM TypeCorrect == Spec => []TypeOK
  <1>1. ServerInv => TypeOK
    <2>. SUFFICES ASSUME ServerInv PROVE TypeOK
      OBVIOUS
    <2>1. ServerTypes /\ StepsOfCalls
      BY DEF ServerInv
    <2>2. \A i \in DOMAIN entry : entry[i] \in Client \cup {None}
      BY <2>1, ClientTypes
    <2>3. \A c \in Client : client[c].kind \in {"unused", "process", "socket"} /\ client[c].scope \in Scope
      BY <2>1 DEF ServerTypes, ClientRec
    <2>. QED BY <2>1, <2>2, <2>3 DEF TypeOK, ServerTypes, StepsOfCalls
  <1>. QED BY <1>1, ServerInvariant, PTL

\* Auto-inits of one root, however they interleave, fail half-way or lose servers,
\* leave no running server that neither an entry nor the current client names: the
\* second check under initMu finds the client the first one set (server.go:252-276),
\* and a StartAll that fails shuts down what it started (manager.go:117-140).
THEOREM NoOrphanLeft == Spec => []AutoInitLeavesNoOrphan
  <1>1. ServerInv => AutoInitLeavesNoOrphan
    <2>. SUFFICES ASSUME ServerInv, None \notin starts, Cardinality(starts) <= 1
                  PROVE  Orphan = {}
      BY DEF AutoInitLeavesNoOrphan
    <2>1. ServerTypes /\ IsFiniteSet(starts) /\ OwnServers
      BY DEF ServerInv
    <2>2. Solo
      <3>1. Cardinality(starts) \in Nat
        BY <2>1, FS_CardinalityType
      <3>2. Cardinality(starts) = 0 \/ Cardinality(starts) = 1
        BY <3>1
      <3>3. starts = {} \/ \E x : starts = {x}
        BY <2>1, <3>2, FS_EmptySet, FS_Singleton
      <3>. QED BY <3>3 DEF Solo
    <2>3. CASE mode = "single"
      BY <2>1, <2>2, <2>3 DEF OwnServers, Orphan, Running
    <2>4. CASE mode = "multi"
      BY <2>1, <2>2, <2>4 DEF OwnServers, Orphan, Running, Entries
    <2>. QED BY <2>1, <2>3, <2>4 DEF ServerTypes
  <1>. QED BY <1>1, ServerInvariant, PTL

\* Starts that neither fail nor overlap leave a current client that runs and
\* answers: start_lsp shuts the old client down before it starts the new one, but
\* what it then makes current is the new one, whichever start it was
\* (tools_workspace.go:186), and the scope set last goes to that client.
THEOREM CurrentStaysUsable == Spec => []CurrentIsUsable
  <1>1. ServerInv => CurrentIsUsable
    BY DEF ServerInv, OneStart, Usable, CurrentIsUsable
  <1>. QED BY <1>1, ServerInvariant, PTL

\* As long as no scoped start meets a generated file, a configuration file of the
\* user's is in place or is the backup of a generated one (scope.go:83-90), however
\* scoped starts, restarts and connections to other servers interleave.
THEOREM UserConfigSurvives == Spec => []UserConfigKept
  <1>1. ServerInv => UserConfigKept
    BY DEF ServerInv, Kept, KeptFor, UserConfigKept
  <1>. QED BY <1>1, ServerInvariant, PTL
==============================================================================
