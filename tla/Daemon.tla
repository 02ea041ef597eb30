-------------------------------- MODULE Daemon --------------------------------
(***************************************************************************)
(* The daemon broker of one workspace and language: RunBroker               *)
(* (internal/lsp/daemon_broker.go), the registry directory it shares with   *)
(* every session (internal/lsp/daemon.go), and how a session finds, starts  *)
(* and queries it (internal/lsp/manager.go, warmup.go).                     *)
(*                                                                         *)
(* Brokers and sessions are processes: a step is one system call on the     *)
(* directory or the socket.  A broker is named by its PID, used once.  A    *)
(* socket path whose listener is gone refuses a dial, and makes a bind fail.*)
(***************************************************************************)
EXTENDS Integers, FiniteSets

CONSTANTS Broker, Session, None

ASSUME NoneIsNoProcess == None \notin Broker \cup Session

VARIABLES
  dir, pidFile, info, sock,      \* the registry: directory, files, socket path
  bpc, ready,                    \* broker: where it is, workspace indexed
  queued, served,                \* broker: accepted and handled connections
  spc, saw, conn, warm,     \* session
  contended                      \* history: a start met another start, a broker
                                 \* in between, or a daemon.json just left behind

registryVars == <<dir, pidFile, info, sock>>
brokerVars == <<bpc, ready, queued, served>>
sessionVars == <<spc, saw, conn, warm>>
daemonVars == <<registryVars, brokerVars, sessionVars, contended>>

NoSight == [pid |-> None, ready |-> FALSE, first |-> FALSE]

DaemonInit ==
  /\ dir = FALSE /\ pidFile = None /\ sock = None
  /\ info = [pid |-> None, ready |-> FALSE]
  /\ bpc = [b \in Broker |-> "unborn"]
  /\ ready = [b \in Broker |-> FALSE]
  /\ queued = [b \in Broker |-> {}] /\ served = [b \in Broker |-> {}]
  /\ spc = [s \in Session |-> "idle"] /\ saw = [s \in Session |-> NoSight]
  /\ conn = [s \in Session |-> None]
  /\ warm = [s \in Session |-> FALSE]
  /\ contended = FALSE

Alive(b) == bpc[b] \notin {"unborn", "dead"}    \* processAlive
Bound(b) == bpc[b] \in {"publish", "serving", "closing", "wipe", "unlink"}
Dialable == sock # None /\ Bound(sock)

\* cleanupDaemonDir, os.RemoveAll: the files of the registry and the socket path.
Wipe ==
  /\ dir' = FALSE /\ pidFile' = None /\ sock' = None
  /\ info' = [pid |-> None, ready |-> FALSE]

\* WriteDaemonInfo creates the directory when it is missing.
WriteDaemonInfo(b, r) == dir' = TRUE /\ info' = [pid |-> b, ready |-> r]

Go(b, from, to) == bpc[b] = from /\ bpc' = [bpc EXCEPT ![b] = to]
SGo(s, from, to) == spc[s] = from /\ spc' = [spc EXCEPT ![s] = to]

\* The process is gone: connections close, files stay.
Exit(b) ==
  /\ bpc' = [bpc EXCEPT ![b] = "dead"]
  /\ queued' = [queued EXCEPT ![b] = {}] /\ served' = [served EXCEPT ![b] = {}]
  /\ UNCHANGED ready
------------------------------------------------------------------------------
(* RunBroker, in the order of its calls *)

MakeDir(b) ==
  /\ Go(b, "born", "pid")
  /\ dir' = TRUE /\ sock' = None      \* MkdirAll, Remove(socketPath)
  /\ UNCHANGED <<pidFile, info, ready, queued, served, sessionVars, contended>>

WritePid(b) ==
  /\ bpc[b] = "pid"
  /\ IF dir THEN /\ pidFile' = b
                 /\ Go(b, "pid", "init") /\ UNCHANGED <<ready, queued, served>>
     ELSE Exit(b) /\ UNCHANGED pidFile
  /\ UNCHANGED <<dir, info, sock, sessionVars, contended>>

PublishBeforeListen(b) ==  \* mutant
  /\ Go(b, "init", "bind")
  /\ WriteDaemonInfo(b, FALSE)
  /\ UNCHANGED <<pidFile, sock, ready, queued, served, sessionVars, contended>>

\* The language server may fail to initialize.
Initialize(b) ==
  /\ \E ok \in BOOLEAN : Go(b, "init", IF ok THEN "bind" ELSE "failed")
  /\ UNCHANGED <<registryVars, ready, queued, served, sessionVars, contended>>

Listen(b) ==
  /\ bpc[b] = "bind"
  /\ IF dir /\ sock = None
     THEN sock' = b /\ Go(b, "bind", "publish")
     ELSE UNCHANGED sock /\ Go(b, "bind", "failed")
  /\ UNCHANGED <<dir, pidFile, info, ready, queued, served, sessionVars, contended>>

Publish(b) ==
  /\ Go(b, "publish", "serving")
  /\ WriteDaemonInfo(b, FALSE)
  /\ UNCHANGED <<pidFile, sock, ready, queued, served, sessionVars, contended>>

\* cleanup after a failure before or at Listen: nothing is listening.
CleanupFailed(b) ==
  /\ bpc[b] = "failed"
  /\ IF pidFile \in {b, None} THEN Wipe ELSE UNCHANGED registryVars
  /\ Exit(b)
  /\ UNCHANGED <<sessionVars, contended>>

Up(b) == bpc[b] \in {"serving", "closing", "wipe", "unlink"}

\* The warm-up goroutine: the workspace is indexed.
MarkReady(b) ==
  /\ Up(b) /\ ~ready[b]
  /\ ready' = [ready EXCEPT ![b] = TRUE]
  /\ WriteDaemonInfo(b, TRUE)
  /\ UNCHANGED <<pidFile, sock, bpc, queued, served, sessionVars, contended>>

\* The main loop takes an accepted connection; its LastActivity is written.
HandleConnection(b) ==
  /\ bpc[b] = "serving"
  /\ \E s \in queued[b] :
       /\ queued' = [queued EXCEPT ![b] = @ \ {s}]
       /\ served' = [served EXCEPT ![b] = @ \cup {s}]
  /\ WriteDaemonInfo(b, ready[b])
  /\ UNCHANGED <<pidFile, sock, bpc, ready, sessionVars, contended>>

\* The other two cases of the select: 30 minutes without a handled connection,
\* or a SIGTERM, which closes the handled ones.
IdleExit(b) ==
  /\ served[b] = {}
  /\ Go(b, "serving", "closing")
  /\ UNCHANGED <<registryVars, ready, queued, served, sessionVars, contended>>

Signalled(b) ==
  /\ Go(b, "serving", "closing")
  /\ served' = [served EXCEPT ![b] = {}]
  /\ UNCHANGED <<registryVars, ready, queued, sessionVars, contended>>

\* cleanup reads daemon.pid, then removes the directory; the deferred
\* listener.Close removes the socket path, whoever has bound it since.
CleanupCheck(b) ==
  /\ Go(b, "closing", IF pidFile \in {b, None} THEN "wipe" ELSE "unlink")
  /\ UNCHANGED <<registryVars, ready, queued, served, sessionVars, contended>>

CleanupWipe(b) ==
  /\ Go(b, "wipe", "unlink")
  /\ Wipe
  /\ UNCHANGED <<ready, queued, served, sessionVars, contended>>

CloseListener(b) ==
  /\ bpc[b] = "unlink"
  /\ sock' = None
  /\ Exit(b)
  /\ UNCHANGED <<dir, pidFile, info, sessionVars, contended>>

\* SIGKILL, or a signal before signal.Notify: no cleanup.
Crash(b) ==
  /\ Alive(b) /\ Exit(b)
  /\ UNCHANGED <<registryVars, sessionVars, contended>>

------------------------------------------------------------------------------
(* startOrConnectDaemon *)

\* A broker that is starting or dying, so that the registry is in between.
Unsettled == \E b \in Broker : Alive(b) /\ ~(bpc[b] = "serving" /\ info.pid = b /\ sock = b)

\* CleanupStaleDaemons reads daemon.pid, then removes the directory.
StartDaemon(s) ==
  /\ SGo(s, "idle", IF dir THEN "sweep" ELSE "find")
  /\ saw' = [saw EXCEPT ![s] = [pid |-> pidFile, ready |-> FALSE, first |-> TRUE]]
  /\ contended' = (contended \/ Unsettled \/ \E t \in Session \ {s} :
                                               spc[t] \notin {"idle", "connected"})
  /\ UNCHANGED <<registryVars, brokerVars, conn, warm>>

SweepAll(s) ==  \* mutant
  /\ SGo(s, "sweep", "find")
  /\ Wipe
  /\ UNCHANGED <<brokerVars, saw, conn, warm, contended>>

Sweep(s) ==
  /\ SGo(s, "sweep", "find")
  /\ IF saw[s].pid = None \/ ~Alive(saw[s].pid)
     THEN Wipe ELSE UNCHANGED registryVars
  /\ UNCHANGED <<brokerVars, saw, conn, warm, contended>>

\* FindRunningDaemon reads daemon.json, then checks the process and the socket.
FindRead(s) ==
  /\ spc[s] \in {"find", "poll"}
  /\ saw' = [saw EXCEPT ![s] = [pid |-> info.pid, ready |-> info.ready, first |-> spc[s] = "find"]]
  /\ spc' = [spc EXCEPT ![s] = "check"]
  /\ UNCHANGED <<registryVars, brokerVars, conn, warm, contended>>

\* saw.first tells the first search, which spawns, from the polls after it.
NotFound(s) == spc' = [spc EXCEPT ![s] = IF saw[s].first THEN "spawn" ELSE "poll"]

FindCheck(s) ==
  /\ spc[s] = "check"
  /\ LET found == saw[s].pid # None /\ Alive(saw[s].pid) /\ Dialable IN
       IF found THEN spc' = [spc EXCEPT ![s] = "connect"] ELSE NotFound(s)
  /\ IF saw[s].pid # None /\ ~Alive(saw[s].pid) THEN Wipe ELSE UNCHANGED registryVars
  /\ UNCHANGED <<brokerVars, saw, conn, warm, contended>>

\* A first connection that fails is followed by a spawn, a later one by an error.
NewDaemonClient(s) ==
  /\ spc[s] = "connect"
  /\ IF Dialable
     THEN /\ queued' = [queued EXCEPT ![sock] = @ \cup {s}]
          /\ conn' = [conn EXCEPT ![s] = sock]
          /\ warm' = [warm EXCEPT ![s] = saw[s].ready]
          /\ SGo(s, "connect", "connected")
     ELSE /\ UNCHANGED <<queued, conn, warm>>
          /\ SGo(s, "connect", IF saw[s].first THEN "spawn" ELSE "idle")
  /\ UNCHANGED <<registryVars, bpc, ready, served, saw, contended>>

SpawnDaemonProcess(s) ==
  /\ SGo(s, "spawn", "poll")
  /\ \E b \in Broker : Go(b, "unborn", "born")
  /\ contended' = (contended \/ info.pid # None \/ \E b \in Broker : Alive(b))
  /\ UNCHANGED <<registryVars, ready, queued, served, saw, conn, warm>>

\* The bound on brokers is reached: the session gives up (cmd.Start fails).
SpawnFails(s) ==
  /\ SGo(s, "spawn", "idle")
  /\ \A b \in Broker : bpc[b] # "unborn"
  /\ UNCHANGED <<registryVars, brokerVars, saw, conn, warm, contended>>

\* AGENT_LSP_BROKER_TIMEOUT_MS has passed: the start returns an error.
GiveUp(s) ==
  /\ SGo(s, "poll", "idle")
  /\ UNCHANGED <<registryVars, brokerVars, saw, conn, warm, contended>>
------------------------------------------------------------------------------
(* A connected session *)

ReferencesUnrefreshed(s) ==  \* mutant
  /\ spc[s] = "connected" /\ ~warm[s] /\ s \in served[conn[s]]
  /\ warm' = [warm EXCEPT ![s] = TRUE]
  /\ UNCHANGED <<registryVars, brokerVars, spc, saw, conn, contended>>

\* GetReferencesWithWarmup refreshes daemon.json while the daemon indexes; a
\* query that is let through and answered marks the workspace warm.
References(s) ==
  /\ spc[s] = "connected" /\ ~warm[s] /\ s \in served[conn[s]]
  /\ info.pid # None /\ info.ready
  /\ warm' = [warm EXCEPT ![s] = TRUE]
  /\ UNCHANGED <<registryVars, brokerVars, spc, saw, conn, contended>>

\* Shutdown closes the socket only; a broker that exits closes it too.
Disconnect(s) ==
  /\ SGo(s, "connected", "idle")
  /\ queued' = [b \in Broker |-> queued[b] \ {s}]
  /\ served' = [b \in Broker |-> served[b] \ {s}]
  /\ conn' = [conn EXCEPT ![s] = None] /\ warm' = [warm EXCEPT ![s] = FALSE]
  /\ UNCHANGED <<registryVars, bpc, ready, saw, contended>>
------------------------------------------------------------------------------
BrokerStep(b) ==
  \/ MakeDir(b) \/ WritePid(b) \/ Initialize(b) \/ Listen(b) \/ Publish(b)
  \/ CleanupFailed(b) \/ MarkReady(b) \/ HandleConnection(b)
  \/ CleanupCheck(b) \/ CleanupWipe(b) \/ CloseListener(b)

DaemonNext ==
  \/ \E b \in Broker : BrokerStep(b) \/ IdleExit(b) \/ Signalled(b) \/ Crash(b)
  \/ \E s \in Session :
       \/ StartDaemon(s) \/ Sweep(s) \/ FindRead(s) \/ FindCheck(s) \/ NewDaemonClient(s)
       \/ SpawnDaemonProcess(s) \/ SpawnFails(s) \/ GiveUp(s)
       \/ References(s) \/ Disconnect(s)

DaemonSpec == DaemonInit /\ [][DaemonNext]_daemonVars
------------------------------------------------------------------------------
(* Properties *)

BrokerPCs == {"unborn", "born", "pid", "init", "bind", "publish", "serving", "failed",
              "closing", "wipe", "unlink", "dead"}
SessionPCs == {"idle", "sweep", "find", "check", "spawn", "poll", "connect", "connected"}

\* Types; a connection is to the broker that has accepted or handled it.
DaemonTypes ==
  /\ dir \in BOOLEAN /\ pidFile \in Broker \cup {None} /\ sock \in Broker \cup {None}
  /\ info \in [pid : Broker \cup {None}, ready : BOOLEAN]
  /\ bpc \in [Broker -> BrokerPCs]
  /\ ready \in [Broker -> BOOLEAN]
  /\ queued \in [Broker -> SUBSET Session]
  /\ served \in [Broker -> SUBSET Session]
  /\ spc \in [Session -> SessionPCs]
  /\ saw \in [Session -> [pid : Broker \cup {None}, ready : BOOLEAN, first : BOOLEAN]]
  /\ warm \in [Session -> BOOLEAN]
  /\ conn \in [Session -> Broker \cup {None}]
  /\ contended \in BOOLEAN
  /\ \A s \in Session, b \in Broker : s \in queued[b] \cup served[b] => conn[s] = b

\* daemon.json never names a broker that has not bound its socket yet, so that a
\* dial that fails says something about a broker that was up (daemon_broker.go:69-77).
PublishedIsBound ==
  info.pid # None => bpc[info.pid] \in {"serving", "closing", "wipe", "unlink", "dead"}

\* While starts do not overlap with each other or with a broker that starts or
\* dies, every broker that serves is the registered one and can be dialled,
\* whatever is killed in between (daemon.go:66-108, daemon_broker.go:334-341).
ServingIsRegistered ==
  ~contended => \A b \in Broker : bpc[b] = "serving" => info.pid = b /\ sock = b

\* A session takes the workspace for indexed only when the daemon it talks to
\* has indexed it, although it reads the flag from a file (warmup.go:222-231).
WarmIsIndexed ==
  ~contended => \A s \in Session : warm[s] /\ Alive(conn[s]) => ready[conn[s]]

\* A search removes the registry of a dead broker only: "a dead PID can never
\* come back, so cleanup is safe" (daemon.go:82-84).  Violated: between the read
\* and the removal the broker this very session spawned has published its own.
SearchSparesTheLiving ==
  [][\A s \in Session :
       spc[s] = "check" /\ spc'[s] # "check" /\ info.pid # None /\ Alive(info.pid)
         => info' = info]_daemonVars
==============================================================================
