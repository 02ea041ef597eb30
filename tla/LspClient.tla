----------------------------- MODULE LspClient -----------------------------
(***************************************************************************)
(* Requests to a language server and the life of its process               *)
(* (internal/lsp/client.go).  Tool handlers call sendRequest concurrently; *)
(* every call registers a channel under a fresh id in `pending`, writes to *)
(* the server's stdin and waits for its channel, a timer or its context.   *)
(* Each process has a read loop, which hands the answers to the channels,  *)
(* and an exit monitor, which rejects what is pending when it is gone.     *)
(* Restart runs in a tool handler too, with no lock around it: it shuts    *)
(* the process down, forgets `pending`, starts the next process and sends  *)
(* it `initialize`.  Processes are numbered in the order of their start.   *)
(***************************************************************************)
EXTENDS Naturals, FiniteSets

CONSTANTS Query,      \* tool calls that send ordinary requests
          Restarter,  \* tool calls that run Restart
          MaxId,      \* bound on the requests sent
          MaxProc     \* bound on the processes started

ASSUME CallersApart == Query \cap Restarter = {}
ASSUME BoundsAreNat == MaxId \in Nat /\ MaxProc \in Nat \ {0}

VARIABLES
  nextID,       \* c.nextID: the last id given out
  pending,      \* c.pending: the ids whose channel can still be found
  box,          \* what was sent to the channels of each request
  cur,          \* c.cmd and c.frameReader, replaced together: a process
  stdin,        \* c.stdin: a process, 0 when nil
  initialized,  \* c.initialized
  proc,         \* each process: not started, running or dead
  mon,          \* its exit monitor; "done" once c.procDone is closed
  toProc,       \* requests the process has received and not answered
  fromProc,     \* answers in its stdout pipe
  hand,         \* the message its read loop holds
  pc, job,      \* where each caller is, and the request it makes
  myId,         \* the id of that request
  wrote,        \* the process whose stdin took it
  victim,       \* the process a Shutdown waits for
  lost,         \* history: the process that was current when Restart
                \* dropped this id from pending, 0 when it did not
  slow          \* history: a Shutdown gave up waiting for a killed process

requestVars == <<nextID, pending, box, lost>>
clientVars  == <<cur, stdin, initialized>>
processVars == <<proc, mon>>
pipeVars    == <<toProc, fromProc, hand>>
callerVars  == <<pc, job, myId, wrote>>
shutVars    == <<victim, slow>>
vars == <<requestVars, clientVars, processVars, pipeVars, callerVars, shutVars>>

Caller  == Query \cup Restarter
Id      == 1..MaxId
Process == 1..MaxProc

\* An outcome on a request's channels: an answer or an exit error, and the
\* process whose read loop or monitor sent it.
Outcome == [kind: {"answer", "exit"}, from: Process]
NoHand  == [id |-> 0, at |-> "free"]

\* A started and initialised server: start_lsp publishes a client only then.
Init ==
  /\ nextID = 0 /\ pending = {} /\ box = [i \in Id |-> {}]
  /\ lost = [i \in Id |-> 0]
  /\ cur = 1 /\ stdin = 1 /\ initialized = TRUE
  /\ proc = [g \in Process |-> IF g = 1 THEN "running" ELSE "unborn"]
  /\ mon = [g \in Process |-> "waiting"]
  /\ toProc = [g \in Process |-> {}] /\ fromProc = [g \in Process |-> {}]
  /\ hand = [g \in Process |-> NoHand]
  /\ pc = [c \in Caller |-> "idle"] /\ job = [c \in Caller |-> "query"]
  /\ myId = [c \in Caller |-> 0] /\ wrote = [c \in Caller |-> 0]
  /\ victim = [c \in Caller |-> 0] /\ slow = FALSE

-----------------------------------------------------------------------------
(* sendRequest, the same for a query, for shutdown and for initialize      *)

Call(q) ==
  /\ pc[q] = "idle" /\ q \in Query
  /\ pc' = [pc EXCEPT ![q] = "register"]
  /\ job' = [job EXCEPT ![q] = "query"]
  /\ UNCHANGED <<requestVars, clientVars, processVars, pipeVars, myId, wrote, shutVars>>

Register(c) ==
  /\ pc[c] = "register" /\ nextID < MaxId
  /\ nextID' = nextID + 1
  /\ pending' = pending \cup {nextID'}
  /\ myId' = [myId EXCEPT ![c] = nextID']
  /\ pc' = [pc EXCEPT ![c] = "write"]
  /\ UNCHANGED <<box, lost, clientVars, processVars, pipeVars, job, wrote, shutVars>>

\* What a caller does once its request has returned and its locals are gone.
AfterReturn(j, ok) ==
  CASE j = "query"      -> "idle"
    [] j = "shutdown"   -> IF ok THEN "close" ELSE "kill"
    [] j = "initialize" -> IF ok THEN "ready" ELSE "idle"

Return(c, ok) == /\ pc' = [pc EXCEPT ![c] = AfterReturn(job[c], ok)]
                 /\ myId' = [myId EXCEPT ![c] = 0]
                 /\ wrote' = [wrote EXCEPT ![c] = 0]

\* writeRaw succeeds when stdin leads to a live process.
Write(c) ==
  /\ pc[c] = "write" /\ stdin # 0 /\ proc[stdin] = "running"
  /\ toProc' = [toProc EXCEPT ![stdin] = @ \cup {myId[c]}]
  /\ wrote' = [wrote EXCEPT ![c] = stdin]
  /\ pc' = [pc EXCEPT ![c] = "wait"]
  /\ UNCHANGED <<requestVars, clientVars, processVars, fromProc, hand, job, myId, shutVars>>

\* No stdin, or a pipe nobody reads: the request is withdrawn.  The pause of
\* up to 3 seconds for the exit reason only delays this step.
WriteFails(c) ==
  /\ pc[c] = "write" /\ (stdin # 0 => proc[stdin] = "dead")
  /\ pending' = pending \ {myId[c]}
  /\ Return(c, FALSE)
  /\ UNCHANGED <<nextID, box, lost, clientVars, processVars, pipeVars, job, shutVars>>

\* An answer is a result or an error response.
Receive(c) ==
  /\ pc[c] = "wait"
  /\ \E o \in box[myId[c]], ok \in BOOLEAN :
       /\ ok => o.kind = "answer"
       /\ Return(c, ok)
  /\ UNCHANGED <<requestVars, clientVars, processVars, pipeVars, job, shutVars>>

\* The timer of the method or the caller's context.
GiveUp(c) ==
  /\ pc[c] = "wait"
  /\ pending' = pending \ {myId[c]}
  /\ Return(c, FALSE)
  /\ UNCHANGED <<nextID, box, lost, clientVars, processVars, pipeVars, job, shutVars>>

-----------------------------------------------------------------------------
(* Restart: Shutdown, the reset, then Initialize                           *)

BeginRestart(r) ==
  /\ pc[r] = "idle" /\ r \in Restarter
  /\ pc' = [pc EXCEPT ![r] = "register"]
  /\ job' = [job EXCEPT ![r] = "shutdown"]
  /\ UNCHANGED <<requestVars, clientVars, processVars, pipeVars, myId, wrote, shutVars>>

\* The server answered shutdown: `exit` is sent and stdin closed.
CloseStdin(r) ==
  /\ pc[r] = "close"
  /\ stdin' = 0
  /\ victim' = [victim EXCEPT ![r] = cur]
  /\ pc' = [pc EXCEPT ![r] = "await"]
  /\ UNCHANGED <<requestVars, cur, initialized, processVars, pipeVars, job, myId, wrote, slow>>

\* What the process had not answered goes with it.
Kill(g) == /\ proc' = [proc EXCEPT ![g] = "dead"]
           /\ toProc' = [toProc EXCEPT ![g] = {}]

\* killProcess after a shutdown request that failed.
KillProcess(r) ==
  /\ pc[r] = "kill"
  /\ stdin' = 0
  /\ victim' = [victim EXCEPT ![r] = cur]
  /\ Kill(cur)
  /\ pc' = [pc EXCEPT ![r] = "reap"]
  /\ UNCHANGED <<requestVars, cur, initialized, mon, fromProc, hand, job, myId, wrote, slow>>

\* Three seconds after a polite shutdown the process is killed.
KillLate(r) ==
  /\ pc[r] = "await" /\ mon[victim[r]] # "done"
  /\ Kill(victim[r])
  /\ pc' = [pc EXCEPT ![r] = "reap"]
  /\ UNCHANGED <<requestVars, clientVars, mon, fromProc, hand, job, myId, wrote, shutVars>>

\* Shutdown does not wait for the process it closed or killed.
ReapedAtOnce(r) ==                                                  \* mutant
  /\ pc[r] \in {"await", "reap"}
  /\ victim' = [victim EXCEPT ![r] = 0]
  /\ pc' = [pc EXCEPT ![r] = "reset"]
  /\ UNCHANGED <<requestVars, clientVars, processVars, pipeVars, job, myId, wrote, slow>>

\* Shutdown returns once the exit monitor has closed done ...
Reaped(r) ==
  /\ pc[r] \in {"await", "reap"} /\ mon[victim[r]] = "done"
  /\ victim' = [victim EXCEPT ![r] = 0]
  /\ pc' = [pc EXCEPT ![r] = "reset"]
  /\ UNCHANGED <<requestVars, clientVars, processVars, pipeVars, job, myId, wrote, slow>>

\* ... or five seconds after the kill (waitProcDone).
ReapTimeout(r) ==
  /\ pc[r] = "reap" /\ mon[victim[r]] # "done"
  /\ slow' = TRUE
  /\ victim' = [victim EXCEPT ![r] = 0]
  /\ pc' = [pc EXCEPT ![r] = "reset"]
  /\ UNCHANGED <<requestVars, clientVars, processVars, pipeVars, job, myId, wrote>>

\* The counter is reset where the map should be.
ResetIds(r) ==                                                      \* mutant
  /\ pc[r] = "reset"
  /\ initialized' = FALSE
  /\ nextID' = 0
  /\ pc' = [pc EXCEPT ![r] = "start"]
  /\ UNCHANGED <<pending, box, lost, cur, stdin, processVars, pipeVars, job, myId, wrote, shutVars>>

\* The pending map is replaced; the channels in it are told nothing.
ResetPending(r) ==
  /\ pc[r] = "reset"
  /\ initialized' = FALSE
  /\ pending' = {}
  /\ lost' = [i \in Id |-> IF i \in pending THEN cur ELSE lost[i]]
  /\ pc' = [pc EXCEPT ![r] = "start"]
  /\ UNCHANGED <<nextID, box, cur, stdin, processVars, pipeVars, job, myId, wrote, shutVars>>

Start(r) ==
  /\ pc[r] = "start" /\ cur < MaxProc
  /\ cur' = cur + 1 /\ stdin' = cur'
  /\ proc' = [proc EXCEPT ![cur'] = "running"]
  /\ pc' = [pc EXCEPT ![r] = "register"]
  /\ job' = [job EXCEPT ![r] = "initialize"]
  /\ UNCHANGED <<requestVars, initialized, mon, pipeVars, myId, wrote, shutVars>>

\* The server binary cannot be started: Restart returns the error.
StartFails(r) ==
  /\ pc[r] = "start"
  /\ pc' = [pc EXCEPT ![r] = "idle"]
  /\ UNCHANGED <<requestVars, clientVars, processVars, pipeVars, job, myId, wrote, shutVars>>

\* Initialize got its answer.
Ready(r) ==
  /\ pc[r] = "ready"
  /\ initialized' = TRUE
  /\ pc' = [pc EXCEPT ![r] = "idle"]
  /\ UNCHANGED <<requestVars, cur, stdin, processVars, pipeVars, job, myId, wrote, shutVars>>

-----------------------------------------------------------------------------
(* One process: the server itself, its read loop and its exit monitor      *)

\* The server answers what it has received in any order.
Answer(g, i) ==
  /\ proc[g] = "running" /\ i \in toProc[g]
  /\ toProc' = [toProc EXCEPT ![g] = @ \ {i}]
  /\ fromProc' = [fromProc EXCEPT ![g] = @ \cup {i}]
  /\ UNCHANGED <<requestVars, clientVars, processVars, hand, callerVars, shutVars>>

\* It exits or crashes, at any time.
Die(g) ==
  /\ proc[g] = "running"
  /\ Kill(g)
  /\ UNCHANGED <<requestVars, clientVars, mon, fromProc, hand, callerVars, shutVars>>

\* readLoop takes the next message and stops when the connection is replaced.
ReadMessage(g, i) ==
  /\ hand[g].at = "free" /\ i \in fromProc[g]
  /\ fromProc' = [fromProc EXCEPT ![g] = @ \ {i}]
  /\ hand' = [hand EXCEPT ![g] =
                IF cur = g THEN [id |-> i, at |-> "read"]
                           ELSE [id |-> 0, at |-> "stopped"]]
  /\ UNCHANGED <<requestVars, clientVars, processVars, toProc, callerVars, shutVars>>

\* The channel is looked up without being removed.
TakeKeepsPending(g) ==                                              \* mutant
  /\ hand[g].at = "read"
  /\ hand' = [hand EXCEPT ![g] =
                IF @.id \in pending THEN [@ EXCEPT !.at = "taken"] ELSE NoHand]
  /\ UNCHANGED <<requestVars, clientVars, processVars, toProc, fromProc, callerVars, shutVars>>

\* dispatch finds the channel and removes it, under pendingMu ...
Take(g) ==
  /\ hand[g].at = "read"
  /\ pending' = pending \ {hand[g].id}
  /\ hand' = [hand EXCEPT ![g] =
                IF @.id \in pending THEN [@ EXCEPT !.at = "taken"] ELSE NoHand]
  /\ UNCHANGED <<nextID, box, lost, clientVars, processVars, toProc, fromProc, callerVars, shutVars>>

\* ... and sends to it after the unlock.
Deliver(g) ==
  /\ hand[g].at = "taken"
  /\ box' = [box EXCEPT ![hand[g].id] = @ \cup {[kind |-> "answer", from |-> g]}]
  /\ hand' = [hand EXCEPT ![g] = NoHand]
  /\ UNCHANGED <<nextID, pending, lost, clientVars, processVars, toProc, fromProc, callerVars, shutVars>>

\* The monitor does not ask whether its process is still the current one.
MonitorExitAny(g) ==                                                \* mutant
  /\ proc[g] = "dead" /\ mon[g] = "waiting"
  /\ fromProc' = [fromProc EXCEPT ![g] = {}]
  /\ initialized' = FALSE /\ stdin' = 0
  /\ mon' = [mon EXCEPT ![g] = "rejecting"]
  /\ UNCHANGED <<requestVars, cur, proc, toProc, hand, callerVars, shutVars>>

\* cmd.Wait returned, which also closes the stdout pipe.  Only the monitor of
\* the current process touches the client.
MonitorExit(g) ==
  /\ proc[g] = "dead" /\ mon[g] = "waiting"
  /\ fromProc' = [fromProc EXCEPT ![g] = {}]
  /\ IF cur = g
       THEN /\ initialized' = FALSE /\ stdin' = 0
            /\ mon' = [mon EXCEPT ![g] = "rejecting"]
       ELSE /\ mon' = [mon EXCEPT ![g] = "done"]
            /\ UNCHANGED <<initialized, stdin>>
  /\ UNCHANGED <<requestVars, cur, proc, toProc, hand, callerVars, shutVars>>

\* The map is cleared and nobody is told.
RejectSilently(g) ==                                                \* mutant
  /\ mon[g] = "rejecting"
  /\ pending' = {}
  /\ mon' = [mon EXCEPT ![g] = "done"]
  /\ UNCHANGED <<nextID, box, lost, clientVars, proc, pipeVars, callerVars, shutVars>>

\* rejectPending, then the deferred close(done).
RejectPending(g) ==
  /\ mon[g] = "rejecting"
  /\ box' = [i \in Id |-> IF i \in pending
                          THEN box[i] \cup {[kind |-> "exit", from |-> g]} ELSE box[i]]
  /\ pending' = {}
  /\ mon' = [mon EXCEPT ![g] = "done"]
  /\ UNCHANGED <<nextID, lost, clientVars, proc, pipeVars, callerVars, shutVars>>

CallerStep(c) ==
  \/ Call(c) \/ Register(c) \/ Write(c) \/ WriteFails(c) \/ Receive(c) \/ GiveUp(c)
  \/ BeginRestart(c) \/ CloseStdin(c) \/ KillProcess(c) \/ KillLate(c)
  \/ Reaped(c) \/ ReapTimeout(c) \/ ResetPending(c)
  \/ Start(c) \/ StartFails(c) \/ Ready(c)

ProcessStep(g) ==
  \/ \E i \in Id : Answer(g, i) \/ ReadMessage(g, i)
  \/ Die(g) \/ Take(g) \/ Deliver(g) \/ MonitorExit(g) \/ RejectPending(g)

Next == (\E c \in Caller : CallerStep(c)) \/ (\E g \in Process : ProcessStep(g))

Spec == Init /\ [][Next]_vars

-----------------------------------------------------------------------------
(* Properties                                                              *)

\* The values the client's fields, the processes and the callers can have.
TypeOK ==
  /\ nextID \in 0..MaxId /\ pending \subseteq 1..nextID
  /\ box \in [Id -> SUBSET Outcome] /\ lost \in [Id -> 0..MaxProc]
  /\ cur \in Process /\ stdin \in {0, cur} /\ initialized \in BOOLEAN
  /\ proc \in [Process -> {"unborn", "running", "dead"}]
  /\ mon \in [Process -> {"waiting", "rejecting", "done"}]
  /\ toProc \in [Process -> SUBSET Id] /\ fromProc \in [Process -> SUBSET Id]
  /\ hand \in [Process -> [id: 0..MaxId, at: {"free", "read", "taken", "stopped"}]]
  /\ pc \in [Caller -> {"idle", "register", "write", "wait", "close", "kill", "await",
                        "reap", "reset", "start", "ready"}]
  /\ job \in [Caller -> {"query", "shutdown", "initialize"}]
  /\ myId \in [Caller -> 0..MaxId] /\ wrote \in [Caller -> 0..MaxProc]
  /\ victim \in [Caller -> 0..MaxProc] /\ slow \in BOOLEAN

\* While a request waits, only the read loop and the monitor of the process
\* it was written to send to its channels: neither a late answer of an earlier
\* process nor an earlier process's exit reaches it (readLoop's check, ids that
\* are never used twice, Shutdown's wait for the monitor).  A process that
\* outlives waitProcDone is excepted: its monitor may find it current just
\* before Start and reject what is pending just after.
OwnOutcome ==
  [][~slow => \A c \in Caller : pc[c] = "wait" =>
        \A o \in box'[myId[c]] \ box[myId[c]] : o.from = wrote[c]]_vars

\* Each request gets one outcome at most.  Its channels hold one message and
\* are read once, so a second send to one of them would stop the read loop, or
\* the monitor that holds pendingMu, for good.
OneOutcome == \A i \in Id : Cardinality(box[i]) <= 1

\* Restart starts the next process only after the monitor of the one before
\* has finished (client.go:1558-1561), unless a killed process took longer
\* than waitProcDone waits.
OneProcess == ~slow => \A g \in 1..(cur - 1) : mon[g] = "done"

\* A running server can be written to, unless a Shutdown is closing it: the
\* monitor of an earlier process, however late, does not cut it off.
Connected == proc[cur] = "running" /\ stdin # cur => \E r \in Restarter : pc[r] = "await"

Answering(i) == \E g \in Process : hand[g] = [id |-> i, at |-> "taken"]
Hangs(c) == /\ pc[c] = "wait" /\ mon[wrote[c]] = "done"
            /\ box[myId[c]] = {} /\ ~Answering(myId[c])

\* Once the exit of a process has been handled no request it received waits
\* for a timer: each has its answer or the exit error.  The exceptions are a
\* request that Restart dropped from pending before it was written, and a
\* process that outlived its kill.
FailFast == slow \/ \A c \in Caller : Hangs(c) => lost[myId[c]] \in 1..(wrote[c] - 1)

\* docs/architecture/architecture.md:756 of a server's exit, without exceptions
\* other than a late kill: "All callers fail fast rather than hanging until timeout."
AllCallersFailFast == slow \/ \A c \in Caller : ~Hangs(c)

=============================================================================
