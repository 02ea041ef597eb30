--------------------------- MODULE LspClientProofs ---------------------------
(***************************************************************************)
(* Proofs about LspClient for any number of callers, requests and          *)
(* processes.  First the requests: the variables keep their types, and no  *)
(* request gets two outcomes, by an invariant that follows a request's     *)
(* channel from `pending` through the hand of one read loop to its box.    *)
(* Then the processes: a running one can be written to whatever the        *)
(* restarters do, and, with one restarter, one process runs at a time, a   *)
(* request's outcome comes from the process that received it, and nobody   *)
(* waits for a process whose exit has been handled.                        *)
(***************************************************************************)
EXTENDS LspClient, FiniteSetTheorems, TLAPS

\* A caller between registration and return has a registered id.
HasId == \A c \in Caller : pc[c] \in {"write", "wait"} => myId[c] \in 1..nextID

Held(g, i) == hand[g].at = "taken" /\ hand[g].id = i

\* The channel of a request is in one place: still in pending, or taken by
\* one read loop, or already sent to; ids not given out are nowhere.
InPending == \A i \in pending : box[i] = {} /\ \A g \in Process : ~Held(g, i)
InHand ==
  \A g \in Process : hand[g].at = "taken" =>
    /\ hand[g].id \in 1..nextID /\ box[hand[g].id] = {}
    /\ \A h \in Process : Held(h, hand[g].id) => h = g
InBox == \A i \in Id : /\ i > nextID => box[i] = {}
                       /\ \A o1, o2 \in box[i] : o1 = o2

IInv == HasId /\ InPending /\ InHand /\ InBox

-----------------------------------------------------------------------------
\* The type invariant and IInv hold at the start.
LEMMA InitHolds == Init => TypeOK /\ IInv
<1> SUFFICES ASSUME Init PROVE TypeOK /\ IInv
  OBVIOUS
<1>1. TypeOK
  <2>1. nextID \in 0..MaxId /\ pending \subseteq 1..nextID
    BY BoundsAreNat DEF Init
  <2>8. cur \in Process BY BoundsAreNat DEF Init, Process
  <2>9. stdin \in {0, cur} /\ initialized \in BOOLEAN /\ slow \in BOOLEAN
    BY DEF Init
  <2>2. box \in [Id -> SUBSET Outcome] /\ lost \in [Id -> 0..MaxProc]
    BY BoundsAreNat DEF Init
  <2>3. proc \in [Process -> {"unborn", "running", "dead"}]
        /\ mon \in [Process -> {"waiting", "rejecting", "done"}]
    BY DEF Init
  <2>4. toProc \in [Process -> SUBSET Id] /\ fromProc \in [Process -> SUBSET Id]
    BY DEF Init
  <2>5. hand \in [Process -> [id: 0..MaxId, at: {"free", "read", "taken", "stopped"}]]
    BY BoundsAreNat DEF Init, NoHand
  <2>6. pc \in [Caller -> {"idle", "register", "write", "wait", "close", "kill", "await",
                           "reap", "reset", "start", "ready"}]
        /\ job \in [Caller -> {"query", "shutdown", "initialize"}]
    BY DEF Init
  <2>7. myId \in [Caller -> 0..MaxId] /\ wrote \in [Caller -> 0..MaxProc]
        /\ victim \in [Caller -> 0..MaxProc]
    BY BoundsAreNat DEF Init
  <2> QED BY <2>1, <2>2, <2>3, <2>4, <2>5, <2>6, <2>7, <2>8, <2>9 DEF TypeOK
<1>2. IInv
  BY BoundsAreNat DEF Init, IInv, HasId, InPending, InHand, InBox, Held, NoHand, Process, Id
<1> QED BY <1>1, <1>2

\* A step that sends no request and moves no answer between pending, the read
\* loops and the boxes keeps IInv when callers only leave write and wait.
LEMMA Frame ==
  ASSUME IInv, UNCHANGED <<nextID, box, hand>>, pending' \subseteq pending,
         \A c \in Caller : pc'[c] \in {"write", "wait"} =>
                           pc[c] \in {"write", "wait"} /\ myId'[c] = myId[c]
  PROVE  IInv'
BY DEF IInv, HasId, InPending, InHand, InBox, Held

\* Where a returning call goes.
LEMMA ReturnType ==
  ASSUME TypeOK, NEW c \in Caller, NEW ok \in BOOLEAN, Return(c, ok)
  PROVE  /\ pc' \in [Caller -> {"idle", "register", "write", "wait", "close", "kill",
                                "await", "reap", "reset", "start", "ready"}]
         /\ myId' \in [Caller -> 0..MaxId] /\ wrote' \in [Caller -> 0..MaxProc]
         /\ \A d \in Caller : pc'[d] \in {"write", "wait"} =>
                              pc[d] \in {"write", "wait"} /\ myId'[d] = myId[d]
<1>1. AfterReturn(job[c], ok) \in {"idle", "close", "kill", "ready"}
  BY DEF TypeOK, AfterReturn
<1> QED BY <1>1, BoundsAreNat DEF Return, TypeOK

-----------------------------------------------------------------------------
\* Each step of a caller keeps both.
LEMMA CallerKeeps ==
  ASSUME TypeOK, IInv, NEW c \in Caller, CallerStep(c)
  PROVE  TypeOK' /\ IInv'
<1> USE BoundsAreNat DEF requestVars, clientVars, processVars, pipeVars, shutVars
<1>1. CASE Call(c) \/ BeginRestart(c)
  <2>1. TypeOK' BY <1>1 DEF Call, BeginRestart, TypeOK
  <2>2. IInv' BY <1>1, Frame DEF Call, BeginRestart, TypeOK
  <2> QED BY <2>1, <2>2
<1>2. CASE Register(c)
  <2>1. nextID' = nextID + 1 /\ nextID' \in 1..MaxId
    BY <1>2 DEF Register, TypeOK
  <2>2. TypeOK' BY <1>2, <2>1 DEF Register, TypeOK
  <2>3. HasId' BY <1>2, <2>1 DEF Register, TypeOK, IInv, HasId
  <2>4. InPending' BY <1>2, <2>1 DEF Register, TypeOK, IInv, InPending, InHand, InBox, Held, Id
  <2>5. InHand' BY <1>2, <2>1 DEF Register, TypeOK, IInv, InHand, Held
  <2>6. InBox' BY <1>2, <2>1 DEF Register, TypeOK, IInv, InBox, Id
  <2> QED BY <2>2, <2>3, <2>4, <2>5, <2>6 DEF IInv
<1>3. CASE Write(c)
  <2>1. myId[c] \in Id BY <1>3 DEF Write, IInv, HasId, TypeOK, Id
  <2>2. stdin \in Process BY <1>3 DEF Write, TypeOK
  <2>3. TypeOK' BY <1>3, <2>1, <2>2 DEF Write, TypeOK, Process
  <2>4. IInv' BY <1>3, Frame DEF Write, TypeOK
  <2> QED BY <2>3, <2>4
<1>4. CASE WriteFails(c) \/ GiveUp(c)
  <2>1. Return(c, FALSE) /\ pending' \subseteq pending
        /\ UNCHANGED <<nextID, box, lost, cur, stdin, initialized, proc, mon,
                       toProc, fromProc, hand, job, victim, slow>>
    BY <1>4 DEF WriteFails, GiveUp
  <2>2. TypeOK' BY <2>1, ReturnType DEF TypeOK
  <2>3. IInv' BY <2>1, ReturnType, Frame
  <2> QED BY <2>2, <2>3
<1>5. CASE Receive(c)
  <2>1. PICK ok \in BOOLEAN : Return(c, ok) BY <1>5 DEF Receive
  <2>2. UNCHANGED <<nextID, pending, box, lost, cur, stdin, initialized, proc, mon,
                    toProc, fromProc, hand, job, victim, slow>>
    BY <1>5 DEF Receive
  <2>3. TypeOK' BY <2>1, <2>2, ReturnType DEF TypeOK
  <2>4. IInv' BY <2>1, <2>2, ReturnType, Frame
  <2> QED BY <2>3, <2>4
<1>6. CASE CloseStdin(c) \/ Reaped(c) \/ ReapTimeout(c) \/ StartFails(c) \/ Ready(c)
  <2>1. TypeOK'
    <3>1. CASE CloseStdin(c)
      <4>1. victim' \in [Caller -> 0..MaxProc] /\ stdin' \in {0, cur'}
        BY <3>1 DEF CloseStdin, TypeOK, Process
      <4>2. pc' \in [Caller -> {"idle", "register", "write", "wait", "close", "kill",
                               "await", "reap", "reset", "start", "ready"}]
        BY <3>1 DEF CloseStdin, TypeOK
      <4> QED BY <3>1, <4>1, <4>2 DEF CloseStdin, TypeOK
    <3>2. CASE Reaped(c) BY <3>2 DEF Reaped, TypeOK
    <3>3. CASE ReapTimeout(c) BY <3>3 DEF ReapTimeout, TypeOK
    <3>4. CASE StartFails(c) BY <3>4 DEF StartFails, TypeOK
    <3>5. CASE Ready(c) BY <3>5 DEF Ready, TypeOK
    <3> QED BY <1>6, <3>1, <3>2, <3>3, <3>4, <3>5
  <2>2. IInv'
    BY <1>6, Frame DEF CloseStdin, Reaped, ReapTimeout, StartFails, Ready, TypeOK
  <2> QED BY <2>1, <2>2
<1>7. CASE KillProcess(c) \/ KillLate(c)
  <2>1. TypeOK'
    <3>1. CASE KillProcess(c)
      <4>1. /\ proc' \in [Process -> {"unborn", "running", "dead"}]
            /\ toProc' \in [Process -> SUBSET Id]
        BY <3>1 DEF KillProcess, Kill, TypeOK
      <4>2. /\ victim' \in [Caller -> 0..MaxProc] /\ stdin' \in {0, cur'}
            /\ pc' \in [Caller -> {"idle", "register", "write", "wait", "close", "kill",
                                  "await", "reap", "reset", "start", "ready"}]
        BY <3>1 DEF KillProcess, TypeOK, Process
      <4> QED BY <3>1, <4>1, <4>2 DEF KillProcess, TypeOK
    <3>2. CASE KillLate(c) BY <3>2 DEF KillLate, Kill, TypeOK
    <3> QED BY <1>7, <3>1, <3>2
  <2>2. IInv' BY <1>7, Frame DEF KillProcess, KillLate, TypeOK
  <2> QED BY <2>1, <2>2
<1>8. CASE ResetPending(c)
  <2>1. lost' \in [Id -> 0..MaxProc] BY <1>8 DEF ResetPending, TypeOK, Process
  <2>3. TypeOK' BY <1>8, <2>1 DEF ResetPending, TypeOK
  <2>2. IInv' BY <1>8, Frame DEF ResetPending, TypeOK
  <2> QED BY <2>3, <2>2
<1>9. CASE Start(c)
  <2>3. cur' \in Process /\ stdin' \in {0, cur'} BY <1>9 DEF Start, TypeOK, Process
  <2>4. /\ proc' \in [Process -> {"unborn", "running", "dead"}]
        /\ job' \in [Caller -> {"query", "shutdown", "initialize"}]
        /\ pc' \in [Caller -> {"idle", "register", "write", "wait", "close", "kill",
                              "await", "reap", "reset", "start", "ready"}]
    BY <1>9 DEF Start, TypeOK
  <2>1. TypeOK' BY <1>9, <2>3, <2>4 DEF Start, TypeOK
  <2>2. IInv' BY <1>9, Frame DEF Start, TypeOK
  <2> QED BY <2>1, <2>2
<1> QED BY <1>1, <1>2, <1>3, <1>4, <1>5, <1>6, <1>7, <1>8, <1>9 DEF CallerStep

\* Each step of a process, its read loop or its monitor keeps both.
LEMMA ProcessKeeps ==
  ASSUME TypeOK, IInv, NEW g \in Process, ProcessStep(g)
  PROVE  TypeOK' /\ IInv'
<1> USE BoundsAreNat DEF requestVars, clientVars, processVars, pipeVars, callerVars, shutVars
<1>1. CASE \E i \in Id : Answer(g, i)
  <2>1. TypeOK' BY <1>1 DEF Answer, TypeOK
  <2>2. IInv' BY <1>1, Frame DEF Answer
  <2> QED BY <2>1, <2>2
<1>2. CASE \E i \in Id : ReadMessage(g, i)
  <2>1. PICK i \in Id : ReadMessage(g, i) BY <1>2
  <2>2. /\ hand[g].at = "free" /\ hand'[g].at \in {"read", "stopped"}
        /\ \A h \in Process \ {g} : hand'[h] = hand[h]
    BY <2>1 DEF ReadMessage, TypeOK
  <2>7. /\ fromProc' \in [Process -> SUBSET Id]
        /\ hand' \in [Process -> [id: 0..MaxId, at: {"free", "read", "taken", "stopped"}]]
    BY <2>1 DEF ReadMessage, TypeOK, Id
  <2>3. TypeOK' BY <2>1, <2>7 DEF ReadMessage, TypeOK
  <2>4. HasId' /\ InBox' BY <2>1 DEF ReadMessage, IInv, HasId, InBox
  <2>5. InPending' BY <2>1, <2>2 DEF ReadMessage, IInv, InPending, Held
  <2>6. InHand' BY <2>1, <2>2 DEF ReadMessage, IInv, InHand, Held
  <2> QED BY <2>3, <2>4, <2>5, <2>6 DEF IInv
<1>3. CASE Die(g)
  <2>1. TypeOK' BY <1>3 DEF Die, Kill, TypeOK
  <2>2. IInv' BY <1>3, Frame DEF Die
  <2> QED BY <2>1, <2>2
<1>4. CASE Take(g)
  <2> DEFINE i == hand[g].id
  <2>1. /\ hand[g].at = "read" /\ pending' = pending \ {i}
        /\ \A h \in Process \ {g} : hand'[h] = hand[h]
        /\ IF i \in pending THEN hand'[g].at = "taken" /\ hand'[g].id = i
                            ELSE hand'[g].at = "free"
    BY <1>4 DEF Take, TypeOK, NoHand
  <2>2. TypeOK' BY <1>4 DEF Take, TypeOK, NoHand
  <2>3. HasId' /\ InBox' BY <1>4 DEF Take, IInv, HasId, InBox
  <2>4. InPending' BY <1>4, <2>1 DEF Take, IInv, InPending, Held
  <2>5. InHand'
    <3> SUFFICES ASSUME NEW h \in Process, hand'[h].at = "taken"
                 PROVE  /\ hand'[h].id \in 1..nextID /\ box[hand'[h].id] = {}
                        /\ \A k \in Process :
                             hand'[k].at = "taken" /\ hand'[k].id = hand'[h].id => k = h
      BY <1>4 DEF Take, InHand, Held
    <3>1. CASE h = g
      <4>1. i \in pending /\ hand'[h].id = i BY <2>1, <3>1
      <4>2. i \in 1..nextID /\ box[i] = {} BY <4>1 DEF TypeOK, IInv, InPending
      <4>3. \A k \in Process : ~(hand[k].at = "taken" /\ hand[k].id = i)
        BY <4>1 DEF IInv, InPending, Held
      <4> QED BY <2>1, <3>1, <4>1, <4>2, <4>3
    <3>2. CASE h # g
      <4>1. hand'[h] = hand[h] BY <2>1, <3>2
      <4>2. ~(hand'[g].at = "taken" /\ hand'[g].id = hand[h].id)
        BY <2>1, <4>1 DEF IInv, InPending, Held
      <4> QED BY <2>1, <4>1, <4>2 DEF IInv, InHand, Held
    <3> QED BY <3>1, <3>2
  <2> QED BY <2>2, <2>3, <2>4, <2>5 DEF IInv
<1>5. CASE Deliver(g)
  <2> DEFINE i == hand[g].id
             o == [kind |-> "answer", from |-> g]
  <2>1. i \in Id /\ box[i] = {} /\ o \in Outcome /\ i \in 1..nextID
    BY <1>5 DEF Deliver, IInv, InHand, TypeOK, Id, Outcome
  <2>2. /\ box'[i] = {o} /\ \A j \in Id \ {i} : box'[j] = box[j]
        /\ hand'[g].at = "free" /\ \A h \in Process \ {g} : hand'[h] = hand[h]
    BY <1>5, <2>1 DEF Deliver, TypeOK, NoHand
  <2>3. TypeOK' BY <1>5, <2>1 DEF Deliver, TypeOK, NoHand
  <2>4. HasId' BY <1>5 DEF Deliver, IInv, HasId
  <2>5. InBox' BY <1>5, <2>1, <2>2 DEF Deliver, TypeOK, IInv, InBox
  <2>6. InPending' BY <1>5, <2>1, <2>2 DEF Deliver, TypeOK, IInv, InPending, Held, Id
  <2>7. InHand' BY <1>5, <2>1, <2>2 DEF Deliver, TypeOK, IInv, InHand, Held, Id
  <2> QED BY <2>3, <2>4, <2>5, <2>6, <2>7 DEF IInv
<1>6. CASE MonitorExit(g)
  <2>1. TypeOK' BY <1>6 DEF MonitorExit, TypeOK
  <2>2. IInv' BY <1>6, Frame DEF MonitorExit
  <2> QED BY <2>1, <2>2
<1>7. CASE RejectPending(g)
  <2> DEFINE o == [kind |-> "exit", from |-> g]
  <2>1. o \in Outcome /\ pending \subseteq Id BY DEF Outcome, TypeOK, Id
  <2>2. \A i \in Id : box'[i] = IF i \in pending THEN box[i] \cup {o} ELSE box[i]
    BY <1>7 DEF RejectPending
  <2>3. \A i \in pending : box'[i] = {o} BY <2>1, <2>2 DEF IInv, InPending
  <2>4. box' \in [Id -> SUBSET Outcome] BY <1>7, <2>1 DEF RejectPending, TypeOK
  <2>5. TypeOK' BY <1>7, <2>4 DEF RejectPending, TypeOK
  <2>6. HasId' BY <1>7 DEF RejectPending, IInv, HasId
  <2>7. InPending' BY <1>7 DEF RejectPending, InPending
  <2>8. InHand' BY <1>7, <2>2 DEF RejectPending, TypeOK, IInv, InHand, InPending, Held, Id
  <2>9. InBox'
    <3> SUFFICES ASSUME NEW i \in Id
                 PROVE  /\ i > nextID => box'[i] = {}
                        /\ \A o1, o2 \in box'[i] : o1 = o2
      BY <1>7 DEF RejectPending, InBox
    <3>1. CASE i \in pending
      <4>1. ~(i > nextID) BY <3>1 DEF TypeOK
      <4> QED BY <3>1, <4>1, <2>3
    <3>2. CASE i \notin pending BY <3>2, <2>2 DEF IInv, InBox
    <3> QED BY <3>1, <3>2
  <2> QED BY <2>5, <2>6, <2>7, <2>8, <2>9 DEF IInv
<1> QED BY <1>1, <1>2, <1>3, <1>4, <1>5, <1>6, <1>7 DEF ProcessStep

\* Stuttering changes nothing.
LEMMA StutterKeeps == ASSUME TypeOK, IInv, UNCHANGED vars PROVE TypeOK' /\ IInv'
<1> USE DEF vars, requestVars, clientVars, processVars, pipeVars, callerVars, shutVars
<1>1. TypeOK' BY DEF TypeOK
<1>2. IInv' BY Frame
<1> QED BY <1>1, <1>2

-----------------------------------------------------------------------------
\* Every variable of the client keeps its type, and a request's channel is in
\* one place, in every state of every behaviour.
THEOREM ClientTypeCorrect == Spec => [](TypeOK /\ IInv)
<1>1. TypeOK /\ IInv /\ [Next]_vars => (TypeOK /\ IInv)'
  BY CallerKeeps, ProcessKeeps, StutterKeeps DEF Next
<1> QED BY <1>1, InitHolds, PTL DEF Spec

\* sendRequest's channels receive at most one of an answer, an error and the
\* exit of the process, however many calls, restarts and crashes there are.
THEOREM OneOutcomeEach == Spec => []OneOutcome
<1>1. TypeOK /\ IInv => OneOutcome
  <2> SUFFICES ASSUME TypeOK, IInv, NEW i \in Id PROVE Cardinality(box[i]) <= 1
    BY DEF OneOutcome
  <2>1. CASE box[i] = {}
    BY <2>1, FS_EmptySet
  <2>2. CASE box[i] # {}
    <3>1. PICK o : o \in box[i] BY <2>2
    <3>2. box[i] = {o} BY <3>1 DEF IInv, InBox
    <3> QED BY <3>2, FS_Singleton
  <2> QED BY <2>1, <2>2
<1> QED BY <1>1, ClientTypeCorrect, PTL
------------------------------------------------------------------------------
(* The processes, and the requests that wait on them *)

Sending(c) == pc[c] \in {"write", "wait"}

\* A monitor moves only when its process is dead, and later processes are
\* not started yet, nor shut down.
Lives ==
  /\ \A g \in Process : mon[g] # "waiting" => proc[g] = "dead"
  /\ \A g \in Process : g > cur => proc[g] = "unborn"
  /\ \A c \in Caller : victim[c] <= cur

\* A running process without a stdin is being shut down by a restarter.
Closing ==
  proc[cur] = "running" /\ stdin # cur =>
     \E r \in Restarter : pc[r] = "await" /\ victim[r] = cur

\* Only restarters shut down and start.
Roles == \A q \in Query : /\ job[q] = "query"
                          /\ pc[q] \in {"idle", "register", "write", "wait"}

LifeInv == Lives /\ Closing /\ Roles

-----------------------------------------------------------------------------
LEMMA LifeInit == Init => LifeInv
BY BoundsAreNat, CallersApart DEF Init, LifeInv, Lives, Closing, Roles, Process, Caller

\* Whoever is past a request of Restart is a restarter.
LEMMA RestartersOnly ==
  ASSUME Roles, NEW c \in Caller, pc[c] \notin {"idle", "register", "write", "wait"}
  PROVE  c \in Restarter
BY DEF Roles, Caller

\* A returning query is idle again.
LEMMA ReturnRole ==
  ASSUME TypeOK, Roles, NEW c \in Caller, NEW ok \in BOOLEAN, Return(c, ok),
         job' = job
  PROVE  /\ Roles'
         /\ pc'[c] \in {"idle", "close", "kill", "ready"}
         /\ \A d \in Caller \ {c} : pc'[d] = pc[d] /\ myId'[d] = myId[d] /\ wrote'[d] = wrote[d]
<1>1. /\ AfterReturn(job[c], ok) \in {"idle", "close", "kill", "ready"}
      /\ job[c] = "query" => AfterReturn(job[c], ok) = "idle"
  BY DEF TypeOK, AfterReturn
<1> QED BY <1>1 DEF Return, TypeOK, Roles, Caller

LEMMA LifeCaller ==
  ASSUME TypeOK, LifeInv, NEW c \in Caller, CallerStep(c)
  PROVE  LifeInv'
<1> USE BoundsAreNat, CallersApart DEF requestVars, clientVars, processVars, pipeVars, shutVars
<1>1. CASE Call(c) \/ BeginRestart(c) \/ Register(c)
  <2>1. UNCHANGED <<cur, stdin, proc, mon, victim>>
        /\ \A d \in Caller : pc[d] = "await" => pc'[d] = "await"
    BY <1>1 DEF Call, BeginRestart, Register, TypeOK
  <2>2. Lives' /\ Closing' BY <2>1 DEF LifeInv, Lives, Closing, Caller
  <2>3. Roles' BY <1>1 DEF Call, BeginRestart, Register, TypeOK, LifeInv, Roles, Caller
  <2> QED BY <2>2, <2>3 DEF LifeInv
<1>2. CASE Write(c)
  <2>1. Lives' /\ Closing' BY <1>2 DEF Write, TypeOK, LifeInv, Lives, Closing, Caller
  <2>2. Roles' BY <1>2 DEF Write, TypeOK, LifeInv, Roles, Caller
  <2> QED BY <2>1, <2>2 DEF LifeInv
<1>3. CASE WriteFails(c) \/ Receive(c) \/ GiveUp(c)
  <2>1. PICK ok \in BOOLEAN : Return(c, ok)
    BY <1>3 DEF WriteFails, Receive, GiveUp
  <2>2. pc[c] # "await" /\ UNCHANGED <<cur, stdin, proc, mon, victim, job>>
    BY <1>3 DEF WriteFails, Receive, GiveUp
  <2>3. Roles' BY <2>1, <2>2, ReturnRole DEF LifeInv
  <2>4. \A d \in Caller : pc[d] = "await" => pc'[d] = "await"
    BY <2>1, <2>2, ReturnRole DEF LifeInv
  <2>5. Lives' /\ Closing' BY <2>2, <2>4 DEF LifeInv, Lives, Closing, Caller
  <2> QED BY <2>3, <2>5 DEF LifeInv
<1>4. CASE CloseStdin(c)
  <2>1. c \in Restarter BY <1>4, RestartersOnly DEF CloseStdin, LifeInv
  <2>2. pc'[c] = "await" /\ victim'[c] = cur'
    BY <1>4 DEF CloseStdin, TypeOK
  <2>3. Lives' BY <1>4 DEF CloseStdin, LifeInv, Lives, TypeOK, Process
  <2>4. Closing' BY <2>1, <2>2 DEF Closing
  <2>5. Roles' BY <1>4, <2>1 DEF CloseStdin, TypeOK, LifeInv, Roles, Caller
  <2> QED BY <2>3, <2>4, <2>5 DEF LifeInv
<1>5. CASE KillProcess(c)
  <2>1. c \in Restarter BY <1>5, RestartersOnly DEF KillProcess, LifeInv
  <2>3. Lives' BY <1>5 DEF KillProcess, Kill, LifeInv, Lives, TypeOK, Process
  <2>4. Closing' BY <1>5 DEF KillProcess, Kill, Closing, TypeOK
  <2>5. Roles' BY <1>5, <2>1 DEF KillProcess, TypeOK, LifeInv, Roles, Caller
  <2> QED BY <2>3, <2>4, <2>5 DEF LifeInv
<1>6. CASE KillLate(c)
  <2>1. c \in Restarter BY <1>6, RestartersOnly DEF KillLate, LifeInv
  <2>3. Closing'
    <3>1. CASE victim[c] = cur BY <1>6, <3>1 DEF KillLate, Kill, Closing, TypeOK
    <3>2. CASE victim[c] # cur BY <1>6, <3>2 DEF KillLate, Kill, LifeInv, Closing, TypeOK, Caller
    <3> QED BY <3>1, <3>2
  <2>4. Lives'
    <3>1. /\ cur' = cur /\ mon' = mon /\ victim' = victim
          /\ \A g \in Process : proc'[g] = IF g = victim[c] THEN "dead" ELSE proc[g]
      BY <1>6 DEF KillLate, Kill, TypeOK
    <3> QED BY <3>1, <1>6 DEF LifeInv, Lives, Process, TypeOK
  <2>5. Roles' BY <1>6, <2>1 DEF KillLate, TypeOK, LifeInv, Roles, Caller
  <2> QED BY <2>3, <2>4, <2>5 DEF LifeInv
<1>7. CASE Reaped(c) \/ ReapTimeout(c)
  <2>1. c \in Restarter BY <1>7, RestartersOnly DEF Reaped, ReapTimeout, LifeInv
  <2>2. Lives'
    <3>1. UNCHANGED <<cur, proc, mon>> /\ \A d \in Caller : victim'[d] \in {0, victim[d]}
      BY <1>7 DEF Reaped, ReapTimeout, TypeOK
    <3>2. \A d \in Caller : victim'[d] <= cur'
      <4>1. cur \in Nat /\ cur' = cur /\ \A d \in Caller : victim[d] <= cur
        BY <3>1 DEF LifeInv, Lives, TypeOK, Process
      <4>2. 0 <= cur BY <4>1
      <4> QED BY <3>1, <4>1, <4>2
    <3> QED BY <3>1, <3>2 DEF LifeInv, Lives
  <2>3. Closing'
    BY <1>7 DEF Reaped, ReapTimeout, LifeInv, Lives, Closing, TypeOK, Caller
  <2>4. Roles' BY <1>7, <2>1 DEF Reaped, ReapTimeout, TypeOK, LifeInv, Roles, Caller
  <2> QED BY <2>2, <2>3, <2>4 DEF LifeInv
<1>8. CASE ResetPending(c) \/ StartFails(c) \/ Ready(c)
  <2>1. UNCHANGED <<cur, stdin, proc, mon, victim, job>>
        /\ \A d \in Caller : pc[d] = "await" => pc'[d] = "await"
    BY <1>8 DEF ResetPending, StartFails, Ready, TypeOK
  <2>2. Lives' /\ Closing' BY <2>1 DEF LifeInv, Lives, Closing, Caller
  <2>3. c \in Restarter
    BY <1>8, RestartersOnly DEF ResetPending, StartFails, Ready, LifeInv
  <2>4. Roles' BY <1>8, <2>3 DEF ResetPending, StartFails, Ready, TypeOK, LifeInv, Roles, Caller
  <2> QED BY <2>2, <2>4 DEF LifeInv
<1>9. CASE Start(c)
  <2>1. c \in Restarter BY <1>9, RestartersOnly DEF Start, LifeInv
  <2>2. stdin' = cur' BY <1>9 DEF Start
  <2>3. Lives' BY <1>9 DEF Start, LifeInv, Lives, TypeOK, Process
  <2>4. Roles' BY <1>9, <2>1 DEF Start, TypeOK, LifeInv, Roles, Caller
  <2> QED BY <2>2, <2>3, <2>4 DEF LifeInv, Closing
<1> QED BY <1>1, <1>2, <1>3, <1>4, <1>5, <1>6, <1>7, <1>8, <1>9 DEF CallerStep

LEMMA LifeProcess ==
  ASSUME TypeOK, LifeInv, NEW g \in Process, ProcessStep(g)
  PROVE  LifeInv'
<1> USE BoundsAreNat DEF requestVars, clientVars, processVars, pipeVars, callerVars, shutVars
<1>1. CASE \E i \in Id : Answer(g, i) \/ ReadMessage(g, i)
  BY <1>1 DEF Answer, ReadMessage, LifeInv, Lives, Closing, Roles
<1>2. CASE Die(g)
  <2>1. Lives' BY <1>2 DEF Die, Kill, LifeInv, Lives, TypeOK, Process
  <2>2. Closing' /\ Roles' BY <1>2 DEF Die, Kill, LifeInv, Closing, Roles, TypeOK
  <2> QED BY <2>1, <2>2 DEF LifeInv
<1>3. CASE Take(g) \/ Deliver(g)
  BY <1>3 DEF Take, Deliver, LifeInv, Lives, Closing, Roles
<1>4. CASE MonitorExit(g)
  BY <1>4 DEF MonitorExit, LifeInv, Lives, Closing, Roles, TypeOK
<1>5. CASE RejectPending(g)
  BY <1>5 DEF RejectPending, LifeInv, Lives, Closing, Roles, TypeOK
<1> QED BY <1>1, <1>2, <1>3, <1>4, <1>5 DEF ProcessStep

LEMMA LifeHolds == Spec => []LifeInv
<1>1. TypeOK /\ LifeInv /\ UNCHANGED vars => LifeInv'
  BY DEF vars, requestVars, clientVars, processVars, pipeVars, callerVars, shutVars,
         LifeInv, Lives, Closing, Roles
<1>2. TypeOK /\ LifeInv /\ [Next]_vars => LifeInv'
  BY <1>1, LifeCaller, LifeProcess DEF Next
<1> QED BY <1>2, LifeInit, ClientTypeCorrect, PTL DEF Spec

\* A running server can be written to unless a Shutdown is closing it, with
\* any number of restarters: the exit monitor of an earlier process leaves
\* stdin alone (client.go:1558).
THEOREM AlwaysConnected == Spec => []Connected
<1>1. LifeInv => Connected BY DEF LifeInv, Closing, Connected
<1> QED BY <1>1, LifeHolds, PTL

-----------------------------------------------------------------------------
\* A read loop or a pipe of g still holds request i or its answer.
Carries(g, i) == \/ i \in toProc[g] \cup fromProc[g]
                 \/ hand[g].at \in {"read", "taken"} /\ hand[g].id = i

\* Two calls never share an id, and what a process holds of a waiting call is
\* held by the process the call wrote to.
Apart == \A c, d \in Caller : Sending(c) /\ Sending(d) /\ myId[c] = myId[d] => c = d
Routed ==
  \A g \in Process, i \in Id : Carries(g, i) =>
     /\ i <= nextID
     /\ \A c \in Caller : Sending(c) /\ myId[c] = i => pc[c] = "wait" /\ wrote[c] = g
Written == \A c \in Caller : pc[c] = "wait" => wrote[c] \in 1..cur

RouteInv == Apart /\ Routed /\ Written

LEMMA RouteInit == Init => RouteInv
BY BoundsAreNat DEF Init, RouteInv, Apart, Routed, Written, Carries, Sending, NoHand

\* What neither sends nor starts to send, and puts no new request into a pipe,
\* keeps RouteInv.
LEMMA RouteFrame ==
  ASSUME TypeOK, RouteInv, nextID' = nextID, cur' \in Process, cur <= cur',
         \A g \in Process, i \in Id : Carries(g, i)' => Carries(g, i),
         \A c \in Caller : Sending(c)' =>
            Sending(c) /\ pc'[c] = pc[c] /\ myId'[c] = myId[c] /\ wrote'[c] = wrote[c]
  PROVE  RouteInv'
<1>1. Apart' BY DEF RouteInv, Apart
<1>2. Routed' BY DEF RouteInv, Routed
<1>3. Written'
  <2> SUFFICES ASSUME NEW c \in Caller, pc'[c] = "wait" PROVE wrote'[c] \in 1..cur'
    BY DEF Written
  <2>1. pc[c] = "wait" /\ wrote'[c] = wrote[c] BY DEF Sending
  <2>2. wrote[c] \in 1..cur BY <2>1 DEF RouteInv, Written
  <2> QED BY <2>1, <2>2 DEF TypeOK, Process
<1> QED BY <1>1, <1>2, <1>3 DEF RouteInv

LEMMA RouteCaller ==
  ASSUME TypeOK, IInv, LifeInv, RouteInv, NEW c \in Caller, CallerStep(c)
  PROVE  RouteInv'
<1> USE BoundsAreNat DEF requestVars, clientVars, processVars, pipeVars, shutVars
<1>1. CASE Register(c)
  <2>1. /\ nextID' = nextID + 1 /\ myId'[c] = nextID' /\ nextID \in Nat
        /\ \A d \in Caller \ {c} : myId'[d] = myId[d] /\ pc'[d] = pc[d]
        /\ wrote' = wrote /\ pc'[c] = "write" /\ cur' = cur
        /\ UNCHANGED <<toProc, fromProc, hand>>
    BY <1>1 DEF Register, TypeOK
  <2>2. \A d \in Caller : Sending(d) => myId[d] <= nextID /\ myId[d] \in Nat
    BY <2>1 DEF Sending, IInv, HasId
  <2>3. Apart' BY <2>1, <2>2 DEF RouteInv, Apart, Sending
  <2>4. Routed'
    BY <2>1 DEF RouteInv, Routed, Carries, Sending, Id
  <2>5. Written' BY <2>1 DEF RouteInv, Written
  <2> QED BY <2>3, <2>4, <2>5 DEF RouteInv
<1>2. CASE Write(c)
  <2>1. /\ stdin \in Process /\ stdin = cur /\ myId[c] \in Id /\ myId[c] <= nextID
    BY <1>2 DEF Write, TypeOK, IInv, HasId, Id
  <2>2. /\ pc[c] = "write" /\ pc'[c] = "wait" /\ wrote'[c] = stdin
        /\ \A d \in Caller \ {c} : pc'[d] = pc[d] /\ wrote'[d] = wrote[d]
        /\ UNCHANGED <<nextID, myId, cur, fromProc, hand>>
        /\ toProc'[stdin] = toProc[stdin] \cup {myId[c]}
        /\ \A g \in Process \ {stdin} : toProc'[g] = toProc[g]
    BY <1>2, <2>1 DEF Write, TypeOK
  <2>3. Apart' BY <2>2 DEF RouteInv, Apart, Sending
  <2>4. Routed'
    <3> SUFFICES ASSUME NEW g \in Process, NEW i \in Id, Carries(g, i)'
                 PROVE  /\ i <= nextID'
                        /\ \A d \in Caller : Sending(d)' /\ myId'[d] = i =>
                                             pc'[d] = "wait" /\ wrote'[d] = g
      BY DEF Routed
    <3>1. Carries(g, i) \/ (g = stdin /\ i = myId[c])
      BY <2>2 DEF Carries
    <3>2. CASE Carries(g, i)
      BY <2>2, <3>2 DEF RouteInv, Routed, Sending
    <3>3. CASE g = stdin /\ i = myId[c]
      BY <2>1, <2>2, <3>3 DEF RouteInv, Apart, Sending
    <3> QED BY <3>1, <3>2, <3>3
  <2>5. Written' BY <2>1, <2>2 DEF RouteInv, Written, Process
  <2> QED BY <2>3, <2>4, <2>5 DEF RouteInv
<1>3. CASE WriteFails(c) \/ Receive(c) \/ GiveUp(c)
  <2>1. PICK ok \in BOOLEAN : Return(c, ok)
    BY <1>3 DEF WriteFails, Receive, GiveUp
  <2>2. UNCHANGED <<nextID, cur, job, toProc, fromProc, hand>>
    BY <1>3 DEF WriteFails, Receive, GiveUp
  <2>3. \A d \in Caller : Sending(d)' =>
          Sending(d) /\ pc'[d] = pc[d] /\ myId'[d] = myId[d] /\ wrote'[d] = wrote[d]
    BY <2>1, <2>2, ReturnRole DEF LifeInv, Sending
  <2> QED BY <2>2, <2>3, RouteFrame DEF Carries, TypeOK, Process
<1>4. CASE \/ Call(c) \/ BeginRestart(c) \/ CloseStdin(c) \/ Reaped(c) \/ ReapTimeout(c)
           \/ ResetPending(c) \/ StartFails(c) \/ Ready(c)
  <2>1. /\ UNCHANGED <<nextID, cur, toProc, fromProc, hand, myId, wrote>>
        /\ \A d \in Caller : Sending(d)' => Sending(d) /\ pc'[d] = pc[d]
    BY <1>4 DEF Call, BeginRestart, CloseStdin, Reaped, ReapTimeout, ResetPending,
                StartFails, Ready, Sending, TypeOK
  <2> QED BY <2>1, RouteFrame DEF Carries, TypeOK, Process
<1>5. CASE Start(c)
  <2>1. /\ UNCHANGED <<nextID, toProc, fromProc, hand, myId, wrote>>
        /\ cur' \in Process /\ cur <= cur'
        /\ \A d \in Caller : Sending(d)' => Sending(d) /\ pc'[d] = pc[d]
    BY <1>5 DEF Start, Sending, TypeOK, Process
  <2> QED BY <2>1, RouteFrame DEF Carries
<1>6. CASE KillProcess(c) \/ KillLate(c)
  <2>1. /\ UNCHANGED <<nextID, cur, fromProc, hand, myId, wrote>>
        /\ \A d \in Caller : Sending(d)' => Sending(d) /\ pc'[d] = pc[d]
    BY <1>6 DEF KillProcess, KillLate, Sending, TypeOK
  <2>2. \A g \in Process : toProc'[g] \subseteq toProc[g]
    BY <1>6 DEF KillProcess, KillLate, Kill, TypeOK
  <2>3. \A g \in Process, i \in Id : Carries(g, i)' => Carries(g, i)
    BY <2>1, <2>2 DEF Carries
  <2>4. cur' \in Process /\ cur <= cur' BY <2>1 DEF TypeOK, Process
  <2> QED BY <2>1, <2>3, <2>4, RouteFrame
<1> QED BY <1>1, <1>2, <1>3, <1>4, <1>5, <1>6 DEF CallerStep

LEMMA RouteProcess ==
  ASSUME TypeOK, RouteInv, NEW g \in Process, ProcessStep(g)
  PROVE  RouteInv'
<1> USE DEF requestVars, clientVars, processVars, pipeVars, callerVars, shutVars
<1>1. /\ UNCHANGED <<nextID, cur, pc, myId, wrote>>
      /\ \A h \in Process \ {g} : /\ toProc'[h] = toProc[h] /\ fromProc'[h] = fromProc[h]
                                  /\ hand'[h] = hand[h]
      /\ \A i \in Id : Carries(g, i)' => Carries(g, i)
  <2>1. CASE \E i \in Id : Answer(g, i) BY <2>1 DEF Answer, Carries, TypeOK
  <2>2. CASE \E i \in Id : ReadMessage(g, i) BY <2>2 DEF ReadMessage, Carries, TypeOK
  <2>3. CASE Die(g) BY <2>3 DEF Die, Kill, Carries, TypeOK
  <2>4. CASE Take(g) BY <2>4 DEF Take, Carries, TypeOK, NoHand
  <2>5. CASE Deliver(g) BY <2>5 DEF Deliver, Carries, TypeOK, NoHand
  <2>6. CASE MonitorExit(g) BY <2>6 DEF MonitorExit, Carries, TypeOK
  <2>7. CASE RejectPending(g) BY <2>7 DEF RejectPending, Carries, TypeOK
  <2> QED BY <2>1, <2>2, <2>3, <2>4, <2>5, <2>6, <2>7 DEF ProcessStep
<1> QED BY <1>1, RouteFrame DEF Carries, Sending, TypeOK, Process

LEMMA RouteHolds == Spec => []RouteInv
<1>1. RouteInv /\ UNCHANGED vars => RouteInv'
  BY DEF vars, requestVars, clientVars, processVars, pipeVars, callerVars, shutVars,
         RouteInv, Apart, Routed, Written, Carries, Sending
<1>2. TypeOK /\ IInv /\ LifeInv /\ RouteInv /\ [Next]_vars => RouteInv'
  BY <1>1, RouteCaller, RouteProcess DEF Next
<1> QED BY <1>2, RouteInit, ClientTypeCorrect, LifeHolds, PTL DEF Spec

-----------------------------------------------------------------------------
(* What needs one restarter at a time.                                      *)
OneRestarter == \A r, s \in Restarter : r = s

\* A restarter shuts down the current process, and has seen the end of it
\* before it starts the next.
Victims == \A r \in Restarter : pc[r] \in {"await", "reap"} => victim[r] = cur
Gone == ~slow => \A r \in Restarter : pc[r] \in {"reset", "start"} => mon[cur] = "done"

AfterInv == Victims /\ Gone /\ OneProcess

LEMMA AfterInit == Init => AfterInv
BY BoundsAreNat, CallersApart DEF Init, AfterInv, Victims, Gone, OneProcess, Caller

LEMMA AfterCaller ==
  ASSUME OneRestarter, TypeOK, LifeInv, AfterInv, NEW c \in Caller, CallerStep(c)
  PROVE  AfterInv'
<1> USE BoundsAreNat, CallersApart DEF requestVars, clientVars, processVars, pipeVars, shutVars
<1>1. CASE Call(c) \/ BeginRestart(c) \/ Register(c) \/ Write(c) \/ StartFails(c) \/ Ready(c)
  <2>1. /\ UNCHANGED <<cur, mon, victim, slow>>
        /\ \A d \in Caller : pc'[d] \in {"await", "reap", "reset", "start"} => pc'[d] = pc[d]
    BY <1>1 DEF Call, BeginRestart, Register, Write, StartFails, Ready, TypeOK
  <2> QED BY <2>1 DEF AfterInv, Victims, Gone, OneProcess, Caller
<1>2. CASE WriteFails(c) \/ Receive(c) \/ GiveUp(c)
  <2>1. PICK ok \in BOOLEAN : Return(c, ok)
    BY <1>2 DEF WriteFails, Receive, GiveUp
  <2>2. UNCHANGED <<cur, mon, victim, slow, job>>
    BY <1>2 DEF WriteFails, Receive, GiveUp
  <2>3. \A d \in Caller : pc'[d] \in {"await", "reap", "reset", "start"} => pc'[d] = pc[d]
    BY <2>1, <2>2, ReturnRole DEF LifeInv
  <2> QED BY <2>2, <2>3 DEF AfterInv, Victims, Gone, OneProcess, Caller
<1>3. CASE CloseStdin(c) \/ KillProcess(c)
  <2>1. /\ UNCHANGED <<cur, mon, slow>> /\ victim'[c] = cur
        /\ pc'[c] \in {"await", "reap"}
        /\ \A d \in Caller \ {c} : pc'[d] = pc[d] /\ victim'[d] = victim[d]
    BY <1>3 DEF CloseStdin, KillProcess, TypeOK
  <2> QED BY <2>1 DEF AfterInv, Victims, Gone, OneProcess, Caller
<1>4. CASE KillLate(c)
  <2>1. /\ UNCHANGED <<cur, mon, slow, victim>> /\ pc[c] = "await" /\ pc'[c] = "reap"
        /\ \A d \in Caller \ {c} : pc'[d] = pc[d]
    BY <1>4 DEF KillLate, TypeOK
  <2> QED BY <2>1 DEF AfterInv, Victims, Gone, OneProcess, Caller
<1>5. CASE Reaped(c)
  <2>1. c \in Restarter BY <1>5, RestartersOnly DEF Reaped, LifeInv
  <2>2. /\ UNCHANGED <<cur, mon, slow>> /\ pc'[c] = "reset" /\ pc[c] \in {"await", "reap"}
        /\ mon[victim[c]] = "done"
        /\ \A d \in Caller \ {c} : pc'[d] = pc[d] /\ victim'[d] = victim[d]
    BY <1>5 DEF Reaped, TypeOK
  <2>3. mon[cur] = "done" BY <2>1, <2>2 DEF AfterInv, Victims
  <2> QED BY <2>1, <2>2, <2>3 DEF AfterInv, Victims, Gone, OneProcess, Caller
<1>6. CASE ReapTimeout(c)
  <2>1. /\ slow' = TRUE /\ cur' = cur /\ pc'[c] = "reset"
        /\ \A d \in Caller \ {c} : pc'[d] = pc[d] /\ victim'[d] = victim[d]
    BY <1>6 DEF ReapTimeout, TypeOK
  <2> QED BY <2>1 DEF AfterInv, Victims, Gone, OneProcess, Caller
<1>7. CASE ResetPending(c)
  <2>1. /\ UNCHANGED <<cur, mon, slow, victim>> /\ pc[c] = "reset" /\ pc'[c] = "start"
        /\ \A d \in Caller \ {c} : pc'[d] = pc[d]
    BY <1>7 DEF ResetPending, TypeOK
  <2> QED BY <2>1 DEF AfterInv, Victims, Gone, OneProcess, Caller
<1>8. CASE Start(c)
  <2>1. c \in Restarter BY <1>8, RestartersOnly DEF Start, LifeInv
  <2>2. /\ UNCHANGED <<mon, slow, victim>> /\ cur' = cur + 1 /\ cur \in Nat
        /\ pc[c] = "start" /\ pc'[c] = "register"
    BY <1>8 DEF Start, TypeOK, Process
  <2>3. \A r \in Restarter : pc'[r] = "register" BY <2>1, <2>2 DEF OneRestarter
  <2>4. OneProcess'
    <3> SUFFICES ASSUME ~slow, NEW g \in 1..(cur' - 1) PROVE mon[g] = "done"
      BY <2>2 DEF OneProcess
    <3>1. g = cur \/ g \in 1..(cur - 1) BY <2>2
    <3> QED BY <2>1, <2>2, <3>1 DEF AfterInv, Gone, OneProcess
  <2> QED BY <2>3, <2>4 DEF AfterInv, Victims, Gone
<1> QED BY <1>1, <1>2, <1>3, <1>4, <1>5, <1>6, <1>7, <1>8 DEF CallerStep

LEMMA AfterProcess ==
  ASSUME TypeOK, AfterInv, NEW g \in Process, ProcessStep(g)
  PROVE  AfterInv'
<1> USE DEF requestVars, clientVars, processVars, pipeVars, callerVars, shutVars
<1>1. /\ UNCHANGED <<cur, pc, victim, slow>>
      /\ \A h \in Process : mon[h] = "done" => mon'[h] = "done"
  <2>1. CASE \E i \in Id : Answer(g, i) \/ ReadMessage(g, i) BY <2>1 DEF Answer, ReadMessage
  <2>2. CASE Die(g) \/ Take(g) \/ Deliver(g) BY <2>2 DEF Die, Take, Deliver
  <2>3. CASE MonitorExit(g) BY <2>3 DEF MonitorExit, TypeOK
  <2>4. CASE RejectPending(g) BY <2>4 DEF RejectPending, TypeOK
  <2> QED BY <2>1, <2>2, <2>3, <2>4 DEF ProcessStep
<1>2. cur \in Process /\ 1..(cur - 1) \subseteq Process BY BoundsAreNat DEF TypeOK, Process
<1> QED BY <1>1, <1>2 DEF AfterInv, Victims, Gone, OneProcess

LEMMA AfterHolds == ASSUME OneRestarter PROVE Spec => []AfterInv
<1>1. AfterInv /\ UNCHANGED vars => AfterInv'
  BY DEF vars, requestVars, clientVars, processVars, pipeVars, callerVars, shutVars,
         AfterInv, Victims, Gone, OneProcess
<1>2. TypeOK /\ LifeInv /\ AfterInv /\ [Next]_vars => AfterInv'
  BY <1>1, AfterCaller, AfterProcess DEF Next
<1> QED BY <1>2, AfterInit, ClientTypeCorrect, LifeHolds, PTL DEF Spec

\* With one restarter, Restart starts the next process only after the monitor of
\* the one before has finished, unless a killed process took longer than
\* waitProcDone waits.
THEOREM OneProcessAtATime == ASSUME OneRestarter PROVE Spec => []OneProcess
<1>1. AfterInv => OneProcess BY DEF AfterInv
<1> QED BY <1>1, AfterHolds, PTL

-----------------------------------------------------------------------------
\* A written request that is still pending has a process whose monitor has not
\* finished; one that is nowhere was dropped by a Restart, after the end of an
\* earlier process than the one it was written to.
Pending == \A c \in Caller : pc[c] = "wait" /\ myId[c] \in pending => mon[wrote[c]] # "done"
DroppedBefore(c) ==
  /\ lost[myId[c]] \in 1..cur /\ mon[lost[myId[c]]] = "done"
  /\ pc[c] = "wait" => lost[myId[c]] < wrote[c]
Dropped == \A c \in Caller :
  Sending(c) /\ myId[c] \notin pending /\ box[myId[c]] = {} /\ ~Answering(myId[c])
    => DroppedBefore(c)

WaitInv == ~slow => Pending /\ Dropped

\* A call that sends has an id, and one that waits a process.
LEMMA Senders ==
  ASSUME TypeOK, IInv, RouteInv, NEW c \in Caller, Sending(c)
  PROVE  myId[c] \in Id /\ (pc[c] = "wait" => wrote[c] \in Process /\ wrote[c] <= cur)
BY BoundsAreNat DEF TypeOK, IInv, HasId, RouteInv, Written, Sending, Id, Process

\* What leaves requests, answers and monitors alone keeps WaitInv.
LEMMA WaitFrame ==
  ASSUME TypeOK, IInv, RouteInv, WaitInv, cur' \in Process, cur <= cur',
         UNCHANGED <<box, lost, mon, hand>>, slow \/ slow' = slow, slow => slow',
         \A c \in Caller : Sending(c)' =>
            /\ Sending(c) /\ pc'[c] = pc[c] /\ myId'[c] = myId[c] /\ wrote'[c] = wrote[c]
            /\ myId[c] \in pending <=> myId[c] \in pending'
  PROVE  WaitInv'
<1> SUFFICES ASSUME ~slow' PROVE Pending' /\ Dropped'
  BY DEF WaitInv
<1>1. Pending /\ Dropped BY DEF WaitInv
<1>2. Pending' BY <1>1 DEF Pending, Sending
<1>3. Dropped'
  <2> SUFFICES ASSUME NEW c \in Caller, Sending(c)', myId'[c] \notin pending',
                      box'[myId'[c]] = {}, ~Answering(myId[c])'
               PROVE  DroppedBefore(c)'
    BY DEF Dropped
  <2>1. Sending(c) /\ pc'[c] = pc[c] /\ myId'[c] = myId[c] /\ wrote'[c] = wrote[c]
        /\ myId[c] \notin pending
    OBVIOUS
  <2>2. ~Answering(myId[c]) BY <2>1 DEF Answering
  <2>3. DroppedBefore(c) BY <1>1, <2>1, <2>2 DEF Dropped
  <2> QED BY <2>1, <2>3 DEF DroppedBefore, TypeOK, Process
<1> QED BY <1>2, <1>3

LEMMA WaitCaller ==
  ASSUME OneRestarter, TypeOK, IInv, LifeInv, RouteInv, AfterInv, WaitInv,
         NEW c \in Caller, CallerStep(c)
  PROVE  WaitInv'
<1> USE BoundsAreNat DEF requestVars, clientVars, processVars, pipeVars, shutVars
<1>0. cur \in Process /\ cur <= cur BY DEF TypeOK, Process
<1>1. CASE Register(c)
  <2>1. /\ nextID' = nextID + 1 /\ nextID \in Nat /\ nextID' \in Id
        /\ pending' = pending \cup {nextID'}
        /\ myId'[c] = nextID' /\ pc'[c] = "write"
        /\ \A d \in Caller \ {c} : myId'[d] = myId[d] /\ pc'[d] = pc[d]
        /\ UNCHANGED <<wrote, mon, lost, cur, slow, box, hand>>
    BY <1>1 DEF Register, TypeOK, Id
  <2>2. \A d \in Caller : Sending(d) => myId[d] <= nextID /\ myId[d] \in Nat
    BY <2>1 DEF Sending, IInv, HasId
  <2>3. \A d \in Caller \ {c} : Sending(d) =>
           (myId'[d] \in pending' <=> myId[d] \in pending)
    BY <2>1, <2>2
  <2>4. ~slow => Pending' BY <2>1, <2>3 DEF WaitInv, Pending, Sending
  <2>5. ~slow => Dropped'
    BY <2>1, <2>3 DEF WaitInv, Dropped, DroppedBefore, Sending, Answering
  <2> QED BY <2>1, <2>4, <2>5 DEF WaitInv
<1>2. CASE Write(c)
  <2>1. stdin = cur /\ cur \in Process /\ mon[cur] = "waiting"
    BY <1>2 DEF Write, TypeOK, LifeInv, Lives, Process
  <2>2. /\ pc[c] = "write" /\ pc'[c] = "wait" /\ wrote'[c] = cur
        /\ \A d \in Caller \ {c} : pc'[d] = pc[d] /\ wrote'[d] = wrote[d]
        /\ UNCHANGED <<pending, box, lost, slow, myId, cur, mon, hand>>
    BY <1>2, <2>1 DEF Write, TypeOK
  <2>3. ~slow => Pending' BY <2>1, <2>2 DEF WaitInv, Pending
  <2>4. ASSUME ~slow PROVE Dropped'
    <3> SUFFICES ASSUME NEW d \in Caller, Sending(d)', myId[d] \notin pending,
                        box[myId[d]] = {}, ~Answering(myId[d])
                 PROVE  DroppedBefore(d)'
      BY <2>2 DEF Dropped, Answering
    <3>1. Sending(d) BY <2>2 DEF Sending
    <3>2. DroppedBefore(d) BY <2>4, <3>1 DEF WaitInv, Dropped
    <3>3. CASE d = c
      <4>1. lost[myId[c]] # cur /\ lost[myId[c]] \in 1..cur
        BY <2>1, <3>2, <3>3 DEF DroppedBefore
      <4>2. lost[myId[c]] < cur BY <4>1, <2>1 DEF Process
      <4> QED BY <2>2, <3>2, <3>3, <4>2 DEF DroppedBefore
    <3>4. CASE d # c BY <2>2, <3>2, <3>4 DEF DroppedBefore
    <3> QED BY <3>3, <3>4
  <2> QED BY <2>2, <2>3, <2>4 DEF WaitInv
<1>3. CASE WriteFails(c) \/ GiveUp(c) \/ Receive(c)
  <2>1. PICK ok \in BOOLEAN : Return(c, ok)
    BY <1>3 DEF WriteFails, Receive, GiveUp
  <2>2. /\ UNCHANGED <<cur, mon, slow, box, lost, hand, job>> /\ Sending(c)
        /\ pending' \in {pending, pending \ {myId[c]}}
    BY <1>3 DEF WriteFails, Receive, GiveUp, Sending
  <2>3. \A d \in Caller : Sending(d)' => d # c /\ Sending(d)
                            /\ pc'[d] = pc[d] /\ myId'[d] = myId[d] /\ wrote'[d] = wrote[d]
    BY <2>1, <2>2, ReturnRole DEF LifeInv, Sending
  <2>4. \A d \in Caller : Sending(d)' => myId[d] # myId[c]
    BY <2>2, <2>3 DEF RouteInv, Apart
  <2> QED BY <1>0, <2>2, <2>3, <2>4, WaitFrame
<1>4. CASE \/ Call(c) \/ BeginRestart(c) \/ CloseStdin(c) \/ Reaped(c) \/ StartFails(c)
           \/ Ready(c) \/ KillProcess(c) \/ KillLate(c)
  <2>1. /\ UNCHANGED <<cur, mon, slow, pending, box, lost, hand, myId, wrote>>
        /\ \A d \in Caller : Sending(d)' => Sending(d) /\ pc'[d] = pc[d]
    BY <1>4 DEF Call, BeginRestart, CloseStdin, Reaped, StartFails, Ready, KillProcess,
                KillLate, Sending, TypeOK
  <2> QED BY <1>0, <2>1, WaitFrame
<1>5. CASE ReapTimeout(c) BY <1>5 DEF ReapTimeout, WaitInv
<1>6. CASE ResetPending(c)
  <2>1. /\ pending' = {} /\ UNCHANGED <<box, cur, mon, slow, hand, myId, wrote>>
        /\ \A i \in Id : lost'[i] = IF i \in pending THEN cur ELSE lost[i]
        /\ pc[c] = "reset" /\ \A d \in Caller : Sending(d)' => Sending(d) /\ pc'[d] = pc[d]
    BY <1>6 DEF ResetPending, Sending, TypeOK
  <2>2. c \in Restarter BY <2>1, RestartersOnly DEF LifeInv
  <2>3. Pending' BY <2>1 DEF Pending
  <2>4. ASSUME ~slow PROVE Dropped'
    <3>1. mon[cur] = "done" BY <2>1, <2>2, <2>4 DEF AfterInv, Gone
    <3> SUFFICES ASSUME NEW d \in Caller, Sending(d)', box[myId[d]] = {}, ~Answering(myId[d])
                 PROVE  DroppedBefore(d)'
      BY <2>1 DEF Dropped, Answering
    <3>2. Sending(d) /\ pc'[d] = pc[d] /\ myId[d] \in Id BY <2>1, Senders
    <3>3. CASE myId[d] \in pending
      <4>1. lost'[myId[d]] = cur BY <2>1, <3>2, <3>3
      <4>2. ASSUME pc[d] = "wait" PROVE FALSE
        <5>1. mon[wrote[d]] # "done" /\ wrote[d] \in 1..cur
          BY <2>4, <3>3, <4>2 DEF WaitInv, Pending, RouteInv, Written
        <5>2. wrote[d] = cur \/ wrote[d] \in 1..(cur - 1) BY <1>0, <5>1 DEF Process
        <5> QED BY <2>4, <3>1, <5>1, <5>2 DEF AfterInv, OneProcess
      <4> QED BY <1>0, <2>1, <3>1, <3>2, <4>1, <4>2 DEF DroppedBefore, Process
    <3>4. CASE myId[d] \notin pending
      <4>1. DroppedBefore(d) BY <2>4, <3>2, <3>4 DEF WaitInv, Dropped
      <4> QED BY <2>1, <3>2, <3>4, <4>1 DEF DroppedBefore
    <3> QED BY <3>3, <3>4
  <2> QED BY <2>1, <2>3, <2>4 DEF WaitInv
<1>7. CASE Start(c)
  <2>1. /\ UNCHANGED <<mon, slow, pending, box, lost, hand, myId, wrote>>
        /\ cur' \in Process /\ cur <= cur'
        /\ \A d \in Caller : Sending(d)' => Sending(d) /\ pc'[d] = pc[d]
    BY <1>7 DEF Start, Sending, TypeOK, Process
  <2> QED BY <2>1, WaitFrame
<1> QED BY <1>1, <1>2, <1>3, <1>4, <1>5, <1>6, <1>7 DEF CallerStep

LEMMA WaitProcess ==
  ASSUME TypeOK, IInv, LifeInv, RouteInv, AfterInv, WaitInv,
         NEW g \in Process, ProcessStep(g)
  PROVE  WaitInv'
<1> USE BoundsAreNat DEF requestVars, clientVars, processVars, pipeVars, callerVars, shutVars
<1>0. UNCHANGED <<cur, slow, pc, myId, wrote, lost>>
  BY DEF ProcessStep, Answer, ReadMessage, Die, Take, Deliver, MonitorExit, RejectPending
<1> SUFFICES ASSUME ~slow PROVE Pending' /\ Dropped'
  BY <1>0 DEF WaitInv
<1>a. Pending /\ Dropped BY DEF WaitInv
<1>b. \A c \in Caller : Sending(c) =>
        myId[c] \in Id /\ (pc[c] = "wait" => wrote[c] \in Process /\ wrote[c] <= cur)
  BY Senders
\* Dropped follows when nothing leaves the places a request can be in.
<1> DEFINE Found(i) == i \in pending \/ box[i] # {} \/ \E h \in Process : Held(h, i)
<1>c. \A i \in Id : Answering(i) <=> \E h \in Process : Held(h, i)
  BY DEF Answering, Held, TypeOK
<1>d. TypeOK' BY ProcessKeeps
<1>e. \A i \in Id : Answering(i)' <=> \E h \in Process : Held(h, i)'
  BY <1>d DEF Answering, Held, TypeOK
<1>f. ASSUME \A h \in Process : mon[h] = "done" => mon'[h] = "done",
             \A i \in Id : Found(i) => Found(i)'
      PROVE  Dropped'
  <2> SUFFICES ASSUME NEW c \in Caller, Sending(c), myId[c] \notin pending',
                      box'[myId[c]] = {}, ~Answering(myId[c])'
               PROVE  DroppedBefore(c)'
    BY <1>0 DEF Dropped, Sending, Answering
  <2>1. myId[c] \in Id BY <1>b
  <2>2. ~Found(myId[c]) BY <1>0, <1>e, <1>f, <2>1
  <2>3. DroppedBefore(c) BY <1>a, <1>c, <2>1, <2>2 DEF Dropped
  <2>4. lost[myId[c]] \in Process BY <2>3 DEF DroppedBefore, TypeOK, Process
  <2> QED BY <1>0, <1>f, <2>3, <2>4 DEF DroppedBefore
<1> HIDE DEF Found
<1>1. CASE (\E i \in Id : Answer(g, i)) \/ Die(g)
  <2>1. UNCHANGED <<pending, box, mon, hand>> BY <1>1 DEF Answer, Die
  <2>2. Pending' BY <1>0, <1>a, <2>1 DEF Pending
  <2>3. \A i \in Id : Found(i) => Found(i)' BY <2>1 DEF Found, Held
  <2>4. Dropped' BY <1>f, <2>1, <2>3
  <2> QED BY <2>2, <2>4
<1>2. CASE \E i \in Id : ReadMessage(g, i)
  <2>1. /\ UNCHANGED <<pending, box, mon>> /\ hand[g].at = "free"
        /\ \A h \in Process \ {g} : hand'[h] = hand[h]
    BY <1>2 DEF ReadMessage, TypeOK
  <2>2. Pending' BY <1>0, <1>a, <2>1 DEF Pending
  <2>3. \A i \in Id : Found(i) => Found(i)' BY <2>1 DEF Found, Held
  <2>4. Dropped' BY <1>f, <2>1, <2>3
  <2> QED BY <2>2, <2>4
<1>3. CASE Take(g)
  <2>1. /\ UNCHANGED <<box, mon>> /\ pending' = pending \ {hand[g].id}
        /\ hand[g].at = "read" /\ \A h \in Process \ {g} : hand'[h] = hand[h]
        /\ hand[g].id \in pending => hand'[g] = [id |-> hand[g].id, at |-> "taken"]
    BY <1>3 DEF Take, TypeOK
  <2>2. Pending' BY <1>0, <1>a, <2>1 DEF Pending
  <2>3. \A i \in Id : Found(i) => Found(i)' BY <2>1 DEF Found, Held
  <2>4. Dropped' BY <1>f, <2>1, <2>3
  <2> QED BY <2>2, <2>4
<1>4. CASE Deliver(g)
  <2>1. /\ UNCHANGED <<pending, mon>> /\ hand[g].at = "taken" /\ hand[g].id \in Id
        /\ \A h \in Process \ {g} : hand'[h] = hand[h]
        /\ box'[hand[g].id] # {} /\ \A i \in Id \ {hand[g].id} : box'[i] = box[i]
    <3>1. hand[g].at = "taken" /\ hand[g].id \in Id BY <1>4 DEF Deliver, TypeOK, IInv, InHand, Id
    <3>2. \A i \in Id : box'[i] = IF i = hand[g].id
                                  THEN box[i] \cup {[kind |-> "answer", from |-> g]} ELSE box[i]
      BY <1>4, <3>1 DEF Deliver, TypeOK
    <3> QED BY <1>4, <3>1, <3>2 DEF Deliver, TypeOK
  <2>2. Pending' BY <1>0, <1>a, <2>1 DEF Pending
  <2>3. \A i \in Id : Found(i) => Found(i)' BY <2>1 DEF Found, Held
  <2>4. Dropped' BY <1>f, <2>1, <2>3
  <2> QED BY <2>2, <2>4
<1>5. CASE MonitorExit(g)
  <2>1. /\ proc[g] = "dead" /\ mon[g] = "waiting" /\ UNCHANGED <<pending, box, hand>>
        /\ \A h \in Process \ {g} : mon'[h] = mon[h]
        /\ cur = g => mon'[g] = "rejecting"
    BY <1>5 DEF MonitorExit, TypeOK
  <2>2. cur = g
    <3>1. ~(g > cur) BY <2>1 DEF LifeInv, Lives
    <3>2. g \notin 1..(cur - 1) BY <2>1 DEF AfterInv, OneProcess
    <3> QED BY <3>1, <3>2 DEF TypeOK, Process
  <2>3. \A h \in Process : mon[h] = "done" <=> mon'[h] = "done" BY <2>1, <2>2
  <2>4. Pending' BY <1>0, <1>a, <1>b, <2>1, <2>3 DEF Pending, Sending
  <2>5. \A i \in Id : Found(i) => Found(i)' BY <2>1 DEF Found, Held
  <2>6. Dropped' BY <1>f, <2>3, <2>5
  <2> QED BY <2>4, <2>6
<1>6. CASE RejectPending(g)
  <2>1. /\ pending' = {} /\ hand' = hand /\ pending \subseteq Id
        /\ \A i \in pending : box'[i] # {}
        /\ \A i \in Id : i \notin pending => box'[i] = box[i]
        /\ \A h \in Process : mon[h] = "done" => mon'[h] = "done"
    <3>1. pending \subseteq Id BY DEF TypeOK, Id
    <3>2. \A i \in Id : box'[i] = IF i \in pending
                                  THEN box[i] \cup {[kind |-> "exit", from |-> g]} ELSE box[i]
      BY <1>6 DEF RejectPending
    <3>3. \A h \in Process : mon[h] = "done" => mon'[h] = "done"
      BY <1>6 DEF RejectPending, TypeOK
    <3> QED BY <1>6, <3>1, <3>2, <3>3 DEF RejectPending
  <2>2. Pending' BY <2>1 DEF Pending
  <2>3. \A i \in Id : Found(i) => Found(i)'
    <3> SUFFICES ASSUME NEW i \in Id, Found(i) PROVE Found(i)' OBVIOUS
    <3>1. CASE i \in pending BY <2>1, <3>1 DEF Found
    <3>2. CASE i \notin pending
      <4>1. box'[i] = box[i] BY <2>1, <3>2
      <4>2. \A h \in Process : Held(h, i) => Held(h, i)' BY <2>1 DEF Held
      <4> QED BY <3>2, <4>1, <4>2 DEF Found
    <3> QED BY <3>1, <3>2
  <2>4. Dropped' BY <1>f, <2>1, <2>3
  <2> QED BY <2>2, <2>4
<1> QED BY <1>1, <1>2, <1>3, <1>4, <1>5, <1>6 DEF ProcessStep

LEMMA WaitHolds == ASSUME OneRestarter PROVE Spec => []WaitInv
<1>1. Init => WaitInv BY DEF Init, WaitInv, Pending, Dropped, Sending
<1>2. WaitInv /\ UNCHANGED vars => WaitInv'
  BY DEF vars, requestVars, clientVars, processVars, pipeVars, callerVars, shutVars,
         WaitInv, Pending, Dropped, DroppedBefore, Sending, Answering
<1>3. TypeOK /\ IInv /\ LifeInv /\ RouteInv /\ AfterInv /\ WaitInv /\ [Next]_vars => WaitInv'
  BY <1>2, WaitCaller, WaitProcess DEF Next
<1> QED BY <1>1, <1>3, ClientTypeCorrect, LifeHolds, RouteHolds, AfterHolds, PTL DEF Spec

\* With one restarter, once the exit of a process has been handled no request it
\* received waits for a timer, unless Restart dropped it before it was written.
THEOREM CallersFailFast == ASSUME OneRestarter PROVE Spec => []FailFast
<1>1. TypeOK /\ RouteInv /\ WaitInv => FailFast
  <2> SUFFICES ASSUME TypeOK, RouteInv, WaitInv, ~slow, NEW c \in Caller, Hangs(c)
               PROVE  lost[myId[c]] \in 1..(wrote[c] - 1)
    BY DEF FailFast
  <2>1. /\ pc[c] = "wait" /\ myId[c] \notin pending /\ wrote[c] \in 1..cur /\ cur \in Nat
    BY DEF Hangs, WaitInv, Pending, RouteInv, Written, TypeOK, Process
  <2>2. DroppedBefore(c) BY <2>1 DEF Hangs, WaitInv, Dropped, Sending
  <2> QED BY <2>1, <2>2 DEF DroppedBefore
<1> QED BY <1>1, ClientTypeCorrect, RouteHolds, WaitHolds, PTL

\* With one restarter, only the read loop and the monitor of the process a
\* waiting request was written to send to its channels.
THEOREM OutcomeFromOwnProcess == ASSUME OneRestarter PROVE Spec => OwnOutcome
<1> DEFINE Safe == TypeOK /\ IInv /\ LifeInv /\ RouteInv /\ AfterInv /\ WaitInv
           Step == ~slow => \A c \in Caller : pc[c] = "wait" =>
                      \A o \in box'[myId[c]] \ box[myId[c]] : o.from = wrote[c]
<1>1. ASSUME Safe, [Next]_vars PROVE Step
  <2> SUFFICES ASSUME ~slow, NEW c \in Caller, pc[c] = "wait",
                      NEW o \in box'[myId[c]] \ box[myId[c]]
               PROVE  o.from = wrote[c]
    OBVIOUS
  <2> USE DEF requestVars, clientVars, processVars, pipeVars, callerVars, shutVars
  <2>1. Sending(c) /\ myId[c] \in Id /\ wrote[c] \in 1..cur
    BY <1>1, Senders DEF Sending, RouteInv, Written
  <2>2. PICK g \in Process : Deliver(g) \/ RejectPending(g)
    <3>1. CASE UNCHANGED vars BY <3>1 DEF vars
    <3>2. CASE \E d \in Caller : CallerStep(d)
      BY <3>2 DEF CallerStep, Call, Register, Write, WriteFails, Receive, GiveUp, BeginRestart,
                  CloseStdin, KillProcess, KillLate, Reaped, ReapTimeout, ResetPending, Start,
                  StartFails, Ready
    <3>3. CASE \E g \in Process : ProcessStep(g)
      BY <3>3 DEF ProcessStep, Answer, ReadMessage, Die, Take, MonitorExit
    <3> QED BY <1>1, <3>1, <3>2, <3>3 DEF Next
  <2>3. CASE Deliver(g)
    <3>1. o.from = g /\ myId[c] = hand[g].id /\ hand[g].at = "taken"
      BY <1>1, <2>1, <2>3 DEF Deliver, TypeOK
    <3>2. Carries(g, myId[c]) BY <3>1 DEF Carries
    <3> QED BY <1>1, <2>1, <3>1, <3>2 DEF RouteInv, Routed
  <2>4. CASE RejectPending(g)
    <3>1. o.from = g /\ myId[c] \in pending /\ mon[g] = "rejecting"
      BY <1>1, <2>1, <2>4 DEF RejectPending, TypeOK
    <3>2. g = cur
      <4>1. ~(g > cur) BY <1>1, <3>1 DEF LifeInv, Lives
      <4>2. g \notin 1..(cur - 1) BY <1>1, <3>1 DEF AfterInv, OneProcess
      <4> QED BY <1>1, <4>1, <4>2 DEF TypeOK, Process
    <3>3. mon[wrote[c]] # "done" BY <1>1, <3>1 DEF WaitInv, Pending
    <3>4. wrote[c] \notin 1..(cur - 1) BY <1>1, <3>3 DEF AfterInv, OneProcess
    <3> QED BY <1>1, <2>1, <3>1, <3>2, <3>4 DEF TypeOK, Process
  <2> QED BY <2>2, <2>3, <2>4
<1>2. Spec => [][Step]_vars
  <2>1. Safe /\ [Next]_vars => [Step]_vars BY <1>1
  <2> QED BY <2>1, ClientTypeCorrect, LifeHolds, RouteHolds, AfterHolds, WaitHolds, PTL DEF Spec
<1> QED BY <1>2 DEF OwnOutcome
=============================================================================
