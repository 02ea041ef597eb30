------------------------------ MODULE Readiness ------------------------------
(***************************************************************************)
(* Workspace readiness: the $/progress tokens LSPClient tracks, the waits   *)
(* on them and the flag workspaceLoaded (internal/lsp/client.go), and what  *)
(* IsWorkspaceLoaded (internal/lsp/client_notify.go) reports as "indexed".  *)
(*                                                                         *)
(* A wait holds progressMu except while it sleeps on progressCond.  Its     *)
(* helper goroutine broadcasts at the deadline, or when the context ends,   *)
(* without progressMu.  The atomic flag is stored outside progressMu too.   *)
(*                                                                         *)
(* The first progress a server begins is its load, as handleProgress says.  *)
(***************************************************************************)
EXTENDS Naturals, FiniteSets

CONSTANTS
  Waiter,        \* goroutines that may wait for readiness
  Token,         \* progress tokens
  NoToken, Nobody,
  MaxRuns,       \* bound: progress runs the server starts
  MaxRestarts,   \* bound: calls of Restart
  Cancels        \* whether a caller's context may end early

ASSUME NoneAssumption == NoToken \notin Token /\ Nobody \notin Waiter
ASSUME BoundAssumption == MaxRuns \in Nat /\ MaxRestarts \in Nat /\ Cancels \in BOOLEAN

VARIABLES
  created, running,    \* server: tokens it announced, tokens begun and not ended
  runs, restarts,      \* counted up to the bounds
  progressTokens, staleProgress, seenProgress,   \* guarded by progressMu
  workspaceLoaded,     \* atomic.Bool
  resetting,           \* Restart has cleared the tokens but not the flag
  progressMu,          \* the goroutine that holds it
  pc, kind, phase,     \* where a wait is; who asked; which of its two loops runs
  helper,              \* whether the timer goroutine may still broadcast
  due, cancelled,      \* the loop's deadline has passed; the context has ended
  load,                \* history: the server's first run, while it lasts
  late,                \* history: waits that had returned when the load began
  overwritten          \* history: such a wait, or a cancelled one, set the flag

serverVars == <<created, running, runs, restarts, load>>
tokenVars == <<progressTokens, staleProgress, seenProgress>>
waitVars == <<pc, kind, phase, helper, due, cancelled>>
vars == <<serverVars, tokenVars, workspaceLoaded, resetting, progressMu, waitVars,
          late, overwritten>>

Init ==
  /\ created = {} /\ running = {} /\ runs = 0 /\ restarts = 0
  /\ progressTokens = {} /\ staleProgress = {} /\ seenProgress = FALSE
  /\ workspaceLoaded = FALSE /\ resetting = FALSE
  /\ progressMu = Nobody
  /\ pc = [w \in Waiter |-> "idle"]
  /\ kind = [w \in Waiter |-> "query"]
  /\ phase = [w \in Waiter |-> "wait"]
  /\ helper = [w \in Waiter |-> FALSE]
  /\ due = [w \in Waiter |-> FALSE]
  /\ cancelled = [w \in Waiter |-> FALSE]
  /\ load = NoToken /\ late = {} /\ overwritten = FALSE

\* pendingProgressLocked
Pending(tokens, skipStale) == tokens \ (IF skipStale THEN staleProgress ELSE {})

\* progressCond.Broadcast
Woken(at) == [w \in Waiter |-> IF at[w] = "asleep" THEN "relock" ELSE at[w]]

-----------------------------------------------------------------------------
(* handleProgress and window/workDoneProgress/create, on readLoop *)

\* The server announces a run and begins it later
WorkDoneProgressCreate(t) ==
  /\ t \notin created \cup running /\ runs < MaxRuns /\ ~resetting
  /\ progressMu = Nobody
  /\ runs' = runs + 1
  /\ created' = created \cup {t}
  /\ progressTokens' = progressTokens \cup {t}
  /\ UNCHANGED <<running, restarts, load, staleProgress, seenProgress, workspaceLoaded,
                 resetting, progressMu, waitVars, late, overwritten>>

ServerBegins(t) ==
  /\ t \notin running /\ ~resetting
  /\ t \in created \/ runs < MaxRuns
  /\ runs' = IF t \in created THEN runs ELSE runs + 1
  /\ created' = created \ {t}
  /\ running' = running \cup {t}

\* without seenProgress: every run makes tools wait again
BeginAnyRun(t) ==                                                          \* mutant
  /\ progressMu = Nobody
  /\ ServerBegins(t)
  /\ progressTokens' = progressTokens \cup {t}
  /\ staleProgress' = staleProgress \ {t}
  /\ seenProgress' = TRUE
  /\ workspaceLoaded' = FALSE
  /\ UNCHANGED <<restarts, load, resetting, progressMu, waitVars, late, overwritten>>

ProgressBegin(t) ==
  /\ progressMu = Nobody
  /\ ServerBegins(t)
  /\ progressTokens' = progressTokens \cup {t}
  /\ staleProgress' = staleProgress \ {t}
  /\ seenProgress' = TRUE
  /\ IF seenProgress THEN UNCHANGED <<workspaceLoaded, load, late, overwritten>>
     ELSE /\ workspaceLoaded' = FALSE
          /\ load' = t
          /\ late' = {w \in Waiter : pc[w] = "store"}
          /\ overwritten' = FALSE
  /\ UNCHANGED <<restarts, resetting, progressMu, waitVars>>

ServerEnds(t) ==
  /\ t \in running
  /\ running' = running \ {t}
  /\ load' = IF load = t THEN NoToken ELSE load

EndSilently(t) ==                                                          \* mutant
  /\ progressMu = Nobody
  /\ ServerEnds(t)
  /\ progressTokens' = progressTokens \ {t}
  /\ staleProgress' = staleProgress \ {t}
  /\ UNCHANGED <<created, runs, restarts, seenProgress, workspaceLoaded, resetting,
                 progressMu, waitVars, late, overwritten>>

ProgressEnd(t) ==
  /\ progressMu = Nobody
  /\ ServerEnds(t)
  /\ progressTokens' = progressTokens \ {t}
  /\ staleProgress' = staleProgress \ {t}
  /\ pc' = IF Pending(progressTokens', TRUE) = {} THEN Woken(pc) ELSE pc
  /\ UNCHANGED <<created, runs, restarts, seenProgress, workspaceLoaded, resetting,
                 progressMu, kind, phase, helper, due, cancelled, late, overwritten>>

-----------------------------------------------------------------------------
(* waitForProgress *)

\* a query waits up to 60 s, ignoring stale tokens; other callers give a timeout:
\* a long one (over 60 s) first waits up to 10 s for a run to begin
SkipStale(w) == kind[w] = "query"

Call(w, k) ==
  /\ pc[w] = "idle"
  /\ pc' = [pc EXCEPT ![w] = "lock"]
  /\ kind' = [kind EXCEPT ![w] = k]
  /\ due' = [due EXCEPT ![w] = FALSE]
  /\ cancelled' = [cancelled EXCEPT ![w] = FALSE]
  /\ UNCHANGED <<serverVars, tokenVars, workspaceLoaded, resetting, progressMu,
                 phase, helper, late, overwritten>>

waitForWorkspaceReady(w) == Call(w, "query")

ensureWorkspaceReady(w) == ~workspaceLoaded /\ waitForWorkspaceReady(w)

WaitForWorkspaceReadyTimeout(w) == Call(w, "long") \/ Call(w, "short")

\* takes progressMu; the helper goroutine of the first loop is started
Lock(w) ==
  /\ pc[w] = "lock" /\ progressMu = Nobody
  /\ progressMu' = w
  /\ pc' = [pc EXCEPT ![w] = "check"]
  /\ phase' = [phase EXCEPT ![w] =
       IF kind[w] = "long" /\ Pending(progressTokens, SkipStale(w)) = {}
       THEN "grace" ELSE "wait"]
  /\ helper' = [helper EXCEPT ![w] = TRUE]
  /\ UNCHANGED <<serverVars, tokenVars, workspaceLoaded, resetting, kind, due,
                 cancelled, late, overwritten>>

Return(w) ==
  /\ pc' = [pc EXCEPT ![w] = IF kind[w] = "query" THEN "store" ELSE "idle"]
  /\ progressMu' = Nobody
  /\ helper' = [helper EXCEPT ![w] = FALSE]
  /\ UNCHANGED <<phase, due>>

GoToSleep(w) ==
  /\ pc' = [pc EXCEPT ![w] = "toWait"]
  /\ UNCHANGED <<progressMu, helper, phase, due>>

\* one evaluation of the loop condition and of the checks in its body
GraceCheck(w) ==
  /\ pc[w] = "check" /\ phase[w] = "grace"
  /\ \/ /\ Pending(progressTokens, SkipStale(w)) # {}     \* on to the second loop
        /\ phase' = [phase EXCEPT ![w] = "wait"]
        /\ helper' = [helper EXCEPT ![w] = TRUE]
        /\ due' = [due EXCEPT ![w] = FALSE]
        /\ UNCHANGED <<pc, progressMu>>
     \/ /\ Pending(progressTokens, SkipStale(w)) = {}
        /\ IF due[w] \/ cancelled[w] THEN Return(w) ELSE GoToSleep(w)
  /\ UNCHANGED <<serverVars, tokenVars, workspaceLoaded, resetting, kind, cancelled,
                 late, overwritten>>

WaitCheckForgets(w) ==                                                     \* mutant
  /\ pc[w] = "check" /\ phase[w] = "wait"
  /\ IF Pending(progressTokens, SkipStale(w)) = {} \/ cancelled[w] \/ due[w]
     THEN Return(w) ELSE GoToSleep(w)
  /\ UNCHANGED <<serverVars, tokenVars, workspaceLoaded, resetting, kind, cancelled,
                 late, overwritten>>

WaitCheck(w) ==
  LET pending == Pending(progressTokens, SkipStale(w)) # {}
      timedOut == pending /\ ~cancelled[w] /\ due[w]
  IN
  /\ pc[w] = "check" /\ phase[w] = "wait"
  /\ IF ~pending \/ cancelled[w] \/ due[w] THEN Return(w) ELSE GoToSleep(w)
  /\ staleProgress' = IF timedOut /\ SkipStale(w)
                      THEN staleProgress \cup progressTokens ELSE staleProgress
  /\ UNCHANGED <<serverVars, progressTokens, seenProgress, workspaceLoaded, resetting,
                 kind, cancelled, late, overwritten>>

\* progressCond.Wait releases progressMu, and takes it again when woken
Sleep(w) ==
  /\ pc[w] = "toWait"
  /\ pc' = [pc EXCEPT ![w] = "asleep"]
  /\ progressMu' = Nobody
  /\ UNCHANGED <<serverVars, tokenVars, workspaceLoaded, resetting, kind, phase,
                 helper, due, cancelled, late, overwritten>>

Relock(w) ==
  /\ pc[w] = "relock" /\ progressMu = Nobody
  /\ progressMu' = w
  /\ pc' = [pc EXCEPT ![w] = "check"]
  /\ UNCHANGED <<serverVars, tokenVars, workspaceLoaded, resetting, kind, phase,
                 helper, due, cancelled, late, overwritten>>

\* waitForWorkspaceReady, after the wait
StoreLoaded(w) ==
  /\ pc[w] = "store"
  /\ workspaceLoaded' = TRUE
  /\ overwritten' = (overwritten \/ w \in late \/ cancelled[w])
  /\ late' = late \ {w}
  /\ pc' = [pc EXCEPT ![w] = "idle"]
  /\ UNCHANGED <<serverVars, tokenVars, resetting, progressMu, kind, phase, helper,
                 due, cancelled>>

-----------------------------------------------------------------------------
(* Time, contexts and the helper goroutine *)

DeadlinePasses(w) ==
  /\ pc[w] \notin {"idle", "lock", "store"} /\ ~due[w]
  /\ due' = [due EXCEPT ![w] = TRUE]
  /\ UNCHANGED <<serverVars, tokenVars, workspaceLoaded, resetting, progressMu, pc,
                 kind, phase, helper, cancelled, late, overwritten>>

Cancel(w) ==
  /\ Cancels
  /\ pc[w] \notin {"idle", "store"} /\ ~cancelled[w]
  /\ cancelled' = [cancelled EXCEPT ![w] = TRUE]
  /\ UNCHANGED <<serverVars, tokenVars, workspaceLoaded, resetting, progressMu, pc,
                 kind, phase, helper, due, late, overwritten>>

\* The second loop's timer runs out 1 ms after the deadline.  The first loop's is
\* started before its deadline is computed, so it may run out first.
HelperBroadcasts(w) ==
  /\ helper[w]
  /\ due[w] \/ cancelled[w] \/ phase[w] = "grace"
  /\ helper' = [helper EXCEPT ![w] = FALSE]
  /\ pc' = Woken(pc)
  /\ UNCHANGED <<serverVars, tokenVars, workspaceLoaded, resetting, progressMu, kind,
                 phase, due, cancelled, late, overwritten>>

-----------------------------------------------------------------------------
(* Restart: the old server is gone, its tokens are dropped without a Broadcast *)

RestartTokens ==
  /\ restarts < MaxRestarts /\ progressMu = Nobody
  /\ restarts' = restarts + 1
  /\ created' = {} /\ running' = {} /\ load' = NoToken
  /\ progressTokens' = {} /\ staleProgress' = {} /\ seenProgress' = FALSE
  /\ resetting' = TRUE
  /\ UNCHANGED <<runs, workspaceLoaded, progressMu, waitVars, late, overwritten>>

RestartFlag ==
  /\ resetting
  /\ resetting' = FALSE
  /\ workspaceLoaded' = FALSE
  /\ UNCHANGED <<serverVars, tokenVars, progressMu, waitVars, late, overwritten>>

-----------------------------------------------------------------------------

WaitStep(w) ==
  \/ Lock(w) \/ GraceCheck(w) \/ WaitCheck(w) \/ Sleep(w) \/ Relock(w) \/ StoreLoaded(w)

Next ==
  \/ \E w \in Waiter :
       \/ ensureWorkspaceReady(w) \/ waitForWorkspaceReady(w)
       \/ WaitForWorkspaceReadyTimeout(w)
       \/ WaitStep(w) \/ DeadlinePasses(w) \/ Cancel(w) \/ HelperBroadcasts(w)
  \/ \E t \in Token : WorkDoneProgressCreate(t) \/ ProgressBegin(t) \/ ProgressEnd(t)
  \/ RestartTokens \/ RestartFlag

Spec == Init /\ [][Next]_vars

\* Goroutines run, time passes, timers run out, and a Go mutex is handed to a
\* goroutine that keeps asking for it.  The server owes nothing.
ClientFairness ==
  /\ \A w \in Waiter :
       /\ WF_vars(GraceCheck(w) \/ WaitCheck(w) \/ Sleep(w) \/ StoreLoaded(w))
       /\ SF_vars(Lock(w) \/ Relock(w))
       /\ WF_vars(DeadlinePasses(w)) /\ WF_vars(HelperBroadcasts(w))
  /\ WF_vars(RestartFlag)

FairSpec == Spec /\ ClientFairness

\* a server that begins every run it announces and ends every run it begins
ServerFairness ==
  \A t \in Token : SF_vars(t \in created /\ ProgressBegin(t)) /\ SF_vars(ProgressEnd(t))

FairServerSpec == FairSpec /\ ServerFairness
-----------------------------------------------------------------------------
(* Properties *)

PCs == {"idle", "lock", "check", "toWait", "asleep", "relock", "store"}

TypeOK ==
  /\ created \subseteq Token /\ running \subseteq Token
  /\ runs \in 0..MaxRuns /\ restarts \in 0..MaxRestarts
  /\ progressTokens \subseteq Token /\ staleProgress \subseteq Token
  /\ seenProgress \in BOOLEAN /\ workspaceLoaded \in BOOLEAN /\ resetting \in BOOLEAN
  /\ progressMu \in Waiter \cup {Nobody}
  /\ \A w \in Waiter : progressMu = w <=> pc[w] \in {"check", "toWait"}
  /\ pc \in [Waiter -> PCs]
  /\ kind \in [Waiter -> {"query", "long", "short"}]
  /\ phase \in [Waiter -> {"grace", "wait"}]
  /\ helper \in [Waiter -> BOOLEAN]
  /\ due \in [Waiter -> BOOLEAN] /\ cancelled \in [Waiter -> BOOLEAN]
  /\ load \in Token \cup {NoToken}
  /\ late \subseteq Waiter /\ overwritten \in BOOLEAN

\* A token that a wait gave up on is forgotten when it ends, so that a later run
\* under the same token is waited for (client.go:226-231, 843-845).
StaleIsActive == staleProgress \subseteq progressTokens

\* IsWorkspaceLoaded, what tools report as "indexed"
IsWorkspaceLoaded == workspaceLoaded /\ staleProgress \cap progressTokens = {}

\* Waits that run into their deadline do not make tools report a workspace whose
\* load still runs as indexed (client_notify.go:34-38): only a store that comes
\* after the load began, by a wait that ended before, or by a cancelled wait does.
IndexedUnlessOverwritten ==
  IsWorkspaceLoaded /\ load # NoToken => overwritten

\* Once the load has begun and was waited for, later progress (a cargo check, a
\* re-index) never makes tools wait again; only Restart does (client.go:831-840).
LoadedForGood ==
  [][seenProgress /\ workspaceLoaded /\ ~resetting => workspaceLoaded']_vars

\* Every readiness wait of a query ends when the server ends what it began, even
\* when the helper's broadcast came before the wait went to sleep (client.go:846).
QueryReturns == \A w \in Waiter : pc[w] # "idle" /\ kind[w] = "query" ~> pc[w] = "idle"

\* What tools report as indexed has finished loading (client_notify.go:31-32).
\* Violated: a wait that ended before the load began, or was cancelled during it,
\* stores the flag after ProgressBegin reset it (client.go:839, 887-890).
IndexedIsFinished == IsWorkspaceLoaded => load = NoToken

\* Every wait ends by its deadline although a run never ends (client.go:883-886,
\* 961-966).  Violated: the helper may broadcast between the last check and Wait.
WaitReturns == \A w \in Waiter : pc[w] # "idle" ~> pc[w] = "idle"
=============================================================================
