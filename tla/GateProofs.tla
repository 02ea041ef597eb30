----------------------------- MODULE GateProofs -----------------------------
(***************************************************************************)
(* Theorems about what stands between a tool call and a language server     *)
(* that can answer it.  Phase: for every set of skills, phases and tools    *)
(* the tracker keeps its types and implements PhaseGate.  Readiness: what   *)
(* the loaded flag says, for any number of waits, tokens, runs and          *)
(* restarts.  Daemon: what daemon.json and a warm session say, for any      *)
(* number of brokers and sessions.                                          *)
(***************************************************************************)
EXTENDS Phase, Readiness, Daemon, WellFoundedInduction, TLAPS

(* Phase *)

\* A set of natural numbers that is not empty has a least element: every induction
\* below takes the least counterexample.
LEMMA LeastElement ==
  ASSUME NEW T \in SUBSET Nat, T # {}
  PROVE  \E x \in T : \A y \in T : x =< y
  <1>1. PICK x \in T : \A y \in T : ~ (<<y, x>> \in OpToRel(<, Nat))
    BY WFMin, NatLessThanWellFounded
  <1>2. \A y \in T : ~ (y < x)
    BY <1>1, Zenon DEF OpToRel
  <1>3. \A y \in T : x =< y
    BY <1>2
  <1>. QED BY <1>3

LEMMA MinOfSet ==
  ASSUME NEW T \in SUBSET Nat, T # {}
  PROVE  Min(T) \in T
  BY LeastElement DEF Min

\* What the assumption says of one skill.
LEMMA SkillPhases ==
  ASSUME NEW s \in Skill
  PROVE  /\ DOMAIN Phases[s] = 1..Len(Phases[s]) /\ Len(Phases[s]) \in Nat \ {0}
         /\ 1 \in DOMAIN Phases[s]
         /\ \A p \in DOMAIN Phases[s] :
              /\ Phases[s][p] \in [allowed : SUBSET Tool, forbidden : SUBSET Tool]
              /\ p \in Nat
  <1> DEFINE Entry == [allowed : SUBSET Tool, forbidden : SUBSET Tool]
  <1>1. /\ Phases[s] \in Seq(Entry)
        /\ Len(Phases[s]) > 0
    BY PhasesAssumption
  <1> HIDE DEF Entry
  <1>2. Len(Phases[s]) \in Nat \ {0} /\ DOMAIN Phases[s] = 1..Len(Phases[s])
    BY <1>1
  <1>3. \A p \in DOMAIN Phases[s] : Phases[s][p] \in Entry
    BY <1>1, <1>2
  <1>. QED BY <1>2, <1>3 DEF Entry

\* A call leaves the phase where it is, or moves it on to a later one that lists
\* the tool; a forbidden tool moves nothing.
LEMMA NextPhaseMovesOn ==
  ASSUME NEW s \in Skill, NEW p \in DOMAIN Phases[s], NEW t \in Tool
  PROVE  /\ NextPhase(s, p, t) \in DOMAIN Phases[s]
         /\ NextPhase(s, p, t) # p =>
              /\ NextPhase(s, p, t) > p
              /\ t \in Phases[s][NextPhase(s, p, t)].allowed
              /\ ~Forbidden(s, p, t)
  <1>1. LaterPhases(s, p, t) \in SUBSET Nat
    BY SkillPhases DEF LaterPhases
  <1>2. CASE Forbidden(s, p, t) \/ t \in Phases[s][p].allowed \/ LaterPhases(s, p, t) = {}
    BY <1>2 DEF NextPhase
  <1>3. CASE ~(Forbidden(s, p, t) \/ t \in Phases[s][p].allowed \/ LaterPhases(s, p, t) = {})
    <2>1. NextPhase(s, p, t) = Min(LaterPhases(s, p, t))
      BY <1>3 DEF NextPhase
    <2>2. NextPhase(s, p, t) \in LaterPhases(s, p, t)
      BY <1>1, <1>3, <2>1, MinOfSet
    <2>. QED BY <1>3, <2>2, SkillPhases DEF LaterPhases
  <1>. QED BY <1>2, <1>3
-----------------------------------------------------------------------------
(* Types *)

LEMMA InitType == PhaseInit => PhaseTypes
  BY DEF PhaseInit, PhaseTypes

LEMMA NextType == PhaseTypes /\ [PhaseNext]_phaseVars => PhaseTypes'
  <1> SUFFICES ASSUME PhaseTypes, [PhaseNext]_phaseVars PROVE PhaseTypes'
    OBVIOUS
  <1>1. CASE ActivateSkillTool
    <2>1. PICK s \in Skill, m \in {"warn", "block"} : Activate(s, m)
      BY <1>1 DEF ActivateSkillTool
    <2>. QED BY <2>1, SkillPhases, NoSkillAssumption DEF Activate, PhaseTypes
  <1>2. CASE Deactivate
    BY <1>2 DEF Deactivate, PhaseTypes
  <1>3. ASSUME NEW t \in Tool, CheckAndRecord(t) PROVE PhaseTypes'
    <2>1. activeSkill \in Skill /\ currentPhase \in DOMAIN Phases[activeSkill]
      BY <1>3 DEF CheckAndRecord, PhaseTypes
    <2>2. currentPhase' \in DOMAIN Phases[activeSkill]
      BY <1>3, <2>1, NextPhaseMovesOn DEF CheckAndRecord
    <2>3. Recovery(activeSkill, currentPhase, t) \subseteq Tool
      <3>1. CASE LaterPhases(activeSkill, currentPhase, t) = {}
        BY <2>1, <3>1, SkillPhases DEF Recovery
      <3>2. CASE LaterPhases(activeSkill, currentPhase, t) # {}
        <4>1. currentPhase + 1 \in DOMAIN Phases[activeSkill]
          BY <2>1, <3>2, SkillPhases DEF LaterPhases
        <4>. QED BY <2>1, <3>2, <4>1, SkillPhases DEF Recovery
      <3>. QED BY <3>1, <3>2
    <2>4. outcome' \in [tool : Tool \cup {NoSkill}, ran : BOOLEAN] /\ recovery' \subseteq Tool
      BY <1>3, <2>3 DEF CheckAndRecord, CheckPhasePermission
    <2>5. /\ activeSkill' = activeSkill /\ mode' = mode
          /\ toolHistory' = Append(toolHistory, t)
      BY <1>3 DEF CheckAndRecord
    <2>6. toolHistory' \in Seq(Tool)
      BY <2>5 DEF PhaseTypes
    <2>. QED BY <2>1, <2>2, <2>4, <2>5, <2>6, NoSkillAssumption DEF PhaseTypes
  <1>4. ASSUME NEW t \in Tool, CallUnchecked(t) PROVE PhaseTypes'
    BY <1>4 DEF CallUnchecked, trackerVars, PhaseTypes
  <1>5. CASE UNCHANGED phaseVars
    BY <1>5 DEF phaseVars, trackerVars, PhaseTypes
  <1>. QED BY <1>1, <1>2, <1>3, <1>4, <1>5 DEF PhaseNext

\* The phase the tracker is in is always one of the active skill's, whatever
\* skills and tools there are.
THEOREM PhaseTypeCorrect == PhaseSpec => []PhaseTypes
  BY InitType, NextType, PTL DEF PhaseSpec
-----------------------------------------------------------------------------
(* The history *)

\* The phases a skill goes through by the calls of h.
Path(s, h, p) ==
  p = [i \in 0..Len(h) |-> IF i = 0 THEN 1 ELSE NextPhase(s, p[i - 1], h[i])]

\* The calls determine the phases: the least call after which two paths differ
\* would come from a phase on which they agree.
LEMMA OnePath ==
  ASSUME NEW s, NEW h \in Seq(Tool), NEW p, NEW q, Path(s, h, p), Path(s, h, q)
  PROVE  p = q
  <1> DEFINE D == {i \in 0..Len(h) : p[i] # q[i]}
  <1>1. /\ \A i \in 0..Len(h) : p[i] = IF i = 0 THEN 1 ELSE NextPhase(s, p[i - 1], h[i])
        /\ \A i \in 0..Len(h) : q[i] = IF i = 0 THEN 1 ELSE NextPhase(s, q[i - 1], h[i])
        /\ p = [i \in 0..Len(h) |-> p[i]]
        /\ q = [i \in 0..Len(h) |-> q[i]]
    BY DEF Path
  <1>2. D = {}
    <2> SUFFICES ASSUME D # {} PROVE FALSE
      OBVIOUS
    <2>1. PICK n \in D : \A m \in D : n =< m
      <3>1. D \in SUBSET Nat
        OBVIOUS
      <3>. QED BY <3>1, LeastElement
    <2>2. n \in 0..Len(h) /\ n # 0
      BY <1>1
    <2>3. n - 1 \in 0..Len(h) /\ n - 1 \notin D
      BY <2>1, <2>2
    <2>4. p[n - 1] = q[n - 1]
      BY <2>3
    <2>. QED BY <1>1, <2>2, <2>4
  <1>. QED BY <1>1, <1>2

LEMMA ReplayedPath ==
  ASSUME NEW s, NEW h \in Seq(Tool), NEW p, Path(s, h, p)
  PROVE  Replayed(s, h) = p[Len(h)]
  <1> DEFINE at == CHOOSE f : Path(s, h, f)
  <1>1. at = p
    BY OnePath
  <1>2. Replayed(s, h) = at[Len(h)]
    BY DEF Replayed, Path
  <1>. QED BY <1>1, <1>2

LEMMA LongerPath ==
  ASSUME NEW s, NEW h \in Seq(Tool), NEW t \in Tool, NEW p, Path(s, h, p)
  PROVE  \E q : Path(s, Append(h, t), q) /\ q[Len(h) + 1] = NextPhase(s, p[Len(h)], t)
  <1> DEFINE n == Len(h) + 1
             k == Append(h, t)
             q == [i \in 0..n |-> IF i = n THEN NextPhase(s, p[Len(h)], t) ELSE p[i]]
  <1>1. Len(h) \in Nat /\ Len(k) = n /\ k[n] = t /\ \A i \in 1..Len(h) : k[i] = h[i]
    OBVIOUS
  <1>2. \A i \in 0..Len(h) : p[i] = IF i = 0 THEN 1 ELSE NextPhase(s, p[i - 1], h[i])
    BY DEF Path
  <1>3. ASSUME NEW i \in 0..n PROVE q[i] = IF i = 0 THEN 1 ELSE NextPhase(s, q[i - 1], k[i])
    <2>1. CASE i = n
      <3>1. i # 0 /\ i - 1 = Len(h) /\ q[i - 1] = p[Len(h)] /\ k[i] = t
        BY <1>1, <2>1
      <3>2. q[i] = NextPhase(s, p[Len(h)], t)
        BY <2>1
      <3>. QED BY <3>1, <3>2
    <2>2. CASE i # n
      <3>1. i \in 0..Len(h) /\ q[i] = p[i]
        BY <1>1, <2>2
      <3>2. i # 0 => i - 1 \in 0..n /\ q[i - 1] = p[i - 1] /\ k[i] = h[i]
        BY <1>1, <3>1
      <3>. QED BY <1>2, <3>1, <3>2
    <2>. QED BY <2>1, <2>2
  <1>4. q = [i \in 0..n |-> IF i = 0 THEN 1 ELSE NextPhase(s, q[i - 1], k[i])]
    BY <1>3
  <1>5. Path(s, k, q)
    BY <1>1, <1>4 DEF Path
  <1>6. q[n] = NextPhase(s, p[Len(h)], t)
    BY <1>1
  <1>. QED BY <1>5, <1>6

\* The calls of the history lead somewhere, and that is where the tracker is.
Followed ==
  activeSkill # NoSkill =>
    \E p : Path(activeSkill, toolHistory, p) /\ p[Len(toolHistory)] = currentPhase

LEMMA NextFollowed == PhaseTypes /\ Followed /\ [PhaseNext]_phaseVars => Followed'
  <1> SUFFICES ASSUME PhaseTypes, Followed, [PhaseNext]_phaseVars PROVE Followed'
    OBVIOUS
  <1>1. CASE ActivateSkillTool
    <2>1. toolHistory' = <<>> /\ currentPhase' = 1
      BY <1>1 DEF ActivateSkillTool, Activate
    <2>2. \A s : Path(s, <<>>, [i \in 0..0 |-> 1])
      BY DEF Path
    <2>. QED BY <2>1, <2>2 DEF Followed
  <1>2. CASE Deactivate
    BY <1>2 DEF Deactivate, Followed
  <1>3. ASSUME NEW t \in Tool, CheckAndRecord(t) PROVE Followed'
    <2>1. /\ toolHistory \in Seq(Tool) /\ toolHistory' = Append(toolHistory, t)
          /\ activeSkill' = activeSkill /\ activeSkill # NoSkill
          /\ currentPhase' = NextPhase(activeSkill, currentPhase, t)
      BY <1>3 DEF CheckAndRecord, PhaseTypes
    <2>2. PICK p : Path(activeSkill, toolHistory, p) /\ p[Len(toolHistory)] = currentPhase
      BY <2>1 DEF Followed
    <2>3. \E q : /\ Path(activeSkill, Append(toolHistory, t), q)
                 /\ q[Len(toolHistory) + 1] = NextPhase(activeSkill, currentPhase, t)
      BY <2>1, <2>2, LongerPath
    <2>4. Len(Append(toolHistory, t)) = Len(toolHistory) + 1
      BY <2>1
    <2>. QED BY <2>1, <2>3, <2>4 DEF Followed
  <1>4. ASSUME NEW t \in Tool, CallUnchecked(t) PROVE Followed'
    BY <1>4 DEF CallUnchecked, trackerVars, Followed
  <1>5. CASE UNCHANGED phaseVars
    BY <1>5 DEF phaseVars, trackerVars, Followed
  <1>. QED BY <1>1, <1>2, <1>3, <1>4, <1>5 DEF PhaseNext

\* The history get_skill_phase returns leads from the first phase to the phase it
\* returns: no call moved the tracker unrecorded, for any skills and tools.
THEOREM HistoryLeadsToPhase == PhaseSpec => []HistoryExplainsPhase
  <1>1. PhaseInit => Followed
    BY DEF PhaseInit, Followed
  <1>2. PhaseTypes /\ Followed => HistoryExplainsPhase
    BY ReplayedPath DEF PhaseTypes, Followed, HistoryExplainsPhase
  <1>. QED BY <1>1, <1>2, NextFollowed, InitType, NextType, PTL DEF PhaseSpec
-----------------------------------------------------------------------------
(* The refinement *)

Work == IF activeSkill = NoSkill THEN NoSkill
        ELSE [skill |-> activeSkill, phase |-> currentPhase, strict |-> mode = "block"]

LEMMA InitGate == PhaseInit => Gate!GateInit
  BY DEF PhaseInit, Gate!GateInit

LEMMA ActivateGate ==
  ASSUME NEW s \in Skill, NEW m \in {"warn", "block"}, Activate(s, m)
  PROVE  Gate!Begin
  <1>1. Work = NoSkill /\ outcome' = outcome
    BY DEF Activate, Work
  <1>2. Work' = [skill |-> s, phase |-> 1, strict |-> m = "block"]
    BY NoSkillAssumption DEF Activate, Work
  <1>3. (m = "block") \in BOOLEAN
    OBVIOUS
  <1>. QED BY <1>1, <1>2, <1>3 DEF Gate!Begin, Work

\* A checked call is one that runs or one that is refused.
LEMMA CheckGate ==
  ASSUME PhaseTypes, NEW t \in Tool, CheckAndRecord(t)
  PROVE  Gate!Run(t) \/ Gate!Refuse(t)
  <1> DEFINE s == activeSkill
             p == currentPhase
             q == NextPhase(s, p, t)
             w == [skill |-> s, phase |-> p, strict |-> mode = "block"]
  <1>1. s \in Skill /\ p \in DOMAIN Phases[s]
    BY DEF CheckAndRecord, PhaseTypes
  <1>2. /\ s # NoSkill /\ activeSkill' = s /\ mode' = mode /\ currentPhase' = q
        /\ q \in DOMAIN Phases[s]
    BY <1>1, NextPhaseMovesOn DEF CheckAndRecord
  <1>3. p \in Nat
    BY <1>1, SkillPhases
  <1>4. Work = w /\ w # NoSkill /\ Work' = [w EXCEPT !.phase = q]
    <2>1. (mode = "block") \in BOOLEAN
      OBVIOUS
    <2>2. w \in [skill : Skill, phase : Nat, strict : BOOLEAN]
      BY <1>1, <1>3, <2>1
    <2>3. Work = w /\ w # NoSkill
      BY <1>2, <2>2, NoSkillAssumption DEF Work
    <2>4. Work' = [skill |-> s, phase |-> q, strict |-> mode = "block"]
      BY <1>2 DEF Work
    <2>. QED BY <2>3, <2>4
  <1>5. Gate!Forbids(w, t) <=> Forbidden(s, p, t)
    BY <1>1, SkillPhases DEF Gate!Forbids, Forbidden, EffectivePhases
  <1>6. CASE Forbidden(s, p, t)
    <2>1. q = p /\ Work' = Work
      BY <1>4, <1>6 DEF NextPhase
    <2>2. CASE mode = "block"
      <3>1. outcome' = [tool |-> t, ran |-> FALSE]
        BY <1>6, <2>2 DEF CheckAndRecord, CheckPhasePermission
      <3>. QED BY <1>4, <1>5, <1>6, <2>1, <2>2, <3>1 DEF Gate!Refuse, Work
    <2>3. CASE mode # "block"
      <3>1. outcome' = [tool |-> t, ran |-> TRUE]
        BY <1>6, <2>3 DEF CheckAndRecord, CheckPhasePermission
      <3>2. ~w.strict
        BY <2>3
      <3>. QED BY <1>4, <2>1, <3>1, <3>2 DEF Gate!Run, Work
    <2>. QED BY <2>2, <2>3
  <1>7. CASE ~Forbidden(s, p, t)
    <2>1. outcome' = [tool |-> t, ran |-> TRUE]
      BY <1>7 DEF CheckAndRecord, CheckPhasePermission
    <2>2. q = p => Work' = Work
      BY <1>4
    <2>3. ASSUME q # p
          PROVE  /\ q \in DOMAIN EffectivePhases[w.skill] /\ q > w.phase
                 /\ t \in EffectivePhases[w.skill][q].allowed
      <3>1. q > p /\ t \in Phases[s][q].allowed
        BY <1>1, <2>3, NextPhaseMovesOn
      <3>2. EffectivePhases[s] = [i \in DOMAIN Phases[s] |->
               [Phases[s][i] EXCEPT !.forbidden = @ \cup GlobalForbidden[s]]]
        BY <1>1 DEF EffectivePhases
      <3>. QED BY <1>1, <1>2, <3>1, <3>2, SkillPhases
    <2>. QED BY <1>4, <1>5, <1>7, <2>1, <2>2, <2>3 DEF Gate!Run, Work
  <1>. QED BY <1>6, <1>7

LEMMA NextGate == PhaseTypes /\ [PhaseNext]_phaseVars => [Gate!GateNext]_(Gate!gateVars)
  <1> SUFFICES ASSUME PhaseTypes, [PhaseNext]_phaseVars PROVE [Gate!GateNext]_(Gate!gateVars)
    OBVIOUS
  <1>1. CASE ActivateSkillTool
    BY <1>1, ActivateGate DEF ActivateSkillTool, Gate!GateNext
  <1>2. CASE Deactivate
    BY <1>2 DEF Deactivate, Gate!GateNext, Gate!Finish
  <1>3. ASSUME NEW t \in Tool, CheckAndRecord(t) PROVE Gate!GateNext
    BY <1>3, CheckGate DEF Gate!GateNext
  <1>4. ASSUME NEW t \in Tool, CallUnchecked(t) PROVE Gate!GateNext
    BY <1>4 DEF CallUnchecked, trackerVars, Gate!GateNext, Gate!Run
  <1>5. CASE UNCHANGED phaseVars
    BY <1>5 DEF phaseVars, trackerVars, Gate!gateVars
  <1>. QED BY <1>1, <1>2, <1>3, <1>4, <1>5 DEF PhaseNext

\* Every behaviour of the tracker is one of the abstract gate, for every set of
\* skills: in block mode no tool runs in a phase that forbids it, every other
\* tool runs, and the workflow moves only forward, to a phase that lists the tool.
THEOREM TrackerImplementsGate == PhaseSpec => ImplementsGate
  <1>1. PhaseInit => Gate!GateInit
    BY InitGate
  <1>2. PhaseTypes /\ [PhaseNext]_phaseVars => [Gate!GateNext]_(Gate!gateVars)
    BY NextGate
  <1>. QED BY <1>1, <1>2, PhaseTypeCorrect, PTL DEF PhaseSpec, ImplementsGate, Gate!GateSpec
-----------------------------------------------------------------------------
(* Readiness *)

\* While the load runs its token is active; a loaded flag was either set by a wait
\* of before, or some wait gave up on the load; and so it will be for the waits
\* that have returned and not yet set the flag.
LoadInv ==
  load # NoToken =>
    /\ load \in running /\ load \in progressTokens
    /\ workspaceLoaded => overwritten \/ load \in staleProgress
    /\ \A w \in Waiter :
         pc[w] = "store" /\ w \notin late /\ ~cancelled[w] => load \in staleProgress

IInv == TypeOK /\ StaleIsActive /\ LoadInv

-----------------------------------------------------------------------------
(* Types *)

LEMMA ServerTypes ==
  ASSUME TypeOK, NEW t \in Token,
         WorkDoneProgressCreate(t) \/ ProgressBegin(t) \/ ProgressEnd(t)
  PROVE  TypeOK'
  <1>1. CASE WorkDoneProgressCreate(t)
    BY <1>1, BoundAssumption DEF WorkDoneProgressCreate, TypeOK, waitVars
  <1>2. CASE ProgressBegin(t)
    <2>1. /\ runs' \in 0..MaxRuns /\ created' \subseteq Token /\ running' \subseteq Token
      BY <1>2, BoundAssumption DEF ProgressBegin, ServerBegins, TypeOK
    <2>2. load' \in Token \cup {NoToken} /\ late' \subseteq Waiter /\ overwritten' \in BOOLEAN
          /\ workspaceLoaded' \in BOOLEAN
      BY <1>2 DEF ProgressBegin, TypeOK
    <2>. QED BY <1>2, <2>1, <2>2 DEF ProgressBegin, TypeOK, waitVars
  <1>3. CASE ProgressEnd(t)
    <2>1. pc' \in [Waiter -> PCs]
          /\ \A w \in Waiter : pc'[w] \in {"check", "toWait"} <=> pc[w] \in {"check", "toWait"}
      BY <1>3 DEF ProgressEnd, Woken, TypeOK, PCs
    <2>. QED BY <1>3, <2>1 DEF ProgressEnd, ServerEnds, TypeOK
  <1>. QED BY <1>1, <1>2, <1>3

\* What the steps of a wait have in common.
LEMMA WaitTypes ==
  ASSUME TypeOK, NEW w \in Waiter,
         WaitStep(w) \/ ensureWorkspaceReady(w) \/ waitForWorkspaceReady(w)
           \/ WaitForWorkspaceReadyTimeout(w)
  PROVE  TypeOK'
  <1>1. ASSUME NEW k \in {"query", "long", "short"}, Call(w, k) PROVE TypeOK'
    BY <1>1 DEF Call, TypeOK, PCs, serverVars, tokenVars
  <1>2. CASE Lock(w)
    BY <1>2, NoneAssumption DEF Lock, TypeOK, PCs, serverVars, tokenVars
  <1>3. CASE GraceCheck(w) \/ WaitCheck(w)
    <2>1. /\ pc[w] = "check"
          /\ Return(w) \/ GoToSleep(w) \/ (pc' = pc /\ progressMu' = progressMu)
      <3>1. CASE GraceCheck(w)
        BY <3>1 DEF GraceCheck
      <3>2. CASE WaitCheck(w)
        BY <3>2 DEF WaitCheck
      <3>. QED BY <1>3, <3>1, <3>2
    <2>2. progressMu = w /\ \A v \in Waiter : pc[v] \in {"check", "toWait"} => v = w
      BY <2>1 DEF TypeOK
    <2>3. /\ pc' \in [Waiter -> PCs] /\ progressMu' \in Waiter \cup {Nobody}
          /\ \A v \in Waiter : progressMu' = v <=> pc'[v] \in {"check", "toWait"}
      BY <2>1, <2>2, NoneAssumption DEF Return, GoToSleep, TypeOK, PCs
    <2>4. CASE GraceCheck(w)
      BY <2>3, <2>4 DEF GraceCheck, Return, GoToSleep, TypeOK, serverVars, tokenVars
    <2>5. CASE WaitCheck(w)
      BY <2>3, <2>5 DEF WaitCheck, Return, GoToSleep, TypeOK, serverVars
    <2>. QED BY <1>3, <2>4, <2>5
  <1>4. CASE Sleep(w)
    <2>1. progressMu = w /\ \A v \in Waiter : pc[v] \in {"check", "toWait"} => v = w
      BY <1>4 DEF Sleep, TypeOK
    <2>. QED BY <1>4, <2>1, NoneAssumption DEF Sleep, TypeOK, PCs, serverVars, tokenVars
  <1>5. CASE Relock(w)
    BY <1>5, NoneAssumption DEF Relock, TypeOK, PCs, serverVars, tokenVars
  <1>6. CASE StoreLoaded(w)
    BY <1>6 DEF StoreLoaded, TypeOK, PCs, serverVars, tokenVars
  <1>. QED BY <1>1, <1>2, <1>3, <1>4, <1>5, <1>6 DEF WaitStep, ensureWorkspaceReady,
              waitForWorkspaceReady, WaitForWorkspaceReadyTimeout

LEMMA TimeTypes ==
  ASSUME TypeOK, NEW w \in Waiter, DeadlinePasses(w) \/ Cancel(w) \/ HelperBroadcasts(w)
  PROVE  TypeOK'
  <1>1. CASE DeadlinePasses(w) \/ Cancel(w)
    BY <1>1 DEF DeadlinePasses, Cancel, TypeOK, serverVars, tokenVars
  <1>2. CASE HelperBroadcasts(w)
    <2>1. pc' \in [Waiter -> PCs]
          /\ \A v \in Waiter : pc'[v] \in {"check", "toWait"} <=> pc[v] \in {"check", "toWait"}
      BY <1>2 DEF HelperBroadcasts, Woken, TypeOK, PCs
    <2>. QED BY <1>2, <2>1 DEF HelperBroadcasts, TypeOK, serverVars, tokenVars
  <1>. QED BY <1>1, <1>2

LEMMA NextTypes == TypeOK /\ [Next]_vars => TypeOK'
  <1> SUFFICES ASSUME TypeOK, [Next]_vars PROVE TypeOK'
    OBVIOUS
  <1>1. CASE RestartTokens
    <2>1. restarts' \in 0..MaxRestarts
      BY <1>1, BoundAssumption DEF RestartTokens, TypeOK
    <2>. QED BY <1>1, <2>1 DEF RestartTokens, TypeOK, waitVars
  <1>2. CASE RestartFlag
    BY <1>2 DEF RestartFlag, TypeOK, serverVars, tokenVars, waitVars
  <1>3. CASE UNCHANGED vars
    BY <1>3 DEF vars, serverVars, tokenVars, waitVars, TypeOK
  <1>. QED BY <1>1, <1>2, <1>3, ServerTypes, WaitTypes, TimeTypes DEF Next

LEMMA InitTypes == Init => TypeOK
  <1>1. ASSUME Init PROVE runs \in 0..MaxRuns /\ restarts \in 0..MaxRestarts
    BY <1>1, BoundAssumption DEF Init
  <1>2. ASSUME Init PROVE \A w \in Waiter : progressMu = w <=> pc[w] \in {"check", "toWait"}
    BY <1>2, NoneAssumption DEF Init
  <1>3. ASSUME Init
        PROVE  /\ pc \in [Waiter -> PCs] /\ kind \in [Waiter -> {"query", "long", "short"}]
               /\ phase \in [Waiter -> {"grace", "wait"}] /\ helper \in [Waiter -> BOOLEAN]
               /\ due \in [Waiter -> BOOLEAN] /\ cancelled \in [Waiter -> BOOLEAN]
    BY <1>3 DEF Init, PCs
  <1>. QED BY <1>1, <1>2, <1>3 DEF Init, TypeOK
-----------------------------------------------------------------------------
(* The load *)

\* A wait that returns while the load runs has given up on it, or was cancelled.
LEMMA ReturnGivesUp ==
  ASSUME IInv, NEW w \in Waiter, GraceCheck(w) \/ WaitCheck(w), pc'[w] = "store",
         load # NoToken, ~cancelled[w]
  PROVE  load \in staleProgress'
  <1>1. kind[w] = "query" /\ load \in progressTokens
    BY DEF GraceCheck, WaitCheck, Return, GoToSleep, IInv, TypeOK, LoadInv
  <1>2. CASE GraceCheck(w)
    BY <1>1, <1>2 DEF GraceCheck, Return, GoToSleep, Pending, SkipStale, IInv, TypeOK, tokenVars
  <1>3. CASE WaitCheck(w)
    BY <1>1, <1>3 DEF WaitCheck, Return, GoToSleep, Pending, SkipStale, IInv, TypeOK
  <1>. QED BY <1>2, <1>3

LEMMA ServerLoad ==
  ASSUME IInv, NEW t \in Token,
         WorkDoneProgressCreate(t) \/ ProgressBegin(t) \/ ProgressEnd(t)
  PROVE  StaleIsActive' /\ LoadInv'
  <1>1. CASE WorkDoneProgressCreate(t)
    BY <1>1 DEF WorkDoneProgressCreate, IInv, StaleIsActive, LoadInv, waitVars
  <1>2. CASE ProgressBegin(t)
    <2>1. StaleIsActive'
      BY <1>2 DEF ProgressBegin, IInv, StaleIsActive
    <2>2. CASE seenProgress
      <3>1. load # NoToken => load # t
        BY <1>2 DEF ProgressBegin, ServerBegins, IInv, LoadInv
      <3>. QED BY <1>2, <2>1, <2>2, <3>1
             DEF ProgressBegin, ServerBegins, IInv, LoadInv, waitVars
    <2>3. CASE ~seenProgress
      BY <1>2, <2>1, <2>3 DEF ProgressBegin, ServerBegins, LoadInv, waitVars
    <2>. QED BY <2>2, <2>3
  <1>3. CASE ProgressEnd(t)
    <2>1. \A w \in Waiter : pc'[w] = "store" => pc[w] = "store"
      BY <1>3 DEF ProgressEnd, Woken, IInv, TypeOK
    <2>2. StaleIsActive'
      BY <1>3 DEF ProgressEnd, IInv, StaleIsActive
    <2>3. CASE load = t
      BY <1>3, <2>2, <2>3 DEF ProgressEnd, ServerEnds, LoadInv
    <2>4. CASE load # t
      BY <1>3, <2>1, <2>2, <2>4 DEF ProgressEnd, ServerEnds, IInv, LoadInv
    <2>. QED BY <2>3, <2>4
  <1>. QED BY <1>1, <1>2, <1>3

LEMMA WaitLoad ==
  ASSUME IInv, NEW w \in Waiter,
         WaitStep(w) \/ ensureWorkspaceReady(w) \/ waitForWorkspaceReady(w)
           \/ WaitForWorkspaceReadyTimeout(w)
  PROVE  StaleIsActive' /\ LoadInv'
  <1>1. ASSUME NEW k \in {"query", "long", "short"}, Call(w, k) PROVE StaleIsActive' /\ LoadInv'
    <2>1. \A v \in Waiter : pc'[v] = "store" => v # w /\ pc[v] = "store"
                                              /\ cancelled'[v] = cancelled[v]
      BY <1>1 DEF Call, IInv, TypeOK
    <2>. QED BY <1>1, <2>1 DEF Call, IInv, StaleIsActive, LoadInv, serverVars, tokenVars
  <1>2. CASE Lock(w) \/ Sleep(w) \/ Relock(w)
    <2>1. \A v \in Waiter : pc'[v] = "store" => pc[v] = "store"
      BY <1>2 DEF Lock, Sleep, Relock, IInv, TypeOK
    <2>. QED BY <1>2, <2>1 DEF Lock, Sleep, Relock, IInv, StaleIsActive, LoadInv, serverVars,
                tokenVars
  <1>3. CASE GraceCheck(w) \/ WaitCheck(w)
    <2>1. \A v \in Waiter \ {w} : pc'[v] = pc[v]
      BY <1>3 DEF GraceCheck, WaitCheck, Return, GoToSleep, IInv, TypeOK
    <2>2. /\ staleProgress \subseteq staleProgress'
          /\ staleProgress' \subseteq staleProgress \cup progressTokens
          /\ UNCHANGED <<serverVars, progressTokens, workspaceLoaded, cancelled, late, overwritten>>
      BY <1>3 DEF GraceCheck, WaitCheck, tokenVars
    <2>3. pc'[w] = "store" /\ load # NoToken /\ ~cancelled[w] => load \in staleProgress'
      BY <1>3, ReturnGivesUp
    <2>. QED BY <2>1, <2>2, <2>3 DEF IInv, StaleIsActive, LoadInv, serverVars
  <1>4. CASE StoreLoaded(w)
    <2>1. \A v \in Waiter : pc'[v] = "store" => v # w /\ pc[v] = "store"
      BY <1>4 DEF StoreLoaded, IInv, TypeOK
    <2>2. load # NoToken => overwritten' \/ load \in staleProgress
      BY <1>4 DEF StoreLoaded, IInv, LoadInv
    <2>. QED BY <1>4, <2>1, <2>2 DEF StoreLoaded, IInv, StaleIsActive, LoadInv, serverVars, tokenVars
  <1>. QED BY <1>1, <1>2, <1>3, <1>4 DEF WaitStep, ensureWorkspaceReady,
              waitForWorkspaceReady, WaitForWorkspaceReadyTimeout

LEMMA TimeLoad ==
  ASSUME IInv, NEW w \in Waiter, DeadlinePasses(w) \/ Cancel(w) \/ HelperBroadcasts(w)
  PROVE  StaleIsActive' /\ LoadInv'
  <1>1. \A v \in Waiter : pc'[v] = "store" => pc[v] = "store" /\ cancelled'[v] = cancelled[v]
    BY DEF DeadlinePasses, Cancel, HelperBroadcasts, Woken, IInv, TypeOK
  <1>2. UNCHANGED <<serverVars, tokenVars, workspaceLoaded, late, overwritten>>
    BY DEF DeadlinePasses, Cancel, HelperBroadcasts
  <1>. QED BY <1>1, <1>2 DEF IInv, StaleIsActive, LoadInv, serverVars, tokenVars

LEMMA NextIInv == IInv /\ [Next]_vars => IInv'
  <1> SUFFICES ASSUME IInv, [Next]_vars PROVE IInv'
    OBVIOUS
  <1>1. TypeOK'
    BY NextTypes DEF IInv
  <1>2. CASE RestartTokens \/ RestartFlag
    BY <1>1, <1>2 DEF RestartTokens, RestartFlag, IInv, StaleIsActive, LoadInv, serverVars,
       tokenVars, waitVars
  <1>3. CASE UNCHANGED vars
    BY <1>1, <1>3 DEF vars, serverVars, tokenVars, waitVars, IInv, StaleIsActive, LoadInv
  <1>. QED BY <1>1, <1>2, <1>3, ServerLoad, WaitLoad, TimeLoad DEF Next, IInv

LEMMA InitIInv == Init => IInv
  BY InitTypes DEF Init, IInv, StaleIsActive, LoadInv

\* For any number of waits and tokens: the holder of progressMu is the wait that
\* is between taking and releasing it, and everything is well typed.
THEOREM ReadinessTypeCorrect == Spec => []TypeOK
  BY InitTypes, NextTypes, PTL DEF Spec

\* Waits that run into their deadline never make tools report a workspace whose
\* load still runs as indexed (client_notify.go:34-38).
THEOREM TimeoutsAreNotLoads == Spec => []IndexedUnlessOverwritten
  <1>1. IInv => IndexedUnlessOverwritten
    BY DEF IInv, LoadInv, IndexedUnlessOverwritten, IsWorkspaceLoaded
  <1>. QED BY <1>1, InitIInv, NextIInv, PTL DEF Spec

\* No progress after the load takes readiness back; only Restart does
\* (client.go:831-840).
THEOREM LoadedStays == Spec => LoadedForGood
  <1>1. [Next]_vars => (seenProgress /\ workspaceLoaded /\ ~resetting => workspaceLoaded')
    BY DEF Next, vars, ensureWorkspaceReady, waitForWorkspaceReady, WaitForWorkspaceReadyTimeout,
       Call, WaitStep, Lock, GraceCheck, WaitCheck, Sleep, Relock, StoreLoaded, DeadlinePasses,
       Cancel, HelperBroadcasts, WorkDoneProgressCreate, ProgressBegin, ProgressEnd,
       RestartTokens, RestartFlag
  <1>. QED BY <1>1, PTL DEF Spec, LoadedForGood
-----------------------------------------------------------------------------
(* Daemon *)

Registry ==
  /\ dir \in BOOLEAN /\ pidFile \in Broker \cup {None} /\ sock \in Broker \cup {None}
  /\ info \in [pid : Broker \cup {None}, ready : BOOLEAN]

Brokers ==
  /\ bpc \in [Broker -> BrokerPCs]
  /\ ready \in [Broker -> BOOLEAN]
  /\ queued \in [Broker -> SUBSET Session] /\ served \in [Broker -> SUBSET Session]

Sessions ==
  /\ spc \in [Session -> SessionPCs]
  /\ saw \in [Session -> [pid : Broker \cup {None}, ready : BOOLEAN, first : BOOLEAN]]
  /\ warm \in [Session -> BOOLEAN] /\ conn \in [Session -> Broker \cup {None}]
  /\ contended \in BOOLEAN

Connections == \A s \in Session, b \in Broker : s \in queued[b] \cup served[b] => conn[s] = b

\* Only a session that is not connected dials, so no broker holds its connection.
Idle == \A s \in Session : spc[s] # "connected" => conn[s] = None

Published == {"serving", "closing", "wipe", "unlink", "dead"}

DaemonInv == Registry /\ Brokers /\ Sessions /\ Connections /\ Idle /\ PublishedIsBound

-----------------------------------------------------------------------------
(* What the steps have in common *)

\* daemon.json stays, is removed, or is written by a broker that is up.
InfoStep ==
  \/ info' = info
  \/ info' = [pid |-> None, ready |-> FALSE]
  \/ \E b \in Broker, r \in BOOLEAN :
       info' = [pid |-> b, ready |-> r] /\ bpc'[b] \in Published

\* A broker that has published goes on to its exit.
BrokersMoveOn ==
  \A b \in Broker : bpc[b] \in Published => bpc'[b] \in Published

LEMMA PublishedKept ==
  ASSUME DaemonInv, InfoStep, BrokersMoveOn
  PROVE  PublishedIsBound'
  BY NoneIsNoProcess DEF DaemonInv, Registry, InfoStep, BrokersMoveOn, PublishedIsBound, Published

\* The registry stays or is removed.
LEMMA RegistryKept ==
  ASSUME Registry, Wipe \/ UNCHANGED registryVars
  PROVE  Registry'
  <1>1. [pid |-> None, ready |-> FALSE] \in [pid : Broker \cup {None}, ready : BOOLEAN]
    OBVIOUS
  <1>2. CASE Wipe
    BY <1>1, <1>2 DEF Registry, Wipe
  <1>3. CASE UNCHANGED registryVars
    BY <1>3 DEF Registry, registryVars
  <1>. QED BY <1>2, <1>3

\* A step of a broker leaves the sessions alone, and drops connections at most.
LEMMA ConnectionsKept ==
  ASSUME Connections, Idle, UNCHANGED <<spc, conn>>,
         \A b \in Broker : queued'[b] \cup served'[b] \subseteq queued[b] \cup served[b]
  PROVE  Connections' /\ Idle'
  BY DEF Connections, Idle

-----------------------------------------------------------------------------
(* Steps *)

LEMMA BrokerInv ==
  ASSUME DaemonInv, NEW b \in Broker,
         BrokerStep(b) \/ IdleExit(b) \/ Signalled(b) \/ Crash(b)
  PROVE  DaemonInv'
  <1>. USE DEF DaemonInv
  <1>1. Sessions' /\ UNCHANGED <<spc, conn>>
    BY DEF BrokerStep, MakeDir, WritePid, Initialize, Listen, Publish, CleanupFailed, MarkReady,
       HandleConnection, CleanupCheck, CleanupWipe, CloseListener, IdleExit, Signalled, Crash,
       sessionVars, Sessions
  <1>2. /\ Registry' /\ Brokers' /\ InfoStep /\ BrokersMoveOn
        /\ \A c \in Broker : queued'[c] \cup served'[c] \subseteq queued[c] \cup served[c]
    <2>. USE DEF Registry, Brokers, BrokerPCs, Published, InfoStep, BrokersMoveOn
    <2>1. CASE MakeDir(b) \/ Initialize(b) \/ Listen(b)
      BY <2>1 DEF MakeDir, Initialize, Listen, Go, registryVars
    <2>2. CASE WritePid(b)
      BY <2>2 DEF WritePid, Go, Exit
    <2>3. CASE Publish(b)
      BY <2>3 DEF Publish, Go, WriteDaemonInfo
    <2>4. CASE MarkReady(b)
      BY <2>4 DEF MarkReady, Up, WriteDaemonInfo
    <2>5. CASE HandleConnection(b)
      BY <2>5 DEF HandleConnection, WriteDaemonInfo
    <2>6. CASE CleanupFailed(b)
      <3>1. Wipe \/ UNCHANGED registryVars
        BY <2>6 DEF CleanupFailed
      <3>2. Registry' /\ InfoStep
        BY <3>1, RegistryKept DEF Wipe, registryVars
      <3>3. Brokers' /\ BrokersMoveOn
            /\ \A c \in Broker : queued'[c] \cup served'[c] \subseteq queued[c] \cup served[c]
        BY <2>6 DEF CleanupFailed, Exit
      <3>. QED BY <3>2, <3>3
    <2>7. CASE IdleExit(b) \/ Signalled(b) \/ CleanupCheck(b)
      BY <2>7 DEF IdleExit, Signalled, CleanupCheck, Go, registryVars
    <2>8. CASE CleanupWipe(b)
      BY <2>8 DEF CleanupWipe, Go, Wipe
    <2>9. CASE CloseListener(b)
      BY <2>9 DEF CloseListener, Exit
    <2>10. CASE Crash(b)
      BY <2>10 DEF Crash, Exit, registryVars, Alive
    <2>. QED BY <2>1, <2>2, <2>3, <2>4, <2>5, <2>6, <2>7, <2>8, <2>9, <2>10 DEF BrokerStep
  <1>. QED BY <1>1, <1>2, PublishedKept, ConnectionsKept

LEMMA SessionInv ==
  ASSUME DaemonInv, NEW s \in Session,
         \/ StartDaemon(s) \/ Sweep(s) \/ FindRead(s) \/ FindCheck(s) \/ NewDaemonClient(s)
         \/ SpawnDaemonProcess(s) \/ SpawnFails(s) \/ GiveUp(s)
         \/ References(s) \/ Disconnect(s)
  PROVE  DaemonInv'
  <1>. USE DEF DaemonInv
  <1>1. InfoStep
    BY DEF StartDaemon, Sweep, FindRead, FindCheck, NewDaemonClient, SpawnDaemonProcess,
       SpawnFails, GiveUp, References, Disconnect, Wipe, registryVars, InfoStep
  <1>2. /\ Registry' /\ Brokers' /\ Sessions' /\ BrokersMoveOn /\ Connections' /\ Idle'
    <2>. USE DEF Registry, Brokers, Sessions, SessionPCs, BrokersMoveOn, Connections, Idle
    <2>1. CASE StartDaemon(s)
      BY <2>1 DEF StartDaemon, SGo, registryVars, brokerVars
    <2>2. CASE Sweep(s)
      <3>1. Wipe \/ UNCHANGED registryVars
        BY <2>2 DEF Sweep
      <3>. QED BY <2>2, <3>1, RegistryKept DEF Sweep, SGo, brokerVars
    <2>3. CASE FindRead(s)
      BY <2>3 DEF FindRead, registryVars, brokerVars
    <2>4. CASE FindCheck(s)
      <3>1. Wipe \/ UNCHANGED registryVars
        BY <2>4 DEF FindCheck
      <3>2. Registry'
        BY <3>1, RegistryKept
      <3>3. /\ spc[s] = "check" /\ UNCHANGED <<brokerVars, saw, conn, warm, contended>>
            /\ \E l \in {"connect", "spawn", "poll"} : spc' = [spc EXCEPT ![s] = l]
        BY <2>4 DEF FindCheck, NotFound
      <3>. QED BY <3>2, <3>3 DEF brokerVars
    <2>5. CASE NewDaemonClient(s)
      <3>1. CASE Dialable
        <4>1. sock \in Broker /\ spc[s] = "connect" /\ conn[s] = None
          BY <2>5, <3>1 DEF NewDaemonClient, Dialable
        <4>2. /\ queued' = [queued EXCEPT ![sock] = @ \cup {s}]
              /\ conn' = [conn EXCEPT ![s] = sock]
              /\ warm' = [warm EXCEPT ![s] = saw[s].ready]
              /\ spc' = [spc EXCEPT ![s] = "connected"]
              /\ UNCHANGED <<registryVars, bpc, ready, served, saw, contended>>
          BY <2>5, <3>1 DEF NewDaemonClient, SGo
        <4>3. \A b \in Broker : s \notin queued[b] \cup served[b]
          BY <4>1, NoneIsNoProcess
        <4>4. Connections' /\ Idle'
          BY <4>1, <4>2, <4>3
        <4>5. Registry' /\ Brokers' /\ Sessions' /\ BrokersMoveOn
          BY <4>1, <4>2 DEF registryVars
        <4>. QED BY <4>4, <4>5
      <3>2. CASE ~Dialable
        BY <2>5, <3>2 DEF NewDaemonClient, SGo, registryVars
      <3>. QED BY <3>1, <3>2
    <2>6. CASE SpawnDaemonProcess(s)
      BY <2>6 DEF SpawnDaemonProcess, SGo, Go, registryVars, BrokerPCs, Published
    <2>7. CASE SpawnFails(s) \/ GiveUp(s)
      BY <2>7 DEF SpawnFails, GiveUp, SGo, registryVars, brokerVars
    <2>8. CASE References(s)
      BY <2>8 DEF References, registryVars, brokerVars
    <2>9. CASE Disconnect(s)
      BY <2>9 DEF Disconnect, SGo, registryVars
    <2>. QED BY <2>1, <2>2, <2>3, <2>4, <2>5, <2>6, <2>7, <2>8, <2>9
  <1>. QED BY <1>1, <1>2, PublishedKept

LEMMA NextDaemon == DaemonInv /\ [DaemonNext]_daemonVars => DaemonInv'
  <1>1. DaemonInv /\ UNCHANGED daemonVars => DaemonInv'
    BY DEF daemonVars, registryVars, brokerVars, sessionVars, DaemonInv, Registry, Brokers, Sessions,
       Connections, Idle, PublishedIsBound
  <1>. QED BY <1>1, BrokerInv, SessionInv DEF DaemonNext

LEMMA InitDaemon == DaemonInit => DaemonInv
  <1>1. DaemonInit => Registry /\ PublishedIsBound
    <2>1. [pid |-> None, ready |-> FALSE] \in [pid : Broker \cup {None}, ready : BOOLEAN]
      OBVIOUS
    <2>2. DaemonInit => info \in [pid : Broker \cup {None}, ready : BOOLEAN] /\ info.pid = None
      BY <2>1 DEF DaemonInit
    <2>3. DaemonInit => dir \in BOOLEAN /\ pidFile \in Broker \cup {None} /\ sock \in Broker \cup {None}
      BY DEF DaemonInit
    <2>. QED BY <2>2, <2>3 DEF Registry, PublishedIsBound
  <1>2. DaemonInit => Brokers
    BY DEF DaemonInit, Brokers, BrokerPCs
  <1>3. DaemonInit => Sessions
    <2>1. NoSight \in [pid : Broker \cup {None}, ready : BOOLEAN, first : BOOLEAN]
      BY DEF NoSight
    <2>2. DaemonInit => saw \in [Session -> [pid : Broker \cup {None}, ready : BOOLEAN, first : BOOLEAN]]
      BY <2>1 DEF DaemonInit
    <2>3. DaemonInit => /\ spc \in [Session -> SessionPCs] /\ warm \in [Session -> BOOLEAN]
                  /\ conn \in [Session -> Broker \cup {None}] /\ contended \in BOOLEAN
      BY DEF DaemonInit, SessionPCs
    <2>. QED BY <2>2, <2>3 DEF Sessions
  <1>4. DaemonInit => Connections /\ Idle
    BY DEF DaemonInit, Connections, Idle
  <1>. QED BY <1>1, <1>2, <1>3, <1>4 DEF DaemonInv

\* For any number of brokers and sessions: everything is well typed, and a broker
\* holds only connections of sessions that are connected to it.
THEOREM DaemonTypeCorrect == DaemonSpec => []DaemonTypes
  <1>1. DaemonInv => DaemonTypes
    BY DEF DaemonInv, Registry, Brokers, Sessions, Connections, DaemonTypes
  <1>. QED BY <1>1, InitDaemon, NextDaemon, PTL DEF DaemonSpec

\* daemon.json never names a broker that has not bound its socket
\* (daemon_broker.go:69-77).
THEOREM PublishedAfterBind == DaemonSpec => []PublishedIsBound
  <1>1. DaemonInv => PublishedIsBound
    BY DEF DaemonInv
  <1>. QED BY <1>1, InitDaemon, NextDaemon, PTL DEF DaemonSpec
-----------------------------------------------------------------------------
(* What a start may rely on while nothing else starts *)

\* no broker but x is alive
OnlyLive(x) == \A b \in Broker : Alive(b) => b = x

Starting(s) == spc[s] \notin {"idle", "connected"}

\* A flag read from daemon.json is the named broker's own, whoever reads it.
FlagsAreTrue ==
  /\ info.ready => info.pid # None /\ ready[info.pid]
  /\ \A s \in Session : saw[s].ready => saw[s].pid # None /\ ready[saw[s].pid]

\* A session is connected to a broker that had bound its socket.
DialledWasBound ==
  \A s \in Session :
    /\ warm[s] \/ spc[s] = "connected" => conn[s] # None
    /\ conn[s] # None => bpc[conn[s]] \in {"publish"} \cup Published

OneBroker == \A b, c \in Broker : Alive(b) /\ Alive(c) => b = c
OneStarter == \A s, t \in Session : Starting(s) /\ Starting(t) => s = t

\* daemon.json names the broker that lives, or none or a dead one while none does.
InfoIsLive == info.pid # None => OnlyLive(info.pid)

\* So does what a start has read, until it acts on it.
SightIsLive ==
  \A s \in Session :
    spc[s] \in {"sweep", "connect"} \/ (spc[s] = "check" /\ saw[s].pid # None) =>
      OnlyLive(saw[s].pid)

\* A broker finds its registry entries where it left them.
EntriesStay ==
  \A b \in Broker :
    /\ bpc[b] \in {"init", "bind", "publish", "serving"} => pidFile = b
    /\ bpc[b] \in {"publish", "serving"} => sock = b
    /\ bpc[b] = "serving" => info.pid = b

WarmIsReady == \A s \in Session : warm[s] /\ Alive(conn[s]) => ready[conn[s]]

Quiet == OneBroker /\ OneStarter /\ InfoIsLive /\ SightIsLive /\ EntriesStay /\ WarmIsReady

QInv == FlagsAreTrue /\ DialledWasBound /\ (~contended => Quiet)

\* what a step of a broker does to the things Quiet speaks of
LEMMA BrokerEffect ==
  ASSUME DaemonInv, NEW b \in Broker,
         BrokerStep(b) \/ IdleExit(b) \/ Signalled(b) \/ Crash(b)
  PROVE  /\ UNCHANGED <<spc, saw, conn, warm, contended>>
         /\ Alive(b) /\ \A c \in Broker \ {b} : bpc'[c] = bpc[c]
         /\ bpc[b] \in {"publish"} \cup Published => bpc'[b] \in Published
         /\ \A c \in Broker : ready[c] => ready'[c]
         /\ \/ info' = info
            \/ info' = [pid |-> None, ready |-> FALSE]
            \/ \E r \in BOOLEAN : info' = [pid |-> b, ready |-> r] /\ (r => ready'[b])
  <1>. USE DEF DaemonInv, Registry, Brokers, BrokerPCs, Published, Alive, sessionVars
  <1>1. CASE MakeDir(b) \/ Initialize(b) \/ Listen(b)
    BY <1>1 DEF MakeDir, Initialize, Listen, Go, registryVars
  <1>2. CASE WritePid(b)
    BY <1>2 DEF WritePid, Go, Exit
  <1>3. CASE Publish(b)
    BY <1>3 DEF Publish, Go, WriteDaemonInfo
  <1>4. CASE MarkReady(b)
    BY <1>4 DEF MarkReady, Up, WriteDaemonInfo
  <1>5. CASE HandleConnection(b)
    BY <1>5 DEF HandleConnection, WriteDaemonInfo
  <1>6. CASE CleanupFailed(b)
    BY <1>6 DEF CleanupFailed, Exit, Wipe, registryVars
  <1>7. CASE IdleExit(b) \/ Signalled(b) \/ CleanupCheck(b)
    BY <1>7 DEF IdleExit, Signalled, CleanupCheck, Go, registryVars
  <1>8. CASE CleanupWipe(b)
    BY <1>8 DEF CleanupWipe, Go, Wipe
  <1>9. CASE CloseListener(b) \/ Crash(b)
    BY <1>9 DEF CloseListener, Crash, Exit, registryVars
  <1>. QED BY <1>1, <1>2, <1>3, <1>4, <1>5, <1>6, <1>7, <1>8, <1>9 DEF BrokerStep

\* the entries of a broker, after its own step
LEMMA OwnEntries ==
  ASSUME DaemonInv, EntriesStay, NEW b \in Broker,
         BrokerStep(b) \/ IdleExit(b) \/ Signalled(b) \/ Crash(b)
  PROVE  /\ bpc'[b] \in {"init", "bind", "publish", "serving"} => pidFile' = b
         /\ bpc'[b] \in {"publish", "serving"} => sock' = b
         /\ bpc'[b] = "serving" => info'.pid = b
  <1>. USE DEF DaemonInv, Registry, Brokers, BrokerPCs, EntriesStay
  <1>1. CASE MakeDir(b) \/ Initialize(b) \/ Listen(b)
    BY <1>1 DEF MakeDir, Initialize, Listen, Go, registryVars
  <1>2. CASE WritePid(b)
    BY <1>2 DEF WritePid, Go, Exit
  <1>3. CASE Publish(b)
    BY <1>3 DEF Publish, Go, WriteDaemonInfo
  <1>4. CASE MarkReady(b)
    BY <1>4 DEF MarkReady, Up, WriteDaemonInfo
  <1>5. CASE HandleConnection(b)
    BY <1>5 DEF HandleConnection, WriteDaemonInfo
  <1>6. CASE CleanupFailed(b) \/ CloseListener(b) \/ Crash(b)
    BY <1>6 DEF CleanupFailed, CloseListener, Crash, Exit
  <1>7. CASE IdleExit(b) \/ Signalled(b) \/ CleanupCheck(b) \/ CleanupWipe(b)
    BY <1>7 DEF IdleExit, Signalled, CleanupCheck, CleanupWipe, Go
  <1>. QED BY <1>1, <1>2, <1>3, <1>4, <1>5, <1>6, <1>7 DEF BrokerStep

LEMMA BrokerQuiet ==
  ASSUME DaemonInv, QInv, NEW b \in Broker,
         BrokerStep(b) \/ IdleExit(b) \/ Signalled(b) \/ Crash(b)
  PROVE  QInv'
  <1>1. /\ UNCHANGED <<spc, saw, conn, warm, contended>>
        /\ Alive(b) /\ \A c \in Broker \ {b} : bpc'[c] = bpc[c]
        /\ bpc[b] \in {"publish"} \cup Published => bpc'[b] \in Published
        /\ \A c \in Broker : ready[c] => ready'[c]
        /\ \/ info' = info
           \/ info' = [pid |-> None, ready |-> FALSE]
           \/ \E r \in BOOLEAN : info' = [pid |-> b, ready |-> r] /\ (r => ready'[b])
    BY BrokerEffect
  <1>2. \A c \in Broker : Alive(c)' => Alive(c)
    BY <1>1 DEF Alive
  <1>t. /\ info \in [pid : Broker \cup {None}, ready : BOOLEAN]
        /\ conn \in [Session -> Broker \cup {None}]
        /\ saw \in [Session -> [pid : Broker \cup {None}, ready : BOOLEAN, first : BOOLEAN]]
    BY DEF DaemonInv, Registry, Sessions
  <1>3. FlagsAreTrue'
    BY <1>1, <1>t, NoneIsNoProcess DEF QInv, FlagsAreTrue
  <1>4. DialledWasBound'
    BY <1>1, <1>t DEF QInv, DialledWasBound
  <1>5. ASSUME ~contended, Quiet PROVE Quiet'
    <2>. USE <1>5 DEF Quiet
    <2>1. OneBroker' /\ OneStarter'
      BY <1>1, <1>2 DEF OneBroker, OneStarter, Starting
    <2>2. InfoIsLive'
      BY <1>1, <1>2, <1>t DEF InfoIsLive, OnlyLive, OneBroker
    <2>3. SightIsLive'
      BY <1>1, <1>2 DEF SightIsLive, OnlyLive
    <2>4. EntriesStay'
      <3>1. \A c \in Broker \ {b} : ~Alive(c)
        BY <1>1 DEF OneBroker
      <3>2. \A c \in Broker \ {b} : bpc'[c] \in {"unborn", "dead"}
        BY <3>1, <1>1 DEF Alive
      <3>. QED BY <3>2, OwnEntries DEF EntriesStay
    <2>5. WarmIsReady'
      BY <1>1, <1>2, <1>t DEF WarmIsReady, QInv, DialledWasBound
    <2>. QED BY <2>1, <2>2, <2>3, <2>4, <2>5
  <1>. QED BY <1>1, <1>3, <1>4, <1>5 DEF QInv

\* the steps of a session that move it on inside its start, touching no broker
LEMMA StartQuiet ==
  ASSUME DaemonInv, QInv, NEW s \in Session,
         Sweep(s) \/ FindRead(s) \/ FindCheck(s) \/ SpawnFails(s) \/ GiveUp(s)
  PROVE  QInv'
  <1>1. /\ UNCHANGED <<bpc, ready, conn, warm, contended>>
        /\ Starting(s) /\ spc'[s] # "connected" /\ \A t \in Session \ {s} : spc'[t] = spc[t] /\ saw'[t] = saw[t]
    BY DEF Sweep, FindRead, FindCheck, NotFound, SpawnFails, GiveUp, SGo, brokerVars, Starting,
       DaemonInv, Sessions
  <1>2. \/ UNCHANGED registryVars
        \/ /\ Wipe /\ saw' = saw
           /\ \/ spc[s] = "sweep" /\ (saw[s].pid = None \/ ~Alive(saw[s].pid))
              \/ spc[s] = "check" /\ saw[s].pid # None /\ ~Alive(saw[s].pid)
    BY DEF Sweep, FindRead, FindCheck, SpawnFails, GiveUp, SGo
  <1>3. /\ spc'[s] \notin {"sweep"}
        /\ spc'[s] = "connect" => spc[s] = "check" /\ saw'[s] = saw[s] /\ saw[s].pid # None
        /\ saw'[s] # saw[s] => saw'[s].pid = info.pid /\ saw'[s].ready = info.ready /\ info' = info
        /\ spc'[s] = "check" => saw'[s].pid = info.pid /\ info' = info
    BY DEF Sweep, FindRead, FindCheck, NotFound, SpawnFails, GiveUp, SGo, registryVars, DaemonInv, Sessions
  <1>t. /\ info \in [pid : Broker \cup {None}, ready : BOOLEAN]
        /\ conn \in [Session -> Broker \cup {None}]
        /\ saw \in [Session -> [pid : Broker \cup {None}, ready : BOOLEAN, first : BOOLEAN]]
    BY DEF DaemonInv, Registry, Sessions
  <1>4. FlagsAreTrue'
    BY <1>1, <1>2, <1>3 DEF QInv, FlagsAreTrue, Wipe, registryVars
  <1>5. DialledWasBound'
    BY <1>1 DEF QInv, DialledWasBound
  <1>6. ASSUME ~contended, Quiet PROVE Quiet'
    <2>. USE <1>6 DEF Quiet
    <2>1. OneBroker' /\ OneStarter'
      BY <1>1 DEF OneBroker, OneStarter, Starting, Alive
    <2>2. InfoIsLive'
      BY <1>1, <1>2 DEF InfoIsLive, OnlyLive, Alive, Wipe, registryVars
    <2>3. SightIsLive'
      BY <1>1, <1>3 DEF SightIsLive, OnlyLive, Alive, InfoIsLive
    <2>4. EntriesStay'
      <3>1. CASE UNCHANGED registryVars
        BY <3>1, <1>1 DEF EntriesStay, registryVars
      <3>2. CASE ~UNCHANGED registryVars
        <4>1. \A b \in Broker : ~Alive(b)
          BY <3>2, <1>2, NoneIsNoProcess DEF SightIsLive, OnlyLive
        <4>. QED BY <4>1, <1>1 DEF EntriesStay, Alive
      <3>. QED BY <3>1, <3>2
    <2>5. WarmIsReady'
      BY <1>1 DEF WarmIsReady, Alive
    <2>. QED BY <2>1, <2>2, <2>3, <2>4, <2>5
  <1>. QED BY <1>1, <1>4, <1>5, <1>6 DEF QInv

\* A start that meets nothing in between finds the living broker registered.
LEMMA StartDaemonQuiet ==
  ASSUME DaemonInv, QInv, NEW s \in Session, StartDaemon(s)
  PROVE  QInv'
  <1>1. /\ UNCHANGED <<dir, pidFile, info, sock, bpc, ready, conn, warm>>
        /\ spc[s] = "idle" /\ spc'[s] \in {"sweep", "find"}
        /\ saw'[s] = [pid |-> pidFile, ready |-> FALSE, first |-> TRUE]
        /\ \A t \in Session \ {s} : spc'[t] = spc[t] /\ saw'[t] = saw[t]
        /\ ~contended' => ~contended /\ ~Unsettled /\ \A t \in Session \ {s} : ~Starting(t)
    BY DEF StartDaemon, SGo, registryVars, brokerVars, DaemonInv, Sessions, Starting
  <1>2. FlagsAreTrue'
    BY <1>1 DEF QInv, FlagsAreTrue
  <1>3. DialledWasBound'
    BY <1>1 DEF QInv, DialledWasBound
  <1>4. ASSUME ~contended', Quiet PROVE Quiet'
    <2>. USE <1>4 DEF Quiet
    <2>1. OneBroker' /\ InfoIsLive' /\ EntriesStay' /\ WarmIsReady'
      BY <1>1 DEF OneBroker, InfoIsLive, OnlyLive, EntriesStay, WarmIsReady, Alive
    <2>2. OneStarter'
      BY <1>1 DEF OneStarter, Starting
    <2>3. OnlyLive(pidFile)
      <3>1. \A b \in Broker : Alive(b) => bpc[b] = "serving"
        BY <1>1, <1>4 DEF Unsettled
      <3>. QED BY <3>1 DEF OnlyLive, EntriesStay
    <2>4. SightIsLive'
      BY <1>1, <2>3 DEF SightIsLive, OnlyLive, Alive
    <2>. QED BY <2>1, <2>2, <2>4
  <1>. QED BY <1>1, <1>2, <1>3, <1>4 DEF QInv

\* A dial reaches the broker that was looked up, if that one still lives.
LEMMA ConnectQuiet ==
  ASSUME DaemonInv, QInv, NEW s \in Session, NewDaemonClient(s)
  PROVE  QInv'
  <1>1. /\ UNCHANGED <<dir, pidFile, info, sock, bpc, ready, saw, contended>>
        /\ spc[s] = "connect" /\ spc'[s] \in {"connected", "spawn", "idle"}
        /\ \A t \in Session \ {s} : spc'[t] = spc[t] /\ conn'[t] = conn[t] /\ warm'[t] = warm[t]
        /\ \/ /\ Dialable /\ conn'[s] = sock /\ warm'[s] = saw[s].ready
           \/ /\ conn'[s] = conn[s] /\ warm'[s] = warm[s] /\ spc'[s] # "connected"
    BY DEF NewDaemonClient, SGo, registryVars, DaemonInv, Sessions
  <1>2. FlagsAreTrue'
    BY <1>1 DEF QInv, FlagsAreTrue
  <1>3. DialledWasBound'
    BY <1>1 DEF QInv, DialledWasBound, Dialable, Bound, Published
  <1>4. ASSUME ~contended, Quiet PROVE Quiet'
    <2>. USE <1>4 DEF Quiet
    <2>1. OneBroker' /\ InfoIsLive' /\ EntriesStay'
      BY <1>1 DEF OneBroker, InfoIsLive, OnlyLive, EntriesStay, Alive
    <2>2. OneStarter' /\ SightIsLive'
      BY <1>1 DEF OneStarter, Starting, SightIsLive, OnlyLive, Alive
    <2>3. WarmIsReady'
      <3>1. ASSUME Dialable, saw[s].ready PROVE ready[sock]
        <4>1. sock \in Broker /\ Alive(sock)
          BY <3>1 DEF Dialable, Bound, Alive, DaemonInv, Registry
        <4>2. sock = saw[s].pid
          BY <4>1, <1>1 DEF SightIsLive, OnlyLive
        <4>. QED BY <3>1, <4>2 DEF QInv, FlagsAreTrue
      <3>. QED BY <1>1, <3>1 DEF WarmIsReady, Alive
    <2>. QED BY <2>1, <2>2, <2>3
  <1>. QED BY <1>1, <1>2, <1>3, <1>4 DEF QInv

\* A spawn that meets neither a broker nor a daemon.json makes the only broker.
LEMMA SpawnQuiet ==
  ASSUME DaemonInv, QInv, NEW s \in Session, SpawnDaemonProcess(s)
  PROVE  QInv'
  <1>1. /\ UNCHANGED <<dir, pidFile, info, sock, ready, saw, conn, warm>>
        /\ spc[s] = "spawn" /\ spc'[s] = "poll" /\ \A t \in Session \ {s} : spc'[t] = spc[t]
        /\ ~contended' => ~contended /\ info.pid = None /\ \A b \in Broker : ~Alive(b)
    BY DEF SpawnDaemonProcess, SGo, registryVars, DaemonInv, Sessions
  <1>2. PICK n \in Broker : bpc[n] = "unborn" /\ bpc'[n] = "born" /\ \A b \in Broker \ {n} : bpc'[b] = bpc[b]
    BY DEF SpawnDaemonProcess, Go, DaemonInv, Brokers
  <1>3. FlagsAreTrue'
    BY <1>1 DEF QInv, FlagsAreTrue
  <1>4. DialledWasBound'
    BY <1>1, <1>2 DEF QInv, DialledWasBound, Published, DaemonInv, Sessions
  <1>5. ASSUME ~contended', Quiet PROVE Quiet'
    <2>. USE <1>5 DEF Quiet
    <2>0. \A b \in Broker : Alive(b)' => b = n
      BY <1>1, <1>2 DEF Alive
    <2>1. OneBroker' /\ InfoIsLive'
      BY <1>1, <2>0 DEF OneBroker, InfoIsLive
    <2>2. OneStarter'
      BY <1>1 DEF OneStarter, Starting
    <2>3. SightIsLive'
      BY <1>1 DEF SightIsLive, OneStarter, Starting
    <2>4. EntriesStay'
      BY <1>1, <1>2 DEF EntriesStay
    <2>5. WarmIsReady'
      BY <1>1, <1>2 DEF WarmIsReady, QInv, DialledWasBound, Published, Alive, DaemonInv, Sessions
    <2>. QED BY <2>1, <2>2, <2>3, <2>4, <2>5
  <1>. QED BY <1>1, <1>3, <1>4, <1>5 DEF QInv

\* A query trusts daemon.json, which names the only broker it can be talking to.
LEMMA ConnectedQuiet ==
  ASSUME DaemonInv, QInv, NEW s \in Session, References(s) \/ Disconnect(s)
  PROVE  QInv'
  <1>1. /\ UNCHANGED <<dir, pidFile, info, sock, bpc, ready, saw, contended>>
        /\ spc[s] = "connected" /\ spc'[s] \in {"connected", "idle"}
        /\ \A t \in Session \ {s} : spc'[t] = spc[t] /\ conn'[t] = conn[t] /\ warm'[t] = warm[t]
        /\ \/ /\ conn'[s] = conn[s] /\ spc'[s] = spc[s] /\ info.pid # None /\ info.ready
           \/ /\ conn'[s] = None /\ ~warm'[s] /\ spc'[s] = "idle"
    BY DEF References, Disconnect, SGo, registryVars, brokerVars, DaemonInv, Sessions
  <1>2. FlagsAreTrue'
    BY <1>1 DEF QInv, FlagsAreTrue
  <1>3. DialledWasBound'
    BY <1>1 DEF QInv, DialledWasBound
  <1>4. ASSUME ~contended, Quiet PROVE Quiet'
    <2>. USE <1>4 DEF Quiet
    <2>1. OneBroker' /\ InfoIsLive' /\ EntriesStay'
      BY <1>1 DEF OneBroker, InfoIsLive, OnlyLive, EntriesStay, Alive
    <2>2. OneStarter' /\ SightIsLive'
      BY <1>1 DEF OneStarter, Starting, SightIsLive, OnlyLive, Alive
    <2>3. WarmIsReady'
      BY <1>1 DEF WarmIsReady, Alive, InfoIsLive, OnlyLive, QInv, FlagsAreTrue, DialledWasBound, DaemonInv,
         Sessions
    <2>. QED BY <2>1, <2>2, <2>3
  <1>. QED BY <1>1, <1>2, <1>3, <1>4 DEF QInv

LEMMA NextQuiet == DaemonInv /\ QInv /\ [DaemonNext]_daemonVars => QInv'
  <1>1. QInv /\ UNCHANGED daemonVars => QInv'
    BY DEF daemonVars, registryVars, brokerVars, sessionVars, QInv, FlagsAreTrue, DialledWasBound, Quiet,
       OneBroker, OneStarter, InfoIsLive, SightIsLive, EntriesStay, WarmIsReady, OnlyLive, Alive,
       Starting
  <1>. QED
    BY <1>1, BrokerQuiet, StartQuiet, StartDaemonQuiet, ConnectQuiet, SpawnQuiet, ConnectedQuiet
       DEF DaemonNext

LEMMA InitQuiet == DaemonInit => QInv
  <1>. SUFFICES ASSUME DaemonInit PROVE QInv
    OBVIOUS
  <1>1. /\ info.pid = None /\ ~info.ready
        /\ \A b \in Broker : bpc[b] = "unborn"
        /\ \A s \in Session : spc[s] = "idle" /\ ~saw[s].ready /\ conn[s] = None /\ ~warm[s]
    BY DEF DaemonInit, NoSight
  <1>. QED
    BY <1>1 DEF QInv, FlagsAreTrue, DialledWasBound, Quiet, OneBroker, OneStarter, InfoIsLive,
       SightIsLive, EntriesStay, WarmIsReady, Alive, Starting

LEMMA QuietHolds == DaemonSpec => [](DaemonInv /\ QInv)
  BY InitDaemon, NextDaemon, InitQuiet, NextQuiet, PTL DEF DaemonSpec

\* While starts do not overlap with each other or with a broker that starts or
\* dies, every serving broker is the one in daemon.json and at the socket path,
\* whatever is killed in between (daemon.go:66-108, daemon_broker.go:334-341).
THEOREM ServingStaysRegistered == DaemonSpec => []ServingIsRegistered
  <1>1. QInv => ServingIsRegistered
    BY DEF QInv, Quiet, EntriesStay, ServingIsRegistered
  <1>. QED BY <1>1, QuietHolds, PTL

\* Under the same condition a session takes the workspace for indexed only when the
\* broker it talks to has indexed it (warmup.go:222-231).
THEOREM WarmSessionsAreIndexed == DaemonSpec => []WarmIsIndexed
  <1>1. QInv => WarmIsIndexed
    BY DEF QInv, Quiet, WarmIsReady, WarmIsIndexed
  <1>. QED BY <1>1, QuietHolds, PTL
=============================================================================
