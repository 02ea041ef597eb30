-------------------------------- MODULE Phase --------------------------------
(***************************************************************************)
(* Skill phase enforcement: phase.Tracker (internal/phase), the tools that  *)
(* control it (cmd/agent-lsp/tools_phase.go) and the check in front of      *)
(* every other tool (cmd/agent-lsp/server.go).                              *)
(*                                                                         *)
(* Every method of the tracker holds its mutex, so it is one step.  A       *)
(* pattern of a skill is the set of tools it matches.                       *)
(***************************************************************************)
EXTENDS Integers, Sequences, FiniteSets, FiniteSetsExt

CONSTANTS
  Skill, NoSkill, Tool,
  Phases,            \* skill -> its phases in order: [allowed, forbidden]
  GlobalForbidden,   \* skill -> tools forbidden in every phase
  MaxHistory         \* bound: tool calls checked during one activation

ASSUME NoSkillAssumption ==
  NoSkill \notin Skill /\ NoSkill \notin [skill : Skill, phase : Nat, strict : BOOLEAN]
ASSUME PhasesAssumption ==
  \A s \in Skill :
    /\ Phases[s] \in Seq([allowed : SUBSET Tool, forbidden : SUBSET Tool])
    /\ Len(Phases[s]) > 0
ASSUME HistoryAssumption == MaxHistory \in Nat

VARIABLES
  activeSkill, currentPhase, mode, toolHistory,   \* Tracker, under its mutex
  outcome,      \* the last checked call: [tool, ran]
  recovery      \* tools the last refusal told the agent to call

trackerVars == <<activeSkill, currentPhase, mode, toolHistory>>
phaseVars == <<trackerVars, outcome, recovery>>

PhaseInit ==
  /\ activeSkill = NoSkill /\ currentPhase = 1 /\ mode = "warn" /\ toolHistory = <<>>
  /\ outcome = [tool |-> NoSkill, ran |-> TRUE]
  /\ recovery = {}

\* ActivateSkill: refused while a skill is active.
Activate(s, m) ==
  /\ activeSkill = NoSkill
  /\ activeSkill' = s /\ currentPhase' = 1 /\ mode' = m /\ toolHistory' = <<>>
  /\ recovery' = {}
  /\ UNCHANGED outcome

\* DeactivateSkill keeps the mode.
Deactivate ==
  /\ activeSkill # NoSkill
  /\ activeSkill' = NoSkill /\ currentPhase' = 1 /\ toolHistory' = <<>>
  /\ recovery' = {}
  /\ UNCHANGED <<mode, outcome>>

Forbidden(s, p, t) == t \in GlobalForbidden[s] \cup Phases[s][p].forbidden

LaterPhases(s, p, t) == {i \in (p + 1)..Len(Phases[s]) : t \in Phases[s][i].allowed}

NextPhaseOfRefused(s, p, t) ==  \* mutant
  IF t \in Phases[s][p].allowed \/ LaterPhases(s, p, t) = {}
  THEN p ELSE Min(LaterPhases(s, p, t))

\* Where a call of t in phase p leaves the workflow: the first later phase that
\* allows the tool, unless the current phase allows or forbids it.
NextPhase(s, p, t) ==
  IF Forbidden(s, p, t) \/ t \in Phases[s][p].allowed \/ LaterPhases(s, p, t) = {}
  THEN p ELSE Min(LaterPhases(s, p, t))

\* buildRecovery: the next phase's tools when a later one allows t, else the
\* current phase's; a globally forbidden tool gets none.
Recovery(s, p, t) ==
  IF t \in GlobalForbidden[s] THEN {}
  ELSE Phases[s][IF LaterPhases(s, p, t) = {} THEN p ELSE p + 1].allowed

RecordUnlessAdvanced(t) ==  \* mutant
  /\ activeSkill # NoSkill /\ Len(toolHistory) < MaxHistory
  /\ currentPhase' = NextPhase(activeSkill, currentPhase, t)
  /\ toolHistory' = IF currentPhase' = currentPhase THEN Append(toolHistory, t)
                    ELSE toolHistory
  /\ outcome' = [tool |-> t, ran |-> TRUE]
  /\ recovery' = {}
  /\ UNCHANGED <<activeSkill, mode>>

\* The check in front of the handler: only block mode keeps it from running.
CheckPhasePermission(t, violation) ==
  outcome' = [tool |-> t, ran |-> ~(violation /\ mode = "block")]

CheckAndRecord(t) ==
  /\ activeSkill # NoSkill /\ Len(toolHistory) < MaxHistory
  /\ LET violation == Forbidden(activeSkill, currentPhase, t) IN
       /\ CheckPhasePermission(t, violation)
       /\ recovery' = IF violation THEN Recovery(activeSkill, currentPhase, t) ELSE {}
  /\ toolHistory' = Append(toolHistory, t)
  /\ currentPhase' = NextPhase(activeSkill, currentPhase, t)
  /\ UNCHANGED <<activeSkill, mode>>

\* Without a skill every tool runs.
CallUnchecked(t) ==
  /\ activeSkill = NoSkill
  /\ outcome' = [tool |-> t, ran |-> TRUE]
  /\ UNCHANGED <<trackerVars, recovery>>

\* The activate_skill tool: any mode but "block" means warn.
ActivateSkillTool == \E s \in Skill, m \in {"warn", "block"} : Activate(s, m)

PhaseNext ==
  \/ ActivateSkillTool
  \/ Deactivate
  \/ \E t \in Tool : CheckAndRecord(t) \/ CallUnchecked(t)

PhaseSpec == PhaseInit /\ [][PhaseNext]_phaseVars
------------------------------------------------------------------------------
(* Properties *)

\* Types; the phase is one of the active skill's.
PhaseTypes ==
  /\ activeSkill \in Skill \cup {NoSkill}
  /\ currentPhase \in (IF activeSkill = NoSkill THEN {1} ELSE DOMAIN Phases[activeSkill])
  /\ mode \in {"warn", "block"}
  /\ toolHistory \in Seq(Tool)
  /\ outcome \in [tool : Tool \cup {NoSkill}, ran : BOOLEAN]
  /\ recovery \subseteq Tool

\* The phase a skill is in after the calls of h, in order, from its first phase.
Replayed(s, h) ==
  LET at[i \in 0..Len(h)] == IF i = 0 THEN 1 ELSE NextPhase(s, at[i - 1], h[i])
  IN  at[Len(h)]

\* The history get_skill_phase returns, replayed from the first phase, leads to
\* the phase it returns (tracker.go:55-58, 107, 146-151).
HistoryExplainsPhase ==
  activeSkill # NoSkill =>
    currentPhase = Replayed(activeSkill, toolHistory)

\* The tracker keeps the promise of PhaseGate.
EffectivePhases ==
  [s \in Skill |-> [p \in DOMAIN Phases[s] |->
     [Phases[s][p] EXCEPT !.forbidden = @ \cup GlobalForbidden[s]]]]

Gate == INSTANCE PhaseGate WITH
  Phases <- EffectivePhases,
  work <- IF activeSkill = NoSkill THEN NoSkill
          ELSE [skill |-> activeSkill, phase |-> currentPhase, strict |-> mode = "block"]

\* A tool the phase forbids is refused in block mode and moves nothing; the
\* workflow only moves on, to a phase that lists the tool (README.md:147-156).
ImplementsGate == Gate!GateSpec

\* What a refusal tells the agent to call can be called: one of the tools
\* buildRecovery names is not refused in turn (tracker.go:214-216).  Violated:
\* the tools that enter the "apply" phase of lsp-safe-edit are all forbidden in
\* the phase before it.
RecoveryLeadsOn ==
  recovery # {} /\ mode = "block" =>
    \E t \in recovery : ~Forbidden(activeSkill, currentPhase, t)
==============================================================================
