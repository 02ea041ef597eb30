------------------------------ MODULE PhaseGate ------------------------------
(***************************************************************************)
(* What phase enforcement promises an agent (README.md:147-156): while a    *)
(* skill is active in block mode, a tool its current phase forbids is       *)
(* refused and leaves the workflow where it is; every other tool runs, and  *)
(* the workflow only moves forward, to a phase that lists the tool.         *)
(***************************************************************************)
EXTENDS Integers, Sequences

CONSTANTS
  Skill, NoSkill,   \* the skills; no skill is active
  Tool,             \* tool names, as clients call them
  Phases            \* skill -> its phases, [allowed, forbidden], in order

VARIABLES
  work,     \* [skill, phase, strict], or NoSkill
  outcome   \* the last checked call: [tool, ran]

gateVars == <<work, outcome>>

Forbids(w, t) == t \in Phases[w.skill][w.phase].forbidden

GateInit == work = NoSkill /\ outcome = [tool |-> NoSkill, ran |-> TRUE]

Begin ==
  /\ work = NoSkill
  /\ \E s \in Skill, strict \in BOOLEAN :
       work' = [skill |-> s, phase |-> 1, strict |-> strict]
  /\ UNCHANGED outcome

Finish == work' = NoSkill /\ UNCHANGED outcome

Run(t) ==
  /\ outcome' = [tool |-> t, ran |-> TRUE]
  /\ \/ UNCHANGED work
     \/ /\ work # NoSkill /\ ~Forbids(work, t)
        /\ \E p \in DOMAIN Phases[work.skill] :
             /\ p > work.phase /\ t \in Phases[work.skill][p].allowed
             /\ work' = [work EXCEPT !.phase = p]
  /\ work # NoSkill /\ work.strict => ~Forbids(work, t)

Refuse(t) ==
  /\ work # NoSkill /\ work.strict /\ Forbids(work, t)
  /\ outcome' = [tool |-> t, ran |-> FALSE]
  /\ UNCHANGED work

GateNext == Begin \/ Finish \/ \E t \in Tool : Run(t) \/ Refuse(t)

GateSpec == GateInit /\ [][GateNext]_gateVars
==============================================================================
