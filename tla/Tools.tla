-------------------------------- MODULE Tools --------------------------------
(***************************************************************************)
(* The tools of internal/tools together: the scripts of Handlers, and the   *)
(* three tools whose own work is more than a script, get_diagnostics        *)
(* (Verdict), find_symbol (Search) and blast_radius (Impact).  They share   *)
(* no state here; a behaviour is the calls of one of the four.              *)
(***************************************************************************)
EXTENDS Handlers, Verdict, Search, Impact

vars == <<hVars, vVars, zVars, iVars>>

Init == HandlersInit /\ VerdictInit /\ SearchInit /\ ImpactInit

NoScript == ~client /\ calls = 0
NoDiagnostics == vpc = "idle"
NoSearch == zpc = "idle"
NoImpact == ipc = "idle"

Next ==
  \/ NoDiagnostics /\ NoSearch /\ NoImpact /\ HandlersNext /\ UNCHANGED <<vVars, zVars, iVars>>
  \/ NoScript /\ NoSearch /\ NoImpact /\ VerdictNext /\ UNCHANGED <<hVars, zVars, iVars>>
  \/ NoScript /\ NoDiagnostics /\ NoImpact /\ SearchNext /\ UNCHANGED <<hVars, vVars, iVars>>
  \/ NoScript /\ NoDiagnostics /\ NoSearch /\ ImpactNext /\ UNCHANGED <<hVars, vVars, zVars>>

Spec == Init /\ [][Next]_vars
=============================================================================
