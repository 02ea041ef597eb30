------------------------------- MODULE Impact --------------------------------
(***************************************************************************)
(* blast_radius and detect_changes (internal/tools/change_impact.go,        *)
(* detect_changes.go): the symbols of a changed file, who refers to them,   *)
(* and to which declaration each reference is attributed.  The server lists *)
(* the declarations flat; a declaration is its kind and its range, a        *)
(* position one number, and the references are to be found at one place of  *)
(* the same file or of a test file with the same declarations.              *)
(***************************************************************************)
EXTENDS Integers, Sequences, FiniteSetsExt

CONSTANTS Files, LastPosition   \* the flat lists of declarations; positions are 0..LastPosition

VARIABLES
  ipc,          \* idle, collect, query, attribute, done
  decls, at,    \* the declarations in order of their ranges; where the references are
  lower,        \* the declarations whose name is not exported
  targets,      \* the changed symbols
  refs,         \* of each target: unknown, caller, test, none, failed
  callers, testOf, testSeen, edges, untested, risk

iVars == <<ipc, decls, at, lower, targets, refs, callers, testOf, testSeen, edges, untested, risk>>
inputVars == <<decls, at, lower>>
reportVars == <<edges, untested, risk>>

Kind == {"function", "variable", "constant", "field", "class"}
\* A range may be empty or end before it starts.
Declaration == [kind : Kind, from : Nat, to : Nat]

ASSUME FilesAssumption == Files \subseteq Seq(Declaration) /\ LastPosition \in Nat

RangeContains(outer, inner) ==
  /\ outer.from <= inner.from /\ inner.to <= outer.to
  /\ <<outer.from, outer.to>> # <<inner.from, inner.to>>
PositionInRange(p, d) == d.from <= p /\ p < d.to

\* renestFlatSymbols: a stable sort by start, the longer range first; insertNested
\* then puts each under the first container found at every level.
Before(list, i, j) ==
  \/ list[i].from < list[j].from
  \/ list[i].from = list[j].from /\ list[i].to > list[j].to
  \/ list[i].from = list[j].from /\ list[i].to = list[j].to /\ i < j
Sorting(list) == {p \in [DOMAIN list -> DOMAIN list] :
                    \A i, j \in DOMAIN list : i < j => Before(list, p[i], p[j])}
Ordered(list) == {[i \in DOMAIN list |-> list[p[i]]] : p \in Sorting(list)}
All == 1..Len(decls)
Container == LET below[i \in All, j \in 0..Len(decls)] ==
                   LET kids == {k \in 1..(i - 1) : below[k, 0] = j /\ RangeContains(decls[k], decls[i])}
                   IN IF kids = {} THEN j ELSE below[i, Min(kids)]
             IN [i \in All |-> below[i, 0]]
Above(i) == LET up[k \in 0..Len(decls)] == IF k = 0 THEN {} ELSE {k} \cup up[Container[k]]
            IN up[Container[i]]

\* Parameters and locals, which flat servers list as functions and variables.
ParameterOrLocal(i) ==
  /\ Container[i] # 0 /\ decls[i].kind \in {"function", "variable"}
  /\ decls[Container[i]].kind = "function"
\* What is dropped is dropped with everything below it.
Kept(dropped) == {i \in All : ({i} \cup Above(i)) \cap dropped = {}}
OfKind(kinds) == {i \in All : decls[i].kind \in kinds}
Shapes == {i \in All : ParameterOrLocal(i)}
CallerSymbolCandidates == Kept(OfKind({"field", "variable", "constant"}) \cup Shapes)
DeclarationCandidates == Kept(OfKind({"field"}) \cup Shapes)

Size(i) == decls[i].to - decls[i].from
Smallest(some) == IF some = {} THEN 0
                  ELSE CHOOSE i \in some : \A j \in some : Size(i) < Size(j) \/ (Size(i) = Size(j) /\ i <= j)
FindEnclosingSymbolAt(candidates, p) == Smallest({i \in candidates : PositionInRange(p, decls[i])})

CallerOfAnyKind(p) == FindEnclosingSymbolAt(All, p)                         \* mutant
\* 0: nothing encloses the reference, and the queried symbol's own name is used.
FindEnclosingCaller(p) ==
  LET callable == FindEnclosingSymbolAt(CallerSymbolCandidates, p) IN
  IF callable # 0 THEN callable ELSE FindEnclosingSymbolAt(DeclarationCandidates, p)
\* By lines, in the list as it came.
FindEnclosingTestFunction(p) == Smallest({i \in All : decls[i].from <= p /\ p <= decls[i].to})

\* collectExportedSymbols and collectAllSymbols
CollectExportedSymbols ==
  Kept(OfKind({"field"}) \cup Shapes
       \cup {i \in OfKind({"variable", "constant"}) : Container[i] # 0 /\
               (decls[i].kind = "variable" \/ decls[Container[i]].kind # "class")}) \ lower
CollectAllSymbols == Kept(OfKind({"field"}))

ImpactInit ==
  /\ ipc = "idle" /\ decls = <<>> /\ at = 0 /\ lower = {}
  /\ targets = {} /\ refs = <<>> /\ callers = {} /\ testOf = {} /\ testSeen = {}
  /\ edges = {} /\ untested = {} /\ risk = <<>>

ChangedFile ==
  /\ ipc = "idle" /\ ipc' = "collect"
  /\ decls' \in UNION {Ordered(f) : f \in Files} /\ at' \in 0..LastPosition /\ lower' \in {{}, {1}}
  /\ UNCHANGED <<targets, refs, callers, testOf, testSeen, reportVars>>

\* Symbols that cannot be listed are a warning, and there is nothing to query.
CollectSymbols ==
  /\ ipc = "collect" /\ ipc' = "query"
  /\ targets' \in {CollectExportedSymbols, CollectAllSymbols, {}}
  /\ refs' = [t \in targets' |-> "unknown"]
  /\ UNCHANGED <<inputVars, callers, testOf, testSeen, reportVars>>

\* The first target's query warms the server up, the others run in parallel; each
\* is answered, or becomes a warning.
QueryReferences == \E t \in targets :
  /\ ipc = "query" /\ refs[t] = "unknown"
  /\ \E s \in targets : refs[s] # "unknown" \/ t = Min(targets)
  /\ \E found \in {"caller", "test", "none", "failed"} : refs' = [refs EXCEPT ![t] = found]
  /\ UNCHANGED <<ipc, inputVars, targets, callers, testOf, testSeen, reportVars>>
QueriesDone ==
  /\ ipc = "query" /\ (\A t \in targets : refs[t] # "unknown") /\ ipc' = "attribute"
  /\ UNCHANGED <<inputVars, targets, refs, callers, testOf, testSeen, reportVars>>

\* Phase 3, in the order of the targets.  A test function counts for the first
\* target it refers to only.
Attributed == {c.of : c \in callers} \cup {c.of : c \in testOf}
Attribute ==
  /\ ipc = "attribute"
  /\ \E t \in targets \ Attributed :
       /\ \A s \in targets \ Attributed : t <= s
       /\ LET test == IF refs[t] = "test" THEN FindEnclosingTestFunction(at) ELSE 0 IN
          /\ callers' = callers \cup {[of |-> t, by |-> IF refs[t] # "caller" THEN -1
                                                         ELSE FindEnclosingCaller(at)]}
          /\ testOf' = testOf \cup
               {[of |-> t, by |-> f] : f \in IF test = 0 THEN {} ELSE {test} \ testSeen}
          /\ testSeen' = IF test = 0 THEN testSeen ELSE testSeen \cup {test}
  /\ UNCHANGED <<ipc, inputVars, targets, refs, reportVars>>

NonTestCallers == {c \in callers : c.by # -1}
Called(t) == \E c \in NonTestCallers : c.of = t
Tested(t) == \E c \in testOf : c.of = t
Name(c) == IF c.by = 0 THEN c.of ELSE c.by

\* buildChangeImpactPayload, the "untested" filter, and the risk of detect_changes,
\* which looks the changed symbol up among the names of the callers.
Report ==
  /\ ipc = "attribute" /\ targets \subseteq Attributed /\ ipc' = "done"
  /\ edges' = {<<Name(c), c.of>> : c \in {c \in NonTestCallers : Name(c) # c.of}}
  /\ untested' = {t \in targets : Called(t) /\ ~Tested(t)}
  /\ risk' = [t \in targets |-> IF \E c \in NonTestCallers : Name(c) = t THEN "medium" ELSE "low"]
  /\ UNCHANGED <<inputVars, targets, refs, callers, testOf, testSeen>>

ImpactNext ==
  \/ ChangedFile \/ CollectSymbols \/ QueryReferences \/ QueriesDone \/ Attribute \/ Report

(***************************************************************************)
(* Properties                                                              *)
(***************************************************************************)

\* A reference inside a function is attributed to one that contains it: neither to
\* the queried symbol itself for want of a caller, nor to a parameter, a local or a
\* field on the same line, nor to a function around the innermost one, unless that
\* one is itself inside a variable (issues 41, 49 and 53).
CallersAreNamed ==
  \A c \in NonTestCallers :
    LET around == {i \in CallerSymbolCandidates : PositionInRange(at, decls[i])} IN
    around # {} =>
      /\ c.by \in around
      /\ \A i \in around : ~RangeContains(decls[c.by], decls[i])
=============================================================================
