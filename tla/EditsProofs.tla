----------------------------- MODULE EditsProofs -----------------------------
(***************************************************************************)
(* Proofs about Edits for any number of calls, files and plans, and any     *)
(* number of writes by other programs: an edit found by its text lands in    *)
(* the text it was found in, what is written was simulated on that text,     *)
(* success means that every file was written, a dry run writes nothing, and  *)
(* between calls that do not overlap the server has the text of the files it *)
(* keeps open.                                                              *)
(*                                                                         *)
(* EditsInv is inductive.  Its parts: the types; which tool is at which step *)
(* (Roles); whose operations an actor holds (Owned); what is astray in the   *)
(* texts on disk and in hand (Straight); what of an edit is written or still *)
(* to do (WorkLeft); and, while no two calls overlap, that one actor at a    *)
(* time works (OneAtATime) on the text that is on disk (Held, Synced).       *)
(* Previews, inductive with it, is about what was simulated.                 *)
(***************************************************************************)
EXTENDS Edits, FiniteSetTheorems, TLAPS

Elements(s) == {s[i] : i \in DOMAIN s}

Kinds == {"rename", "raw", "match", "safe", "execute", "refactor"}
Results == {None, "ok", "error", "preview", "executed", "blocked"}
Verifying == {"reopen", "reread", "didOpen"}

EditTypes ==
  /\ disk \in [File -> Text \cup {Gone}]
  /\ tracked \subseteq File /\ server \in [File -> Text \cup {None}]
  /\ pc \in [Actor -> PCs] /\ kind \in [Call -> Kinds \cup {None}]
  /\ plan \in [Call -> Seq(PlanOp)] /\ dry \in [Call -> BOOLEAN]
  /\ todo \in [Actor -> Seq(Operations) \cup Seq(File)]
  /\ hold \in [Actor -> Text \cup {Gone}] /\ res \in [Actor -> Results]
  /\ capture \in Call \cup {None} /\ caught \in [Call -> Seq(Operations)]
  /\ sent \subseteq Call /\ cut \subseteq Call
  /\ landed \in [Call -> SUBSET File] /\ toggles \in Nat
  /\ outside \subseteq File /\ contended \in BOOLEAN

\* what an actor works on: operations, or the files it verifies; and the text in hand
WorkOf(a) ==
  /\ pc[a] \in Verifying => todo[a] \in Seq(File)
  /\ pc[a] \notin Verifying => todo[a] \in Seq(Operations)
  /\ pc[a] \in {"write", "send", "reread", "didOpen"} => todo[a] # <<>>
  /\ pc[a] \in {"write", "send"} => Head(todo[a]).op = "edit"
  /\ pc[a] \in {"write", "send", "open", "didOpen"} => hold[a] \in Text

Work ==
  /\ \A a \in Actor : WorkOf(a)
  /\ pc[Loop] \in {"idle", "apply", "write", "send"}

\* which tool is at which step
RoleOf(c) ==
  /\ pc[c] # "idle" => kind[c] \in Kinds /\ plan[c] # <<>>
  /\ pc[c] \in {"read", "open"} => kind[c] \in {"rename", "refactor"}
  /\ pc[c] = "plan" => kind[c] \in {"rename", "raw", "match", "safe"}
  /\ pc[c] \in {"preview", "match"} => kind[c] = "safe"
  /\ pc[c] = "lock" => kind[c] = "refactor"
  /\ pc[c] = "running" => kind[c] \in {"execute", "refactor"}
  /\ pc[c] \in {"apply", "write", "send"} => kind[c] # "execute"
  /\ pc[c] \in Verifying => kind[c] \in {"rename", "refactor"}
  /\ dry[c] => kind[c] \in {"rename", "refactor"}
  /\ c \in sent \cup cut => kind[c] \in {"execute", "refactor"} /\ pc[c] # "idle"
  /\ c \in cut => pc[c] = "done"
  /\ pc[c] = "running" /\ kind[c] = "refactor" <=> capture = c
  /\ pc[c] = "idle" =>
       landed[c] = {} /\ todo[c] = <<>> /\ caught[c] = <<>> /\ res[c] = None

Roles == \A c \in Call : RoleOf(c)

\* An actor's operations are of its own call, or of one whose edit was sent; and
\* of a dry run only once its request was given up.
Allowed(c) == dry[c] => c \in cut

OwnedBy(a) ==
  pc[a] \notin Verifying =>
     \A o \in Elements(todo[a]) : (o.by = a \/ o.by \in sent) /\ Allowed(o.by)

Owned ==
  /\ \A a \in Actor : OwnedBy(a)
  /\ \A c \in Call : \A o \in Elements(caught[c]) : o.by \in sent /\ (o.by = c \/ Allowed(o.by))

\* No matched edit, nor one of a call that has not begun, is astray.
Clean(t) == \A c \in t.astray : pc[c] # "idle" /\ ~Checked(c)

Straight ==
  /\ \A f \in File : disk[f] # Gone => Clean(disk[f])
  /\ \A a \in Actor : hold[a] # Gone => Clean(hold[a])

\* A call's edits, each with the call it is for, are written or still to do.
EditsOf(ops) == {<<o.by, o.file>> : o \in {x \in ops : x.op = "edit"}}
Wanted(c) == IF kind[c] = "refactor" THEN EditsOf(Elements(caught[c]))
             ELSE {<<c, f>> : f \in Edited(c)}
Written == {w \in Call \X File : w[2] \in landed[w[1]]}

LeftOf(c) ==
  /\ pc[c] = "plan" /\ kind[c] = "raw" => Wanted(c) \subseteq EditsOf(Elements(todo[c]))
  /\ pc[c] \in {"apply", "write"} => Wanted(c) \subseteq Written \cup EditsOf(Elements(todo[c]))
  /\ pc[c] = "send" => Wanted(c) \subseteq Written \cup EditsOf(Elements(Tail(todo[c])))
  /\ pc[c] \in Verifying => Wanted(c) \subseteq Written
  /\ res[c] = "ok" => pc[c] = "done" /\ Wanted(c) \subseteq Written

WorkLeft == \A c \in Call : LeftOf(c)

\* While no calls overlap, one actor works, but for the read loop while a call
\* waits for its command, and what it holds is the file it works on.
OneAtATime ==
  \A a, b \in Actor : Busy(a) /\ Busy(b) /\ a # b =>
     (a = Loop /\ pc[b] = "running") \/ (b = Loop /\ pc[a] = "running")

Held ==
  /\ \A a \in Actor : pc[a] = "send" => disk[Head(todo[a]).file] = hold[a]
  /\ \A c \in Call : pc[c] = "open" => disk[Requested(c)] = hold[c]
  /\ \A c \in Call : pc[c] = "didOpen" => disk[Head(todo[c])] = hold[c]

Sending(f) == \E a \in Actor : pc[a] = "send" /\ Head(todo[a]).file = f

Synced ==
  \A f \in File \ outside : server[f] # None /\ ~Sending(f) => server[f] = disk[f]

Uncontended == ~contended => OneAtATime /\ Held /\ Synced

EditsInv == EditTypes /\ Work /\ Roles /\ Owned /\ Straight /\ DryRunWritesNothing /\ WorkLeft
            /\ Uncontended
-----------------------------------------------------------------------------
(* Sequences and texts *)

LEMMA SeqFacts ==
  ASSUME NEW S, NEW s \in Seq(S)
  PROVE  /\ DOMAIN s = 1..Len(s) /\ Len(s) \in Nat
         /\ \A i \in DOMAIN s : s[i] \in S
         /\ Elements(s) \subseteq S
BY DEF Elements

LEMMA Nothing == Elements(<<>>) = {}
BY DEF Elements

\* the first one and the rest
LEMMA HeadAndRest ==
  ASSUME NEW S, NEW s \in Seq(S), s # <<>>
  PROVE  /\ Tail(s) \in Seq(S) /\ Head(s) \in S
         /\ Elements(s) = Elements(Tail(s)) \cup {Head(s)}
<1>1. /\ Tail(s) \in Seq(S) /\ Len(s) \in Nat \ {0} /\ Len(Tail(s)) = Len(s) - 1 /\ Head(s) = s[1]
      /\ \A i \in 1..Len(s) - 1 : Tail(s)[i] = s[i + 1]
  OBVIOUS
<1>2. DOMAIN s = 1..Len(s) /\ DOMAIN Tail(s) = 1..Len(s) - 1
  BY <1>1
<1>3. ASSUME NEW i \in DOMAIN s PROVE s[i] \in Elements(Tail(s)) \cup {Head(s)}
  <2>1. CASE i = 1
    BY <1>1, <2>1
  <2>2. CASE i # 1
    <3>1. i - 1 \in DOMAIN Tail(s) /\ Tail(s)[i - 1] = s[i]
      BY <1>1, <1>2, <2>2
    <3>. QED BY <3>1 DEF Elements
  <2>. QED BY <2>1, <2>2
<1>4. ASSUME NEW i \in DOMAIN Tail(s) PROVE Tail(s)[i] \in Elements(s)
  <2>1. i + 1 \in DOMAIN s /\ Tail(s)[i] = s[i + 1]
    BY <1>1, <1>2
  <2>. QED BY <2>1 DEF Elements
<1>5. Head(s) \in Elements(s)
  BY <1>1, <1>2 DEF Elements
<1>. QED BY <1>1, <1>2, <1>3, <1>4, <1>5 DEF Elements

LEMMA Joined ==
  ASSUME NEW S, NEW s \in Seq(S), NEW t \in Seq(S)
  PROVE  s \o t \in Seq(S) /\ Elements(s \o t) = Elements(s) \cup Elements(t)
<1>1. /\ s \o t \in Seq(S) /\ DOMAIN s = 1..Len(s) /\ DOMAIN t = 1..Len(t)
      /\ DOMAIN (s \o t) = 1..Len(s) + Len(t) /\ Len(s) \in Nat /\ Len(t) \in Nat
      /\ \A i \in 1..Len(s) + Len(t) : (s \o t)[i] = IF i <= Len(s) THEN s[i] ELSE t[i - Len(s)]
  OBVIOUS
<1>2. ASSUME NEW i \in DOMAIN (s \o t) PROVE (s \o t)[i] \in Elements(s) \cup Elements(t)
  <2>1. CASE i <= Len(s)
    BY <1>1, <2>1 DEF Elements
  <2>2. CASE ~(i <= Len(s))
    <3>1. i - Len(s) \in DOMAIN t /\ (s \o t)[i] = t[i - Len(s)]
      BY <1>1, <2>2
    <3>. QED BY <3>1 DEF Elements
  <2>. QED BY <2>1, <2>2
<1>3. ASSUME NEW i \in DOMAIN s PROVE s[i] \in Elements(s \o t)
  <2>1. i \in DOMAIN (s \o t) /\ (s \o t)[i] = s[i]
    BY <1>1
  <2>. QED BY <2>1 DEF Elements
<1>4. ASSUME NEW i \in DOMAIN t PROVE t[i] \in Elements(s \o t)
  <2>1. i + Len(s) \in DOMAIN (s \o t) /\ (s \o t)[i + Len(s)] = t[i]
    BY <1>1
  <2>. QED BY <2>1 DEF Elements
<1>. QED BY <1>1, <1>2, <1>3, <1>4 DEF Elements

\* a plan as operations: all of the call, on texts, and the edits are those planned
LEMMA PlannedOps ==
  ASSUME NEW p \in Seq(PlanOp), NEW c \in Call, NEW text, \A f \in File : text[f] \in Text \cup {Gone},
         NEW s, s = [i \in DOMAIN p |-> Op(p[i], c, text[p[i].file])]
  PROVE  /\ s \in Seq(Operations) /\ \A o \in Elements(s) : o.by = c
         /\ \A i \in DOMAIN p : p[i].op = "edit" => <<c, p[i].file>> \in EditsOf(Elements(s))
<1>1. Pristine \in Text
  BY DEF Pristine, Text
<1>2. DOMAIN p = 1..Len(p) /\ Len(p) \in Nat /\ \A i \in DOMAIN p : p[i] \in PlanOp
  OBVIOUS
<1>3. ASSUME NEW i \in DOMAIN p PROVE s[i] \in Operations /\ s[i].by = c /\ s[i].op = p[i].op /\ s[i].file = p[i].file
  <2>1. p[i] \in PlanOp /\ p[i].file \in File
    BY <1>2 DEF PlanOp
  <2>2. text[p[i].file] \in Text \cup {Gone}
    BY <2>1
  <2>3. s[i] = Op(p[i], c, text[p[i].file])
    OBVIOUS
  <2>. QED BY <1>1, <2>1, <2>2, <2>3 DEF Op, Operations, PlanOp
<1>4. s \in [1..Len(p) -> Operations]
  BY <1>2, <1>3
<1>5. s \in Seq(Operations)
  BY <1>2, <1>4
<1>6. DOMAIN s = DOMAIN p
  OBVIOUS
<1>7. ASSUME NEW i \in DOMAIN p, p[i].op = "edit" PROVE <<c, p[i].file>> \in EditsOf(Elements(s))
  <2>1. s[i] \in Elements(s)
    BY <1>6 DEF Elements
  <2>. QED BY <1>3, <1>7, <2>1 DEF EditsOf
<1>. QED BY <1>3, <1>5, <1>6, <1>7 DEF Elements

LEMMA PlanIsWanted ==
  ASSUME NEW p \in Seq(PlanOp), NEW c \in Call, NEW E,
         \A i \in DOMAIN p : p[i].op = "edit" => <<c, p[i].file>> \in E
  PROVE  {<<c, f>> : f \in {p[i].file : i \in {j \in DOMAIN p : p[j].op = "edit"}}} \subseteq E
OBVIOUS

LEMMA Spliced ==
  ASSUME NEW t \in Text, NEW o \in Operations
  PROVE  Splice(t, o) \in Text
BY DEF Splice, Text, Operations

LEMMA UserText ==
  ASSUME EditTypes, NEW f \in File, disk[f] # Gone,
         NEW d, d = [disk EXCEPT ![f].in = IF User \in @ THEN @ \ {User} ELSE @ \cup {User}]
  PROVE  /\ d \in [File -> Text \cup {Gone}]
         /\ d[f].astray = disk[f].astray /\ d[f] \in Text
         /\ \A g \in File : g # f => d[g] = disk[g]
<1>1. disk[f] \in Text
  BY DEF EditTypes
<1>2. disk[f].in \in SUBSET (Call \cup {User})
  BY <1>1 DEF Text
<1>. QED BY <1>1, <1>2 DEF EditTypes, Text

-----------------------------------------------------------------------------
(* Types *)

LEMMA HeadOp ==
  ASSUME EditTypes, Work, NEW a \in Actor, todo[a] # <<>>, pc[a] \notin Verifying
  PROVE  /\ todo[a] \in Seq(Operations) /\ Tail(todo[a]) \in Seq(Operations)
         /\ Head(todo[a]) \in Operations /\ Head(todo[a]).file \in File /\ Head(todo[a]).to \in File
         /\ Head(todo[a]).by \in Call
         /\ Elements(todo[a]) = Elements(Tail(todo[a])) \cup {Head(todo[a])}
<1>1. todo[a] \in Seq(Operations)
  BY DEF Work, WorkOf
<1>2. /\ Tail(todo[a]) \in Seq(Operations) /\ Head(todo[a]) \in Operations
      /\ Elements(todo[a]) = Elements(Tail(todo[a])) \cup {Head(todo[a])}
  BY <1>1, HeadAndRest
<1>. QED BY <1>1, <1>2 DEF Operations

LEMMA HeadFile ==
  ASSUME EditTypes, Work, NEW c \in Call, todo[c] # <<>>, pc[c] \in Verifying
  PROVE  todo[c] \in Seq(File) /\ Tail(todo[c]) \in Seq(File) /\ Head(todo[c]) \in File
<1>1. todo[c] \in Seq(File)
  BY DEF Work, WorkOf, Actor
<1>. QED BY <1>1, HeadAndRest

LEMMA RequestedFile ==
  ASSUME EditTypes, Roles, NEW c \in Call, pc[c] # "idle"
  PROVE  plan[c] \in Seq(PlanOp) /\ Requested(c) \in File
<1>1. plan[c] \in Seq(PlanOp) /\ plan[c] # <<>>
  BY DEF EditTypes, Roles, RoleOf
<1>2. Head(plan[c]) \in PlanOp
  BY <1>1, HeadAndRest
<1>. QED BY <1>1, <1>2 DEF Requested, PlanOp

LEMMA PlannedSeq ==
  ASSUME EditTypes, Roles, NEW c \in Call, pc[c] # "idle",
         NEW text, \A f \in File : text[f] \in Text \cup {Gone}
  PROVE  /\ Planned(c, text) \in Seq(Operations) /\ \A o \in Elements(Planned(c, text)) : o.by = c
         /\ \A i \in DOMAIN plan[c] : plan[c][i].op = "edit" =>
              <<c, plan[c][i].file>> \in EditsOf(Elements(Planned(c, text)))
<1>1. plan[c] \in Seq(PlanOp)
  BY RequestedFile
<1>. QED BY <1>1, PlannedOps, SMTT(60) DEF Planned

LEMMA Views == ASSUME EditTypes PROVE \A f \in File : OnView[f] \in Text \cup {Gone}
BY DEF EditTypes, OnView, View

\* the work of the others is not touched
LEMMA OthersWork ==
  ASSUME Work, NEW a \in Actor, WorkOf(a)',
         \A b \in Actor \ {a} : pc'[b] = pc[b] /\ todo'[b] = todo[b] /\ hold'[b] = hold[b],
         a = Loop => pc'[Loop] \in {"idle", "apply", "write", "send"}
  PROVE  Work'
BY DEF Work, WorkOf, Actor

\* an actor is done
LEMMA FinishTypes ==
  ASSUME EditTypes, Work, NEW c \in Call, NEW r \in Results, pc[c] \notin Verifying,
         Finish(c, r), todo' = todo, hold' \in [Actor -> Text \cup {Gone}],
         \A b \in Actor \ {c} : hold'[b] = hold[b]
  PROVE  /\ pc' \in [Actor -> PCs] /\ res' \in [Actor -> Results]
         /\ todo' \in [Actor -> Seq(Operations) \cup Seq(File)] /\ Work'
<1>1. c \in Actor /\ c # Loop
  BY ActorAssumption DEF Actor
<1>2. pc' \in [Actor -> PCs] /\ res' \in [Actor -> Results]
  BY <1>1 DEF Finish, EditTypes, PCs
<1>3. pc'[c] = "done" /\ \A b \in Actor \ {c} : pc'[b] = pc[b]
  BY <1>1 DEF Finish, EditTypes
<1>4. WorkOf(c)'
  BY <1>1, <1>3 DEF WorkOf, Work, Verifying
<1>. QED BY <1>1, <1>2, <1>3, <1>4, OthersWork DEF EditTypes

\* an actor takes a step, which leaves operations for it to do
LEMMA GoTypes ==
  ASSUME EditTypes, Work, NEW a \in Actor, NEW from, NEW to \in PCs \ Verifying, Go(a, from, to),
         todo' \in [Actor -> Seq(Operations) \cup Seq(File)], todo'[a] \in Seq(Operations),
         hold' \in [Actor -> Text \cup {Gone}],
         \A b \in Actor \ {a} : todo'[b] = todo[b] /\ hold'[b] = hold[b],
         to \in {"write", "send"} => todo'[a] # <<>> /\ Head(todo'[a]).op = "edit",
         to \in {"write", "send", "open"} => hold'[a] \in Text,
         a = Loop => to \in {"idle", "apply", "write", "send"}
  PROVE  pc' \in [Actor -> PCs] /\ Work'
<1>1. pc' \in [Actor -> PCs] /\ pc'[a] = to /\ \A b \in Actor \ {a} : pc'[b] = pc[b]
  BY DEF Go, EditTypes
<1>2. WorkOf(a)'
  BY <1>1 DEF WorkOf, Verifying
<1>. QED BY <1>1, <1>2, OthersWork

LEMMA BeginTypes ==
  ASSUME EditTypes, Work, Roles, NEW c \in Call, Begin(c)
  PROVE  EditTypes' /\ Work'
<1>1. PICK k \in Kinds, p \in Plans, d \in BOOLEAN :
        /\ kind' = [kind EXCEPT ![c] = k] /\ plan' = [plan EXCEPT ![c] = p]
        /\ dry' = [dry EXCEPT ![c] = d] /\ pc' = [pc EXCEPT ![c] = StartPC(k)]
        /\ todo' = [todo EXCEPT ![c] =
                      IF k # "raw" THEN <<>>
                      ELSE [i \in DOMAIN p |-> Op(p[i], c, disk[p[i].file])]]
  BY DEF Begin, Kinds
<1>2. p \in Seq(PlanOp)
  BY PlanAssumption
<1>3. \A f \in File : disk[f] \in Text \cup {Gone}
  BY DEF EditTypes
<1>4. [i \in DOMAIN p |-> Op(p[i], c, disk[p[i].file])] \in Seq(Operations)
  BY <1>2, <1>3, PlannedOps
<1>5. todo'[c] \in Seq(Operations) /\ todo' \in [Actor -> Seq(Operations) \cup Seq(File)]
  BY <1>1, <1>4 DEF EditTypes, Actor
<1>6. StartPC(k) \in {"read", "running", "plan"}
  BY DEF StartPC
<1>7. EditTypes'
  BY <1>1, <1>2, <1>5, <1>6 DEF Begin, EditTypes, docVars, captureVars, Actor, PCs
<1>8. Work'
  BY <1>1, <1>5, <1>6, ActorAssumption DEF Begin, Work, WorkOf, EditTypes, Verifying, Actor
<1>. QED BY <1>7, <1>8

LEMMA PlanningTypes ==
  ASSUME EditTypes, Work, Roles, NEW c \in Call,
         \/ ReadFile(c) \/ OpenDocument(c) \/ RenameSymbol(c) \/ HandleApplyEdit(c)
         \/ ReadForPreview(c) \/ SimulateEdit(c) \/ ApplyTextMatch(c)
  PROVE  EditTypes' /\ Work'
<1>0. /\ c \in Actor /\ pc[c] # "idle" /\ c # Loop
      /\ Requested(c) \in File /\ disk[Requested(c)] \in Text \cup {Gone}
  <2>1. c \in Actor /\ pc[c] # "idle" /\ c # Loop
    BY ActorAssumption DEF Actor, ReadFile, OpenDocument, RenameSymbol, HandleApplyEdit, ReadForPreview,
       SimulateEdit, ApplyTextMatch, Go
  <2>2. Requested(c) \in File
    BY <2>1, RequestedFile
  <2>. QED BY <2>1, <2>2 DEF EditTypes
<1>1. CASE ReadFile(c)
  <2>1. CASE disk[Requested(c)] = Gone
    <3>1. Finish(c, "error") /\ hold' = hold /\ todo' = todo /\ pc[c] \notin Verifying
      BY <1>1, <2>1 DEF ReadFile, Verifying
    <3>2. /\ pc' \in [Actor -> PCs] /\ res' \in [Actor -> Results] /\ Work'
      BY <3>1, FinishTypes DEF EditTypes, Results
    <3>. QED BY <1>1, <3>1, <3>2 DEF ReadFile, EditTypes, docVars, callVars, captureVars, historyVars
  <2>2. CASE disk[Requested(c)] # Gone
    <3>1. Go(c, "read", "open") /\ Hold(c, disk[Requested(c)]) /\ todo' = todo
      BY <1>1, <2>2 DEF ReadFile
    <3>2. /\ disk[Requested(c)] \in Text /\ hold'[c] = disk[Requested(c)]
          /\ hold' \in [Actor -> Text \cup {Gone}] /\ \A b \in Actor \ {c} : hold'[b] = hold[b]
      BY <1>0, <2>2, <3>1 DEF Hold, EditTypes
    <3>3. todo[c] \in Seq(Operations) /\ todo' \in [Actor -> Seq(Operations) \cup Seq(File)]
      BY <1>0, <3>1 DEF Go, Verifying, Work, WorkOf, EditTypes
    <3>4. pc' \in [Actor -> PCs] /\ Work'
      BY <1>0, <3>1, <3>2, <3>3, GoTypes DEF PCs, Verifying
    <3>. QED BY <3>2,  <1>1, <2>2, <3>1, <3>4 DEF ReadFile, EditTypes, docVars, callVars, captureVars, historyVars
  <2>. QED BY <2>1, <2>2
<1>2. CASE OpenDocument(c)
  <2>1. hold[c] \in Text
    BY <1>0, <1>2 DEF OpenDocument, Go, Work, WorkOf
  <2>. QED BY <1>0, <1>2, <2>1 DEF OpenDocument, Opened, Go, Hold, EditTypes, Work, WorkOf, Verifying, PCs,
     callVars, captureVars
<1>3. CASE RenameSymbol(c)
  <2>1. Planned(c, OnView) \in Seq(Operations)
    BY <1>0, Views, PlannedSeq
  <2>2. contended' \in BOOLEAN
    BY <1>3 DEF RenameSymbol, EditTypes
  <2>3. CASE dry[c]
    <3>1. Finish(c, "preview") /\ hold' = hold /\ todo' = todo /\ pc[c] \notin Verifying
      BY <1>3, <2>3 DEF RenameSymbol, Verifying
    <3>2. /\ pc' \in [Actor -> PCs] /\ res' \in [Actor -> Results] /\ Work'
      BY <3>1, FinishTypes DEF EditTypes, Results
    <3>. QED BY <1>3, <2>2, <3>1, <3>2 DEF RenameSymbol, EditTypes, docVars, callVars, captureVars
  <2>4. CASE ~dry[c]
    <3>1. Go(c, "plan", "apply") /\ todo' = [todo EXCEPT ![c] = Planned(c, OnView)] /\ hold' = hold
      BY <1>3, <2>4 DEF RenameSymbol
    <3>2. /\ todo'[c] \in Seq(Operations) /\ todo' \in [Actor -> Seq(Operations) \cup Seq(File)]
          /\ \A b \in Actor \ {c} : todo'[b] = todo[b]
      BY <1>0, <2>1, <3>1 DEF EditTypes
    <3>3. hold' \in [Actor -> Text \cup {Gone}]
      BY <3>1 DEF EditTypes
    <3>4. pc' \in [Actor -> PCs] /\ Work'
      BY <1>0, <3>1, <3>2, <3>3, GoTypes DEF PCs, Verifying
    <3>. QED BY <3>4,  <1>3, <2>2, <2>4, <3>1, <3>2 DEF RenameSymbol, EditTypes, docVars, callVars, captureVars
  <2>. QED BY <2>3, <2>4
<1>4. CASE HandleApplyEdit(c)
  BY <1>0, <1>4 DEF HandleApplyEdit, Go, EditTypes, Work, WorkOf, Verifying, PCs,
     docVars, callVars, captureVars, historyVars
<1>5. CASE ReadForPreview(c)
  <2>1. CASE disk[Requested(c)] = Gone
    <3>1. Finish(c, "error") /\ hold' = hold /\ todo' = todo /\ pc[c] \notin Verifying
      BY <1>5, <2>1 DEF ReadForPreview, Verifying
    <3>2. /\ pc' \in [Actor -> PCs] /\ res' \in [Actor -> Results] /\ Work'
      BY <3>1, FinishTypes DEF EditTypes, Results
    <3>. QED BY <1>5, <3>1, <3>2 DEF ReadForPreview, EditTypes, docVars, callVars, captureVars, historyVars
  <2>2. CASE disk[Requested(c)] # Gone
    <3>1. Go(c, "plan", "preview") /\ Hold(c, disk[Requested(c)]) /\ todo' = todo
      BY <1>5, <2>2 DEF ReadForPreview
    <3>2. /\ disk[Requested(c)] \in Text /\ hold'[c] = disk[Requested(c)]
          /\ hold' \in [Actor -> Text \cup {Gone}] /\ \A b \in Actor \ {c} : hold'[b] = hold[b]
      BY <1>0, <2>2, <3>1 DEF Hold, EditTypes
    <3>3. todo[c] \in Seq(Operations) /\ todo' \in [Actor -> Seq(Operations) \cup Seq(File)]
      BY <1>0, <3>1 DEF Go, Verifying, Work, WorkOf, EditTypes
    <3>4. pc' \in [Actor -> PCs] /\ Work'
      BY <1>0, <3>1, <3>2, <3>3, GoTypes DEF PCs, Verifying
    <3>. QED BY <3>2,  <1>5, <2>2, <3>1, <3>4 DEF ReadForPreview, EditTypes, docVars, callVars, captureVars, historyVars
  <2>. QED BY <2>1, <2>2
<1>6. CASE SimulateEdit(c)
  <2>1. CASE \E r \in {"error", "blocked"} : Finish(c, r) /\ Hold(c, Gone)
    <3>1. PICK r \in {"error", "blocked"} : Finish(c, r) /\ Hold(c, Gone)
      BY <2>1
    <3>2. /\ hold' \in [Actor -> Text \cup {Gone}] /\ \A b \in Actor \ {c} : hold'[b] = hold[b]
          /\ todo' = todo /\ pc[c] \notin Verifying
      BY <1>0, <1>6, <3>1 DEF SimulateEdit, Hold, EditTypes, Verifying
    <3>3. /\ pc' \in [Actor -> PCs] /\ res' \in [Actor -> Results] /\ Work'
      BY <3>1, <3>2, FinishTypes DEF Results
    <3>. QED BY <1>6, <3>2, <3>3 DEF SimulateEdit, EditTypes, docVars, captureVars, historyVars
  <2>2. CASE Go(c, "preview", "match") /\ UNCHANGED <<hold, res>>
    BY <1>0, <1>6, <2>2 DEF SimulateEdit, Go, EditTypes, Work, WorkOf, Verifying, PCs,
       docVars, captureVars, historyVars
  <2>. QED BY <1>6, <2>1, <2>2 DEF SimulateEdit
<1>7. CASE ApplyTextMatch(c)
  <2>1. Planned(c, disk) \in Seq(Operations)
    BY <1>0, PlannedSeq DEF EditTypes
  <2>2. /\ hold' \in [Actor -> Text \cup {Gone}] /\ \A b \in Actor \ {c} : hold'[b] = hold[b]
        /\ pc[c] \in {"plan", "match"}
    BY <1>0, <1>7 DEF ApplyTextMatch, Hold, EditTypes
  <2>3. CASE Finish(c, "error") /\ UNCHANGED todo
    <3>1. /\ pc' \in [Actor -> PCs] /\ res' \in [Actor -> Results] /\ Work'
      BY <2>2, <2>3, FinishTypes DEF Results, Verifying
    <3>. QED BY <1>7, <2>2, <2>3, <3>1 DEF ApplyTextMatch, EditTypes, docVars, callVars, captureVars, historyVars
  <2>4. CASE /\ Go(c, pc[c], "apply") /\ UNCHANGED res
             /\ todo' = [todo EXCEPT ![c] = Planned(c, disk)]
    <3>1. EditTypes'
      BY <1>0, <1>7, <2>1, <2>2, <2>4 DEF ApplyTextMatch, Go, EditTypes, PCs, docVars, callVars, captureVars,
         historyVars
    <3>2. pc'[c] = "apply" /\ todo'[c] \in Seq(Operations)
      BY <1>0, <2>1, <2>4 DEF Go, EditTypes
    <3>3. \A b \in Actor \ {c} : pc'[b] = pc[b] /\ todo'[b] = todo[b]
      BY <1>0, <2>4 DEF Go, EditTypes
    <3>4. WorkOf(c)'
      BY <3>2 DEF WorkOf, Verifying
    <3>. QED BY <1>0, <2>2, <3>1, <3>3, <3>4, OthersWork
  <2>. QED BY <1>7, <2>3, <2>4 DEF ApplyTextMatch
<1>. QED BY <1>1, <1>2, <1>3, <1>4, <1>5, <1>6, <1>7

LEMMA CommandTypes ==
  ASSUME EditTypes, Work, Roles, NEW c \in Call,
         StartCapture(c) \/ ServerApplyEdit(c) \/ Executed(c) \/ RequestEnds(c)
  PROVE  EditTypes' /\ Work'
<1>0. c \in Actor /\ c # Loop /\ Loop \in Actor /\ pc[c] \notin Verifying /\ pc[c] # "idle"
  BY ActorAssumption DEF Actor, StartCapture, ServerApplyEdit, Executed, RequestEnds, Go, Roles, RoleOf, Verifying
<1>1. CASE StartCapture(c)
  BY <1>0, <1>1 DEF StartCapture, Go, EditTypes, Work, WorkOf, Verifying, PCs, docVars, callVars, historyVars
<1>2. CASE ServerApplyEdit(c)
  <2>1. Planned(c, OnView) \in Seq(Operations)
    BY <1>0, Views, PlannedSeq
  <2>2. CASE capture # None
    <3>1. capture \in Call /\ caught[capture] \o Planned(c, OnView) \in Seq(Operations)
      BY <2>1, <2>2, Joined DEF EditTypes
    <3>2. EditTypes'
      BY <1>2, <2>2, <3>1 DEF ServerApplyEdit, EditTypes, docVars, callVars
    <3>3. UNCHANGED <<pc, todo, hold>>
      BY <1>2, <2>2 DEF ServerApplyEdit
    <3>. QED BY <3>2, <3>3 DEF Work, WorkOf
  <2>3. CASE capture = None
    <3>1. /\ pc' = [pc EXCEPT ![Loop] = "apply"] /\ todo' = [todo EXCEPT ![Loop] = Planned(c, OnView)]
          /\ UNCHANGED <<docVars, callVars, hold, res, caught, capture, cut, landed, toggles, outside>>
          /\ sent' = sent \cup {c} /\ contended' \in BOOLEAN
      BY <1>2, <2>3 DEF ServerApplyEdit, EditTypes
    <3>2. EditTypes'
      BY <1>0, <2>1, <3>1 DEF EditTypes, PCs, docVars, callVars
    <3>3. pc'[Loop] = "apply" /\ todo'[Loop] \in Seq(Operations)
      BY <1>0, <2>1, <3>1 DEF EditTypes
    <3>4. \A b \in Actor \ {Loop} : pc'[b] = pc[b] /\ todo'[b] = todo[b] /\ hold'[b] = hold[b]
      BY <3>1 DEF EditTypes
    <3>5. WorkOf(Loop)'
      BY <3>3 DEF WorkOf, Verifying
    <3>. QED BY <1>0, <3>2, <3>3, <3>4, <3>5, OthersWork
  <2>. QED BY <2>2, <2>3
<1>3. CASE Executed(c)
  <2>1. capture' \in Call \cup {None}
    BY <1>3 DEF Executed, EndCapture, EditTypes
  <2>2. CASE kind[c] = "refactor" /\ ~dry[c] /\ caught[c] # <<>>
    <3>1. Go(c, "running", "apply") /\ todo' = [todo EXCEPT ![c] = caught[c]] /\ caught[c] \in Seq(Operations)
      BY <1>3, <2>2 DEF Executed, EditTypes
    <3>2. EditTypes'
      BY <1>0, <1>3, <2>1, <2>2, <3>1 DEF Executed, Go, EditTypes, PCs, docVars, callVars, historyVars
    <3>. QED BY <1>0, <1>3, <2>2, <3>1, <3>2 DEF Executed, Go, EditTypes, Work, WorkOf, Verifying
  <2>3. CASE ~(kind[c] = "refactor" /\ ~dry[c] /\ caught[c] # <<>>)
    <3>1. PICK r \in Results : Finish(c, r)
      BY <1>3, <2>3 DEF Executed, Results
    <3>2. hold' = hold /\ todo' = todo
      BY <1>3, <2>3 DEF Executed
    <3>3. /\ pc' \in [Actor -> PCs] /\ res' \in [Actor -> Results] /\ Work'
      BY <1>0, <3>1, <3>2, FinishTypes DEF EditTypes
    <3>. QED BY <1>3, <2>1, <3>2, <3>3 DEF Executed, EditTypes, docVars, callVars, historyVars
  <2>. QED BY <2>2, <2>3
<1>4. CASE RequestEnds(c)
  BY <1>0, <1>4 DEF RequestEnds, Finish, EndCapture, EditTypes, Work, WorkOf, Verifying, Results, PCs, docVars,
     callVars, historyVars
<1>. QED BY <1>1, <1>2, <1>3, <1>4

LEMMA FailTypes ==
  ASSUME EditTypes, Work, NEW a \in Actor, pc[a] \notin Verifying, Fail(a),
         hold' \in [Actor -> Text \cup {Gone}], \A b \in Actor \ {a} : hold'[b] = hold[b]
  PROVE  /\ pc' \in [Actor -> PCs] /\ res' \in [Actor -> Results]
         /\ todo' \in [Actor -> Seq(Operations) \cup Seq(File)] /\ Work'
         /\ todo' = [todo EXCEPT ![a] = <<>>] /\ pc'[a] \in {"idle", "done"}
         /\ \A b \in Actor \ {a} : pc'[b] = pc[b] /\ todo'[b] = todo[b]
<1>1. /\ todo' = [todo EXCEPT ![a] = <<>>] /\ <<>> \in Seq(Operations)
      /\ todo' \in [Actor -> Seq(Operations) \cup Seq(File)]
  BY DEF Fail, EditTypes
<1>2. todo'[a] \in Seq(Operations) /\ \A b \in Actor \ {a} : todo'[b] = todo[b]
  BY <1>1 DEF EditTypes
<1>3. /\ pc' \in [Actor -> PCs] /\ pc'[a] = IF a = Loop THEN "idle" ELSE "done"
      /\ \A b \in Actor \ {a} : pc'[b] = pc[b]
  BY DEF Fail, Finish, EditTypes, PCs
<1>4. res' \in [Actor -> Results]
  BY DEF Fail, Finish, EditTypes, Results
<1>5. WorkOf(a)'
  BY <1>2, <1>3 DEF WorkOf, Verifying
<1>6. Work'
  BY <1>2, <1>3, <1>5, OthersWork
<1>. QED BY <1>1, <1>2, <1>3, <1>4, <1>6

LEMMA EditedIsFinite ==
  ASSUME NEW c \in Call, plan[c] \in Seq(PlanOp)
  PROVE  Cardinality(Edited(c)) \in Nat /\ Edited(c) \subseteq File
<1>1. DOMAIN plan[c] = 1..Len(plan[c]) /\ Len(plan[c]) \in Nat /\ \A i \in DOMAIN plan[c] : plan[c][i] \in PlanOp
  OBVIOUS
<1> DEFINE I == {j \in DOMAIN plan[c] : plan[c][j].op = "edit"}
<1> DEFINE g == [i \in I |-> plan[c][i].file]
<1>2. IsFiniteSet(I)
  <2>1. IsFiniteSet(1..Len(plan[c]))
    BY <1>1, FS_Interval
  <2>2. I \in SUBSET (1..Len(plan[c]))
    BY <1>1
  <2>. QED BY <2>1, <2>2, FS_Subset
<1>3. IsFiniteSet({plan[c][i].file : i \in I})
  <2>1. g \in Surjection(I, {plan[c][i].file : i \in I})
    BY DEF Surjection
  <2>. QED BY <1>2, <2>1, FS_Surjection
<1>. QED BY <1>1, <1>3, FS_CardinalityType DEF Edited, PlanOp

\* the next operation is taken
LEMMA NextOpTypes ==
  ASSUME EditTypes, Work, NEW a \in Actor, Working(a), NextOp(a), pc' = pc, hold' = hold
  PROVE  todo' \in [Actor -> Seq(Operations) \cup Seq(File)] /\ Work'
<1>1. Tail(todo[a]) \in Seq(Operations) /\ pc[a] = "apply"
  BY HeadOp DEF Working, Verifying
<1>2. todo'[a] \in Seq(Operations) /\ \A b \in Actor \ {a} : todo'[b] = todo[b]
  BY <1>1 DEF NextOp, EditTypes
<1>3. todo' \in [Actor -> Seq(Operations) \cup Seq(File)]
  BY <1>1 DEF NextOp, EditTypes
<1>4. WorkOf(a)'
  BY <1>1, <1>2 DEF WorkOf, Verifying
<1>. QED BY <1>1, <1>2, <1>3, <1>4, OthersWork DEF Work

LEMMA ApplyTypes ==
  ASSUME EditTypes, Work, Roles, NEW a \in Actor,
         \/ CreateFile(a) \/ RenameFile(a) \/ DeleteFile(a) \/ ReadAndSplice(a)
         \/ WriteFile(a) \/ SendDidChange(a) \/ Applied(a)
  PROVE  EditTypes' /\ Work'
<1>0. /\ pc[a] \notin Verifying
      /\ todo[a] # <<>> => Head(todo[a]) \in Operations /\ Head(todo[a]).file \in File /\ Head(todo[a]).to \in File
                           /\ Head(todo[a]).by \in Call /\ Tail(todo[a]) \in Seq(Operations)
  <2>1. pc[a] \notin Verifying
    BY DEF CreateFile, RenameFile, DeleteFile, ReadAndSplice, WriteFile, SendDidChange, Applied, Working, Go, Verifying
  <2>. QED BY <2>1, HeadOp
<1>1. CASE CreateFile(a)
  <2>1. disk' \in [File -> Text \cup {Gone}] /\ outside' \subseteq File
    BY <1>1, <1>0 DEF CreateFile, Working, Untold, EditTypes, Pristine, Text
  <2>2. todo' \in [Actor -> Seq(Operations) \cup Seq(File)] /\ Work'
    BY <1>1, NextOpTypes DEF CreateFile
  <2>. QED BY <1>1, <2>1, <2>2 DEF CreateFile, EditTypes, callVars, captureVars
<1>2. CASE RenameFile(a)
  <2>1. CASE disk[Head(todo[a]).file] = Gone
    <3>1. Fail(a) /\ hold' = hold
      BY <1>2, <2>1 DEF RenameFile
    <3>2. /\ pc' \in [Actor -> PCs] /\ res' \in [Actor -> Results]
          /\ todo' \in [Actor -> Seq(Operations) \cup Seq(File)] /\ Work'
      BY <1>0, <3>1, FailTypes DEF EditTypes
    <3>. QED BY <1>2, <2>1, <3>1, <3>2 DEF RenameFile, EditTypes, callVars, captureVars
  <2>2. CASE disk[Head(todo[a]).file] # Gone
    <3>1. disk' \in [File -> Text \cup {Gone}] /\ outside' \subseteq File
      BY <1>2, <1>0, <2>2 DEF RenameFile, Working, Untold, EditTypes
    <3>2. todo' \in [Actor -> Seq(Operations) \cup Seq(File)] /\ Work'
      BY <1>2, <2>2, NextOpTypes DEF RenameFile
    <3>. QED BY <1>2, <2>2, <3>1, <3>2 DEF RenameFile, EditTypes, callVars, captureVars
  <2>. QED BY <2>1, <2>2
<1>3. CASE DeleteFile(a)
  <2>1. disk' \in [File -> Text \cup {Gone}] /\ outside' \subseteq File
    BY <1>3, <1>0 DEF DeleteFile, Working, Untold, EditTypes
  <2>2. todo' \in [Actor -> Seq(Operations) \cup Seq(File)] /\ Work'
    BY <1>3, NextOpTypes DEF DeleteFile
  <2>. QED BY <1>3, <2>1, <2>2 DEF DeleteFile, EditTypes, callVars, captureVars
<1>4. CASE ReadAndSplice(a)
  <2>1. CASE Fail(a) /\ UNCHANGED hold
    <3>1. /\ pc' \in [Actor -> PCs] /\ res' \in [Actor -> Results]
          /\ todo' \in [Actor -> Seq(Operations) \cup Seq(File)] /\ Work'
      BY <1>0, <2>1, FailTypes DEF EditTypes
    <3>. QED BY <1>4, <2>1, <3>1 DEF ReadAndSplice, EditTypes, docVars, callVars, captureVars, historyVars
  <2>2. CASE /\ disk[Head(todo[a]).file] # Gone
             /\ Hold(a, Splice(disk[Head(todo[a]).file], Head(todo[a]))) /\ Go(a, "apply", "write")
             /\ UNCHANGED <<res, todo>>
    <3>1. Splice(disk[Head(todo[a]).file], Head(todo[a])) \in Text
      BY <1>0, <1>4, <2>2, Spliced DEF ReadAndSplice, Working, EditTypes
    <3>2. /\ hold' \in [Actor -> Text \cup {Gone}] /\ hold'[a] \in Text
          /\ \A b \in Actor \ {a} : hold'[b] = hold[b]
      BY <2>2, <3>1 DEF Hold, EditTypes
    <3>3. todo'[a] \in Seq(Operations) /\ todo'[a] # <<>> /\ Head(todo'[a]).op = "edit"
      BY <1>0, <1>4, <2>2 DEF ReadAndSplice, Working, Work, WorkOf
    <3>4. todo' \in [Actor -> Seq(Operations) \cup Seq(File)]
      BY <2>2 DEF EditTypes
    <3>5. pc' \in [Actor -> PCs] /\ Work'
      BY <2>2, <3>2, <3>3, <3>4, GoTypes DEF PCs, Verifying
    <3>. QED BY <1>4, <2>2, <3>2, <3>4, <3>5 DEF ReadAndSplice, EditTypes, docVars, callVars, captureVars, historyVars
  <2>. QED BY <1>4, <2>1, <2>2 DEF ReadAndSplice
<1>5. CASE WriteFile(a)
  <2>0. hold[a] \in Text /\ todo[a] # <<>> /\ pc[a] = "write" /\ Head(todo[a]).op = "edit"
    BY <1>5 DEF WriteFile, Work, WorkOf
  <2>1. CASE Fail(a) /\ Hold(a, Gone) /\ UNCHANGED <<disk, landed>>
    <3>0. hold' \in [Actor -> Text \cup {Gone}] /\ \A b \in Actor \ {a} : hold'[b] = hold[b]
      BY <2>1 DEF Hold, EditTypes
    <3>1. /\ pc' \in [Actor -> PCs] /\ res' \in [Actor -> Results]
          /\ todo' \in [Actor -> Seq(Operations) \cup Seq(File)] /\ Work'
      BY <1>0, <2>1, <3>0, FailTypes
    <3>. QED BY <1>5, <2>1, <3>0, <3>1 DEF WriteFile, EditTypes, callVars, captureVars
  <2>2. CASE /\ disk' = [disk EXCEPT ![Head(todo[a]).file] = hold[a]]
             /\ landed' = [landed EXCEPT ![Head(todo[a]).by] = @ \cup {Head(todo[a]).file}]
             /\ Go(a, "write", "send") /\ UNCHANGED <<todo, res, hold>>
    <3>1. disk' \in [File -> Text \cup {Gone}] /\ landed' \in [Call -> SUBSET File]
      BY <1>0, <2>0, <2>2 DEF EditTypes
    <3>2. /\ todo'[a] \in Seq(Operations) /\ todo'[a] # <<>> /\ Head(todo'[a]).op = "edit" /\ hold'[a] \in Text
          /\ todo' \in [Actor -> Seq(Operations) \cup Seq(File)] /\ hold' \in [Actor -> Text \cup {Gone}]
      BY <1>0, <2>0, <2>2 DEF Work, WorkOf, EditTypes
    <3>3. pc' \in [Actor -> PCs] /\ Work'
      BY <2>2, <3>2, GoTypes DEF PCs, Verifying
    <3>. QED BY <1>5, <2>2, <3>1, <3>2, <3>3 DEF WriteFile, EditTypes, callVars, captureVars
  <2>. QED BY <1>5, <2>1, <2>2 DEF WriteFile
<1>6. CASE SendDidChange(a)
  <2>0. hold[a] \in Text /\ todo[a] # <<>> /\ pc[a] = "send"
    BY <1>6 DEF SendDidChange, Go, Work, WorkOf
  <2>1. server' \in [File -> Text \cup {None}] /\ outside' \subseteq File
    BY <1>0, <1>6, <2>0 DEF SendDidChange, EditTypes
  <2>2. hold' \in [Actor -> Text \cup {Gone}] /\ \A b \in Actor \ {a} : hold'[b] = hold[b]
    BY <1>6 DEF SendDidChange, Hold, EditTypes
  <2>3. /\ todo'[a] \in Seq(Operations) /\ todo' \in [Actor -> Seq(Operations) \cup Seq(File)]
        /\ \A b \in Actor \ {a} : todo'[b] = todo[b]
    BY <1>0, <1>6, <2>0 DEF SendDidChange, NextOp, EditTypes
  <2>4. pc' \in [Actor -> PCs] /\ Work'
    BY <1>6, <2>2, <2>3, GoTypes DEF SendDidChange, PCs, Verifying
  <2>. QED BY <1>6, <2>1, <2>2, <2>3, <2>4 DEF SendDidChange, EditTypes, callVars, captureVars
<1>7. CASE Applied(a)
  <2>1. CASE a = Loop
    <3>1. Go(a, "apply", "idle") /\ todo' = todo /\ hold' = hold /\ res' = res
      BY <1>7, <2>1 DEF Applied, Go
    <3>2. todo'[a] \in Seq(Operations)
      BY <1>0, <3>1 DEF Work, WorkOf
    <3>3. pc' \in [Actor -> PCs] /\ Work'
      BY <3>1, <3>2, GoTypes DEF EditTypes, PCs, Verifying
    <3>. QED BY <1>7, <3>1, <3>3 DEF Applied, EditTypes, docVars, callVars, captureVars, historyVars
  <2>2. CASE a # Loop /\ ~Verifies(a)
    <3>1. Finish(a, "ok") /\ todo' = todo /\ hold' = hold /\ a \in Call
      BY <1>7, <2>2 DEF Applied, Actor
    <3>2. /\ pc' \in [Actor -> PCs] /\ res' \in [Actor -> Results] /\ Work'
      BY <1>0, <3>1, FinishTypes DEF EditTypes, Results
    <3>. QED BY <1>7, <3>1, <3>2 DEF Applied, EditTypes, docVars, callVars, captureVars, historyVars
  <2>3. CASE a # Loop /\ Verifies(a)
    <3>0. a \in Call /\ plan[a] \in Seq(PlanOp)
      BY <2>3 DEF Actor, EditTypes
    <3>1. PICK order \in [1 .. Cardinality(Edited(a)) -> Edited(a)] : todo' = [todo EXCEPT ![a] = order]
      BY <1>7, <2>3 DEF Applied
    <3>2. order \in Seq(File)
      BY <3>0, EditedIsFinite
    <3>3. Go(a, "apply", "reopen") /\ hold' = hold /\ res' = res
      BY <1>7, <2>3 DEF Applied
    <3>4. EditTypes'
      BY <1>7, <3>1, <3>2, <3>3 DEF Applied, Go, EditTypes, PCs, docVars, callVars, captureVars, historyVars
    <3>5. /\ pc'[a] = "reopen" /\ todo'[a] \in Seq(File)
          /\ \A b \in Actor \ {a} : pc'[b] = pc[b] /\ todo'[b] = todo[b]
      BY <3>1, <3>2, <3>3 DEF Go, EditTypes
    <3>6. WorkOf(a)'
      BY <3>5 DEF WorkOf, Verifying
    <3>. QED BY <2>3, <3>3, <3>4, <3>5, <3>6, OthersWork
  <2>. QED BY <2>1, <2>2, <2>3
<1>. QED BY <1>1, <1>2, <1>3, <1>4, <1>5, <1>6, <1>7

LEMMA VerifyTypes ==
  ASSUME EditTypes, Work, Roles, NEW c \in Call,
         CloseForReopen(c) \/ RereadFile(c) \/ ReopenDocument(c) \/ Verified(c)
  PROVE  EditTypes' /\ Work'
<1>0. /\ c \in Actor /\ c # Loop /\ pc[c] \in Verifying /\ todo[c] \in Seq(File)
      /\ todo[c] # <<>> => Tail(todo[c]) \in Seq(File) /\ Head(todo[c]) \in File
  <2>1. c \in Actor /\ c # Loop /\ pc[c] \in Verifying
    BY ActorAssumption DEF Actor, Verifying, CloseForReopen, RereadFile, ReopenDocument, Verified, Go
  <2>2. todo[c] \in Seq(File)
    BY <2>1 DEF Work, WorkOf
  <2>. QED BY <2>1, <2>2, HeadFile
<1>1. CASE CloseForReopen(c)
  <2>1. server' \in [File -> Text \cup {None}]
    BY <1>0, <1>1 DEF CloseForReopen, EditTypes
  <2>2. pc' \in [Actor -> PCs] /\ pc'[c] = "reread" /\ \A b \in Actor \ {c} : pc'[b] = pc[b]
    BY <1>0, <1>1 DEF CloseForReopen, Go, EditTypes, PCs
  <2>3. WorkOf(c)'
    BY <1>0, <1>1, <2>2 DEF CloseForReopen, WorkOf, Verifying
  <2>4. Work'
    BY <1>0, <1>1, <2>2, <2>3, OthersWork DEF CloseForReopen
  <2>. QED BY <1>1, <2>1, <2>2, <2>4 DEF CloseForReopen, EditTypes, callVars, captureVars, historyVars
<1>2. CASE RereadFile(c)
  <2>0. todo[c] # <<>>
    BY <1>0, <1>2 DEF RereadFile, Work, WorkOf
  <2>1. /\ hold' \in [Actor -> Text \cup {Gone}] /\ hold'[c] = disk[Head(todo[c])]
        /\ \A b \in Actor \ {c} : hold'[b] = hold[b]
    BY <1>0, <1>2, <2>0 DEF RereadFile, Hold, EditTypes
  <2>2. /\ pc' \in [Actor -> PCs] /\ \A b \in Actor \ {c} : pc'[b] = pc[b]
        /\ pc'[c] = IF disk[Head(todo[c])] = Gone THEN "reopen" ELSE "didOpen"
    BY <1>0, <1>2 DEF RereadFile, Go, EditTypes, PCs
  <2>3. /\ todo' \in [Actor -> Seq(Operations) \cup Seq(File)] /\ \A b \in Actor \ {c} : todo'[b] = todo[b]
        /\ todo'[c] = IF disk[Head(todo[c])] = Gone THEN Tail(todo[c]) ELSE todo[c]
    BY <1>0, <1>2, <2>0 DEF RereadFile, NextOp, EditTypes
  <2>4. WorkOf(c)'
    BY <1>0, <2>0, <2>1, <2>2, <2>3 DEF WorkOf, Verifying, EditTypes
  <2>5. Work'
    BY <1>0, <2>1, <2>2, <2>3, <2>4, OthersWork
  <2>. QED BY <1>2, <2>1, <2>2, <2>3, <2>5 DEF RereadFile, EditTypes, docVars, callVars, captureVars, historyVars
<1>3. CASE ReopenDocument(c)
  <2>0. todo[c] # <<>> /\ hold[c] \in Text
    BY <1>0, <1>3 DEF ReopenDocument, Go, Work, WorkOf
  <2>1. /\ server' \in [File -> Text \cup {None}] /\ tracked' \subseteq File /\ outside' \subseteq File
        /\ hold' \in [Actor -> Text \cup {Gone}] /\ \A b \in Actor \ {c} : hold'[b] = hold[b]
    BY <1>0, <1>3, <2>0 DEF ReopenDocument, Hold, EditTypes
  <2>2. pc' \in [Actor -> PCs] /\ pc'[c] = "reopen" /\ \A b \in Actor \ {c} : pc'[b] = pc[b]
    BY <1>0, <1>3 DEF ReopenDocument, Go, EditTypes, PCs
  <2>3. /\ todo' \in [Actor -> Seq(Operations) \cup Seq(File)] /\ todo'[c] \in Seq(File)
        /\ \A b \in Actor \ {c} : todo'[b] = todo[b]
    BY <1>0, <1>3, <2>0 DEF ReopenDocument, NextOp, EditTypes
  <2>4. WorkOf(c)'
    BY <2>2, <2>3 DEF WorkOf, Verifying
  <2>5. Work'
    BY <1>0, <2>1, <2>2, <2>3, <2>4, OthersWork
  <2>. QED BY <1>3, <2>1, <2>2, <2>3, <2>5 DEF ReopenDocument, EditTypes, callVars, captureVars
<1>4. CASE Verified(c)
  <2>1. pc' \in [Actor -> PCs] /\ pc'[c] = "done" /\ \A b \in Actor \ {c} : pc'[b] = pc[b]
    BY <1>0, <1>4 DEF Verified, Finish, EditTypes, PCs
  <2>2. res' \in [Actor -> Results] /\ todo[c] = <<>> /\ todo' = todo /\ hold' = hold
    BY <1>0, <1>4 DEF Verified, Finish, EditTypes, Results
  <2>3. WorkOf(c)'
    <3>1. <<>> \in Seq(Operations)
      OBVIOUS
    <3>. QED BY <2>1, <2>2, <3>1 DEF WorkOf, Verifying
  <2>4. Work'
    BY <1>0, <2>1, <2>2, <2>3, OthersWork
  <2>. QED BY <1>4, <2>1, <2>2, <2>4 DEF Verified, EditTypes, docVars, callVars, captureVars, historyVars
<1>. QED BY <1>1, <1>2, <1>3, <1>4

LEMMA UserTypes ==
  ASSUME EditTypes, Work, NEW f \in File, UserWrites(f)
  PROVE  EditTypes' /\ Work'
<1>1. disk' \in [File -> Text \cup {Gone}]
  BY UserText DEF UserWrites
<1>2. toggles' \in Nat /\ outside' \subseteq File /\ contended' \in BOOLEAN
  BY DEF UserWrites, EditTypes
<1>. QED BY <1>1, <1>2 DEF UserWrites, EditTypes, Work, WorkOf, callVars, captureVars

LEMMA TypesStep ==
  ASSUME EditTypes, Work, Roles, [Next]_vars
  PROVE  EditTypes' /\ Work'
<1>1. CASE Next
  BY <1>1, BeginTypes, PlanningTypes, CommandTypes, ApplyTypes, VerifyTypes, UserTypes DEF Next
<1>2. CASE UNCHANGED vars
  BY <1>2 DEF vars, docVars, callVars, captureVars, historyVars, EditTypes, Work, WorkOf
<1>. QED BY <1>1, <1>2

-----------------------------------------------------------------------------
(* Which tool is at which step *)

\* the roles of the other calls are not touched
LEMMA OthersRoles ==
  ASSUME EditTypes, Roles, NEW c \in Call, RoleOf(c)',
         \A d \in Call \ {c} :
           /\ pc'[d] = pc[d] /\ kind'[d] = kind[d] /\ plan'[d] = plan[d] /\ dry'[d] = dry[d]
           /\ d \in sent' <=> d \in sent
           /\ d \in cut' <=> d \in cut
           /\ capture' = d <=> capture = d
           /\ pc[d] = "idle" => /\ landed'[d] = landed[d] /\ todo'[d] = todo[d]
                                /\ caught'[d] = caught[d] /\ res'[d] = res[d]
  PROVE  Roles'
<1> SUFFICES ASSUME NEW d \in Call \ {c} PROVE RoleOf(d)'
  BY DEF Roles
<1>. QED BY DEF Roles, RoleOf, Checked

\* whose operation it is has begun
LEMMA OwnersBegan ==
  ASSUME Work, Roles, Owned, NEW a \in Actor, pc[a] \notin Verifying \cup {"idle"}, todo[a] # <<>>
  PROVE  /\ pc[Head(todo[a]).by] # "idle" /\ Allowed(Head(todo[a]).by)
         /\ Head(todo[a]).by = a \/ Head(todo[a]).by \in sent
         /\ a = Loop => Head(todo[a]).by \in sent
<1>1. todo[a] \in Seq(Operations)
  BY DEF Work, WorkOf
<1>2. Head(todo[a]) \in Elements(todo[a]) /\ Head(todo[a]).by \in Call
  <2>1. Head(todo[a]) \in Elements(todo[a]) /\ Head(todo[a]) \in Operations
    BY <1>1, HeadAndRest
  <2>. QED BY <2>1 DEF Operations
<1>3. (Head(todo[a]).by = a \/ Head(todo[a]).by \in sent) /\ Allowed(Head(todo[a]).by)
  BY <1>2 DEF Owned, OwnedBy
<1>. QED BY <1>2, <1>3, ActorAssumption DEF Roles, RoleOf

LEMMA BeginRoles ==
  ASSUME EditTypes, Work, Roles, NEW c \in Call, Begin(c)
  PROVE  Roles'
<1>1. PICK k \in Kinds, p \in Plans, d \in BOOLEAN :
        /\ kind' = [kind EXCEPT ![c] = k] /\ plan' = [plan EXCEPT ![c] = p]
        /\ dry' = [dry EXCEPT ![c] = d] /\ pc' = [pc EXCEPT ![c] = StartPC(k)]
        /\ d => k \in {"rename", "refactor"}
        /\ \E t : todo' = [todo EXCEPT ![c] = t]
  BY DEF Begin, Kinds
<1>2. p # <<>>
  BY PlanAssumption
<1>3. StartPC(k) = IF k \in {"rename", "refactor"} THEN "read" ELSE IF k = "execute" THEN "running" ELSE "plan"
  BY DEF StartPC
<1>4. /\ pc[c] = "idle" /\ c \notin sent /\ c \notin cut /\ capture # c /\ c \in Actor
      /\ UNCHANGED <<landed, caught, res, sent, cut, capture>>
  BY DEF Begin, captureVars, Roles, RoleOf, Actor
<1>5. /\ kind'[c] = k /\ plan'[c] = p /\ dry'[c] = d /\ pc'[c] = StartPC(k)
      /\ \A x \in Call \ {c} : /\ kind'[x] = kind[x] /\ plan'[x] = plan[x] /\ dry'[x] = dry[x]
                               /\ pc'[x] = pc[x] /\ todo'[x] = todo[x]
  BY <1>1, <1>4 DEF EditTypes, Actor
<1>6. RoleOf(c)'
  BY <1>1, <1>2, <1>3, <1>4, <1>5 DEF RoleOf, Kinds, Verifying
<1>. QED BY <1>4, <1>5, <1>6, OthersRoles

\* a call moves on, or ends, and its tool has steps there
LEMMA MoveRoles ==
  ASSUME EditTypes, Roles, NEW c \in Call, NEW to \in PCs \ {"idle"}, pc[c] # "idle",
         pc' = [pc EXCEPT ![c] = to],
         UNCHANGED <<kind, plan, dry, sent, cut, caught, capture>>,
         \A d \in Call \ {c} : landed'[d] = landed[d] \/ pc[d] # "idle",
         \A d \in Call \ {c} : todo'[d] = todo[d] /\ res'[d] = res[d],
         pc[c] # "running", to # "running", c \notin cut,
         to \in {"read", "open"} => kind[c] \in {"rename", "refactor"},
         to = "plan" => kind[c] \in {"rename", "raw", "match", "safe"},
         to \in {"preview", "match"} => kind[c] = "safe",
         to = "lock" => kind[c] = "refactor",
         to \in {"apply", "write", "send"} => kind[c] # "execute",
         to \in Verifying => kind[c] \in {"rename", "refactor"}
  PROVE  Roles'
<1>1. c \in Actor /\ \A d \in Call : d \in Actor
  BY DEF Actor
<1>2. pc'[c] = to /\ \A d \in Call \ {c} : pc'[d] = pc[d]
  BY <1>1 DEF EditTypes
<1>3. RoleOf(c)'
  BY <1>2 DEF RoleOf, Roles, Verifying
<1>. QED BY <1>2, <1>3, OthersRoles

LEMMA PlanningRoles ==
  ASSUME EditTypes, Work, Roles, NEW c \in Call,
         \/ ReadFile(c) \/ OpenDocument(c) \/ RenameSymbol(c) \/ HandleApplyEdit(c)
         \/ ReadForPreview(c) \/ SimulateEdit(c) \/ ApplyTextMatch(c)
  PROVE  Roles'
<1>0. /\ c \in Actor /\ pc[c] # "idle" /\ RoleOf(c) /\ UNCHANGED <<kind, plan, dry, sent, cut, caught, capture, landed>>
      /\ pc[c] # "running" /\ c \notin cut
  BY ActorAssumption DEF Actor, ReadFile, OpenDocument, RenameSymbol, HandleApplyEdit, ReadForPreview,
     SimulateEdit, ApplyTextMatch, Go, Roles, RoleOf, callVars, captureVars, historyVars
<1>1. ASSUME NEW to \in PCs \ {"idle"}, pc' = [pc EXCEPT ![c] = to],
             todo' = todo \/ \E t : todo' = [todo EXCEPT ![c] = t],
             res' = res \/ \E t : res' = [res EXCEPT ![c] = t],
             \/ to = "done"
             \/ to = "open" /\ pc[c] = "read"
             \/ to = "lock" /\ kind[c] = "refactor"
             \/ to = "plan" /\ pc[c] = "open" /\ kind[c] # "refactor"
             \/ to = "apply" /\ pc[c] \in {"plan", "match"}
             \/ to = "preview" /\ kind[c] = "safe"
             \/ to = "match" /\ pc[c] = "preview"
      PROVE  Roles'
  <2>1. \A d \in Call \ {c} : todo'[d] = todo[d] /\ res'[d] = res[d]
    BY <1>1 DEF EditTypes, Actor
  <2>. QED BY <1>0, <1>1, <2>1, MoveRoles DEF RoleOf, Verifying
<1>2. CASE ReadFile(c)
  BY <1>1, <1>2 DEF ReadFile, Finish, Go, PCs
<1>3. CASE OpenDocument(c)
  <2>1. pc[c] = "open" /\ pc' = [pc EXCEPT ![c] = IF kind[c] = "refactor" THEN "lock" ELSE "plan"]
        /\ todo' = todo /\ res' = res
    BY <1>3 DEF OpenDocument, Go
  <2>2. CASE kind[c] = "refactor"
    BY <1>1, <2>1, <2>2 DEF PCs
  <2>3. CASE kind[c] # "refactor"
    BY <1>1, <2>1, <2>3 DEF PCs
  <2>. QED BY <2>2, <2>3
<1>4. CASE RenameSymbol(c)
  BY <1>1, <1>4 DEF RenameSymbol, Finish, Go, PCs
<1>5. CASE HandleApplyEdit(c)
  BY <1>1, <1>5 DEF HandleApplyEdit, Go, PCs
<1>6. CASE ReadForPreview(c)
  BY <1>1, <1>6 DEF ReadForPreview, Finish, Go, PCs
<1>7. CASE SimulateEdit(c)
  BY <1>1, <1>7 DEF SimulateEdit, Finish, Go, PCs
<1>8. CASE ApplyTextMatch(c)
  BY <1>1, <1>8 DEF ApplyTextMatch, Finish, Go, PCs
<1>. QED BY <1>2, <1>3, <1>4, <1>5, <1>6, <1>7, <1>8

LEMMA CommandRoles ==
  ASSUME EditTypes, Work, Roles, NEW c \in Call,
         StartCapture(c) \/ ServerApplyEdit(c) \/ Executed(c) \/ RequestEnds(c)
  PROVE  Roles'
<1>0. c \in Actor /\ c # Loop /\ RoleOf(c) /\ c # None /\ \A d \in Call : d \in Actor /\ d # Loop /\ d # None
  BY ActorAssumption, NoneAssumption DEF Actor, Roles
<1>1. CASE StartCapture(c)
  <2>1. pc[c] = "lock" /\ pc'[c] = "running" /\ \A d \in Call \ {c} : pc'[d] = pc[d]
    BY <1>0, <1>1 DEF StartCapture, Go, EditTypes
  <2>2. capture = None /\ capture' = c /\ UNCHANGED <<kind, plan, dry, sent, cut, caught, landed, todo, res>>
    BY <1>1 DEF StartCapture, callVars, historyVars
  <2>3. RoleOf(c)'
    BY <1>0, <2>1, <2>2 DEF RoleOf, Verifying
  <2>. QED BY <1>0, <2>1, <2>2, <2>3, OthersRoles
<1>2. CASE ServerApplyEdit(c)
  <2>1. pc[c] = "running" \/ c \in cut
    BY <1>2 DEF ServerApplyEdit
  <2>2. /\ \A d \in Call : pc'[d] = pc[d] /\ todo'[d] = todo[d]
        /\ UNCHANGED <<kind, plan, dry, cut, landed, res, capture>> /\ sent' = sent \cup {c}
    BY <1>0, <1>2 DEF ServerApplyEdit, callVars, EditTypes
  <2>3. \A d \in Call : pc[d] = "idle" => caught'[d] = caught[d]
    BY <1>0, <1>2 DEF ServerApplyEdit, EditTypes, Roles, RoleOf
  <2>4. RoleOf(c)'
    BY <1>0, <2>1, <2>2, <2>3 DEF RoleOf
  <2>. QED BY <2>2, <2>3, <2>4, OthersRoles
<1>3. CASE Executed(c)
  <2>1. /\ pc[c] = "running" /\ UNCHANGED <<kind, plan, dry, sent, cut, caught, landed>>
        /\ capture' = IF capture = c THEN None ELSE capture
    BY <1>3 DEF Executed, EndCapture, callVars, historyVars
  <2>2. /\ \A d \in Call \ {c} : pc'[d] = pc[d] /\ todo'[d] = todo[d] /\ res'[d] = res[d]
        /\ pc'[c] = "done" \/ (pc'[c] = "apply" /\ kind[c] = "refactor")
    BY <1>0, <1>3 DEF Executed, Finish, Go, EditTypes
  <2>3. RoleOf(c)'
    BY <1>0, <2>1, <2>2 DEF RoleOf, Verifying
  <2>. QED BY <1>0, <2>1, <2>2, <2>3, OthersRoles
<1>4. CASE RequestEnds(c)
  <2>1. /\ pc[c] = "running" /\ UNCHANGED <<kind, plan, dry, sent, caught, landed, todo>>
        /\ capture' = (IF capture = c THEN None ELSE capture) /\ cut' = cut \cup {c}
    BY <1>4 DEF RequestEnds, EndCapture, callVars, historyVars
  <2>2. pc'[c] = "done" /\ \A d \in Call \ {c} : pc'[d] = pc[d] /\ res'[d] = res[d]
    BY <1>0, <1>4 DEF RequestEnds, Finish, EditTypes
  <2>3. RoleOf(c)'
    BY <1>0, <2>1, <2>2 DEF RoleOf, Verifying
  <2>. QED BY <1>0, <2>1, <2>2, <2>3, OthersRoles
<1>. QED BY <1>1, <1>2, <1>3, <1>4

\* the read loop has no role
LEMMA LoopRoles ==
  ASSUME EditTypes, Work, Roles, Owned, NEW a \in Actor,
         \/ CreateFile(a) \/ RenameFile(a) \/ DeleteFile(a) \/ ReadAndSplice(a)
         \/ WriteFile(a) \/ SendDidChange(a) \/ Applied(a)
  PROVE  /\ UNCHANGED <<kind, plan, dry, sent, cut, caught, capture>>
         /\ \A d \in Call : landed'[d] = landed[d] \/ pc[d] # "idle"
         /\ \A d \in Actor \ {a} : pc'[d] = pc[d] /\ todo'[d] = todo[d] /\ res'[d] = res[d]
         /\ pc[a] \in {"apply", "write", "send"}
<1>1. UNCHANGED <<kind, plan, dry, sent, cut, caught, capture>>
  BY DEF CreateFile, RenameFile, DeleteFile, ReadAndSplice, WriteFile, SendDidChange, Applied, callVars, captureVars
<1>2. pc[a] \in {"apply", "write", "send"}
  BY DEF CreateFile, RenameFile, DeleteFile, ReadAndSplice, WriteFile, SendDidChange, Applied, Working, Go
<1>3. \A d \in Actor \ {a} : pc'[d] = pc[d] /\ todo'[d] = todo[d] /\ res'[d] = res[d]
  <2>1. CASE CreateFile(a) \/ DeleteFile(a) \/ SendDidChange(a)
    BY <2>1 DEF CreateFile, DeleteFile, SendDidChange, NextOp, Go, EditTypes
  <2>2. CASE RenameFile(a) \/ ReadAndSplice(a) \/ WriteFile(a)
    <3>1. CASE Fail(a)
      BY <3>1 DEF Fail, Finish, EditTypes
    <3>2. CASE ~Fail(a)
      BY <2>2, <3>2 DEF RenameFile, ReadAndSplice, WriteFile, NextOp, Go, EditTypes
    <3>. QED BY <3>1, <3>2
  <2>3. CASE Applied(a)
    BY <2>3 DEF Applied, Finish, Go, EditTypes
  <2>. QED BY <2>1, <2>2, <2>3
<1>4. \A d \in Call : landed'[d] = landed[d] \/ pc[d] # "idle"
  <2>1. CASE WriteFile(a)
    <3>1. todo[a] # <<>> /\ pc[a] = "write"
      BY <2>1 DEF WriteFile, Work, WorkOf
    <3>2. pc[Head(todo[a]).by] # "idle"
      BY <3>1, OwnersBegan DEF Verifying
    <3>. QED BY <2>1, <3>2 DEF WriteFile, EditTypes
  <2>2. CASE ~WriteFile(a)
    BY <2>2 DEF CreateFile, RenameFile, DeleteFile, ReadAndSplice, SendDidChange, Applied, historyVars
  <2>. QED BY <2>1, <2>2
<1>. QED BY <1>1, <1>2, <1>3, <1>4

LEMMA ApplyRoles ==
  ASSUME EditTypes, Work, Roles, Owned, NEW a \in Actor,
         \/ CreateFile(a) \/ RenameFile(a) \/ DeleteFile(a) \/ ReadAndSplice(a)
         \/ WriteFile(a) \/ SendDidChange(a) \/ Applied(a)
  PROVE  Roles'
<1>1. /\ UNCHANGED <<kind, plan, dry, sent, cut, caught, capture>>
      /\ \A d \in Call : landed'[d] = landed[d] \/ pc[d] # "idle"
      /\ \A d \in Actor \ {a} : pc'[d] = pc[d] /\ todo'[d] = todo[d] /\ res'[d] = res[d]
      /\ pc[a] \in {"apply", "write", "send"}
  BY LoopRoles
<1>2. CASE a = Loop
  <2>1. \A d \in Call : d \in Actor /\ d # a
    BY <1>2, ActorAssumption DEF Actor
  <2>. QED BY <1>1, <2>1 DEF Roles, RoleOf, Checked
<1>3. CASE a # Loop
  <2>1. a \in Call /\ RoleOf(a) /\ a \notin cut /\ \A d \in Call : d \in Actor
    BY <1>1, <1>3 DEF Actor, Roles, RoleOf
  <2>2. PICK to \in {"apply", "write", "send", "reopen", "done"} :
          pc' = [pc EXCEPT ![a] = to] /\ (to = "reopen" => kind[a] \in {"rename", "refactor"})
    <3>1. CASE CreateFile(a) \/ DeleteFile(a)
      BY <1>1, <3>1 DEF CreateFile, DeleteFile, EditTypes
    <3>2. CASE RenameFile(a) \/ ReadAndSplice(a) \/ WriteFile(a) \/ SendDidChange(a)
      <4>1. CASE Fail(a)
        BY <1>3, <4>1 DEF Fail, Finish
      <4>2. CASE ~Fail(a) /\ (pc' = pc \/ \E x \in {"apply", "write", "send"} : pc' = [pc EXCEPT ![a] = x])
        BY <1>1, <4>2 DEF EditTypes
      <4>. QED BY <3>2, <4>1, <4>2 DEF RenameFile, ReadAndSplice, WriteFile, SendDidChange, Go
    <3>3. CASE Applied(a)
      BY <1>1, <1>3, <3>3 DEF Applied, Finish, Go, Verifies
    <3>. QED BY <3>1, <3>2, <3>3
  <2>3. kind[a] # "execute" /\ to \in PCs \ {"idle"}
    BY <1>1, <2>1 DEF RoleOf, PCs
  <2>. QED BY <1>1, <2>1, <2>2, <2>3, MoveRoles DEF Verifying
<1>. QED BY <1>2, <1>3

LEMMA VerifyRoles ==
  ASSUME EditTypes, Work, Roles, NEW c \in Call,
         CloseForReopen(c) \/ RereadFile(c) \/ ReopenDocument(c) \/ Verified(c)
  PROVE  Roles'
<1>1. /\ c \in Actor /\ pc[c] \in Verifying /\ RoleOf(c) /\ c \notin cut
      /\ UNCHANGED <<kind, plan, dry, sent, cut, caught, capture, landed>>
  BY DEF Actor, CloseForReopen, RereadFile, ReopenDocument, Verified, Go, Verifying, Roles, RoleOf, callVars,
     captureVars, historyVars
<1>2. \A d \in Call \ {c} : todo'[d] = todo[d] /\ res'[d] = res[d]
  BY <1>1 DEF CloseForReopen, RereadFile, ReopenDocument, Verified, NextOp, Finish, EditTypes, Actor
<1>3. PICK to \in {"reopen", "reread", "didOpen", "done"} : pc' = [pc EXCEPT ![c] = to]
  BY DEF CloseForReopen, RereadFile, ReopenDocument, Verified, Go, Finish
<1>4. kind[c] \in {"rename", "refactor"}
  BY <1>1 DEF RoleOf
<1>. QED BY <1>1, <1>2, <1>3, <1>4, MoveRoles DEF PCs, Verifying

LEMMA RolesStep ==
  ASSUME EditTypes, Work, Roles, Owned, [Next]_vars
  PROVE  Roles'
<1>1. CASE \E f \in File : UserWrites(f)
  BY <1>1 DEF UserWrites, callVars, captureVars, Roles, RoleOf
<1>2. CASE Next /\ ~\E f \in File : UserWrites(f)
  BY <1>2, BeginRoles, PlanningRoles, CommandRoles, ApplyRoles, VerifyRoles DEF Next
<1>3. CASE UNCHANGED vars
  BY <1>3 DEF vars, docVars, callVars, captureVars, historyVars, Roles, RoleOf
<1>. QED BY <1>1, <1>2, <1>3

-----------------------------------------------------------------------------
(* Whose operations an actor holds, and what a dry run writes *)

\* nothing is taken back: an edit that was sent, a request that was given up
LEMMA AllowedStays ==
  ASSUME EditTypes, Roles, [Next]_vars
  PROVE  /\ sent \subseteq sent' /\ cut \subseteq cut'
         /\ \A d \in Call : pc[d] # "idle" => dry'[d] = dry[d] /\ (Allowed(d) => Allowed(d)')
<1>1. CASE \E c \in Call : Begin(c)
  BY <1>1 DEF Begin, EditTypes, captureVars, Allowed
<1>2. CASE UNCHANGED <<sent, cut, dry>>
  BY <1>2 DEF Allowed
<1>3. CASE \E c \in Call : ServerApplyEdit(c) \/ RequestEnds(c)
  BY <1>3 DEF ServerApplyEdit, RequestEnds, callVars, Allowed
<1>4. CASE \E c \in Call : \/ ReadFile(c) \/ OpenDocument(c) \/ RenameSymbol(c) \/ HandleApplyEdit(c)
                           \/ ReadForPreview(c) \/ SimulateEdit(c) \/ ApplyTextMatch(c)
  BY <1>2, <1>4 DEF ReadFile, OpenDocument, RenameSymbol, HandleApplyEdit, ReadForPreview, SimulateEdit,
     ApplyTextMatch, callVars, captureVars
<1>5. CASE \E c \in Call : \/ StartCapture(c) \/ Executed(c) \/ CloseForReopen(c)
                           \/ RereadFile(c) \/ ReopenDocument(c) \/ Verified(c)
  BY <1>2, <1>5 DEF StartCapture, Executed, CloseForReopen, RereadFile, ReopenDocument, Verified, callVars,
     captureVars
<1>6. CASE \E a \in Actor : \/ CreateFile(a) \/ RenameFile(a) \/ DeleteFile(a)
                            \/ ReadAndSplice(a) \/ WriteFile(a) \/ SendDidChange(a) \/ Applied(a)
  BY <1>2, <1>6 DEF CreateFile, RenameFile, DeleteFile, ReadAndSplice, WriteFile, SendDidChange, Applied,
     callVars, captureVars
<1>7. CASE \E f \in File : UserWrites(f)
  BY <1>2, <1>7 DEF UserWrites, callVars, captureVars
<1>8. CASE UNCHANGED vars
  BY <1>2, <1>8 DEF vars, callVars, captureVars
<1>. QED BY <1>1, <1>3, <1>4, <1>5, <1>6, <1>7, <1>8 DEF Next

\* the operations of the others, and those caught, are not touched
LEMMA OthersOwned ==
  ASSUME EditTypes, Work, Roles, Owned, [Next]_vars, NEW a \in Actor, OwnedBy(a)',
         \A b \in Actor \ {a} : pc'[b] = pc[b] /\ todo'[b] = todo[b],
         caught' = caught
  PROVE  Owned'
<1>0. /\ sent \subseteq sent'
      /\ \A d \in Call : pc[d] # "idle" /\ Allowed(d) => Allowed(d)'
      /\ \A d \in sent : d \in Call /\ pc[d] # "idle"
  BY AllowedStays DEF EditTypes, Roles, RoleOf
<1>1. ASSUME NEW b \in Actor \ {a}, pc[b] \notin Verifying, NEW o \in Elements(todo[b])
      PROVE  (o.by = b \/ o.by \in sent') /\ Allowed(o.by)'
  <2>1. (o.by = b \/ o.by \in sent) /\ Allowed(o.by)
    BY <1>1 DEF Owned, OwnedBy
  <2>2. o.by \in Call /\ todo[b] \in Seq(Operations) /\ todo[b] # <<>>
    <3>1. todo[b] \in Seq(Operations)
      BY <1>1 DEF Work, WorkOf
    <3>2. o \in Operations
      BY <3>1, SeqFacts
    <3>3. todo[b] # <<>>
      BY Nothing
    <3>. QED BY <3>1, <3>2, <3>3 DEF Operations
  <2>3. pc[o.by] # "idle"
    BY <1>0, <2>1, <2>2 DEF Roles, RoleOf
  <2>. QED BY <1>0, <2>1, <2>2, <2>3
<1>2. ASSUME NEW c \in Call, NEW o \in Elements(caught[c])
      PROVE  o.by \in sent' /\ (o.by = c \/ Allowed(o.by)')
  BY <1>0 DEF Owned
<1>3. ASSUME NEW b \in Actor \ {a} PROVE OwnedBy(b)'
  BY <1>1 DEF OwnedBy
<1>. QED BY <1>2, <1>3 DEF Owned

\* nothing that was not there to do
LEMMA FewerOwned ==
  ASSUME EditTypes, Work, Roles, Owned, [Next]_vars, NEW a \in Actor,
         pc'[a] \in Verifying \/ (pc[a] \notin Verifying /\ Elements(todo'[a]) \subseteq Elements(todo[a])),
         \A b \in Actor \ {a} : pc'[b] = pc[b] /\ todo'[b] = todo[b],
         caught' = caught
  PROVE  Owned'
<1>0. /\ sent \subseteq sent'
      /\ \A d \in Call : pc[d] # "idle" /\ Allowed(d) => Allowed(d)'
      /\ \A d \in sent : d \in Call /\ pc[d] # "idle"
  BY AllowedStays DEF EditTypes, Roles, RoleOf
<1>1. ASSUME pc'[a] \notin Verifying, NEW o \in Elements(todo'[a])
      PROVE  (o.by = a \/ o.by \in sent') /\ Allowed(o.by)'
  <2>1. (o.by = a \/ o.by \in sent) /\ Allowed(o.by) /\ todo[a] \in Seq(Operations) /\ o \in Elements(todo[a])
    BY <1>1 DEF Owned, OwnedBy, Work, WorkOf
  <2>2. o \in Operations /\ todo[a] # <<>>
    BY <2>1, SeqFacts, Nothing
  <2>3. o.by \in Call
    BY <2>2 DEF Operations
  <2>4. pc[o.by] # "idle"
    BY <1>0, <2>1, <2>2, <2>3 DEF Roles, RoleOf
  <2>. QED BY <1>0, <2>1, <2>3, <2>4
<1>2. OwnedBy(a)'
  BY <1>1 DEF OwnedBy
<1>. QED BY <1>2, OthersOwned

LEMMA BeginOwned ==
  ASSUME EditTypes, Work, Roles, Owned, [Next]_vars, NEW c \in Call, Begin(c)
  PROVE  Owned'
<1>0. c \in Actor
  BY DEF Actor
<1>1. PICK k \in Kinds, p \in Plans, d \in BOOLEAN :
        /\ d => k \in {"rename", "refactor"}
        /\ pc' = [pc EXCEPT ![c] = StartPC(k)] /\ dry' = [dry EXCEPT ![c] = d]
        /\ todo' = [todo EXCEPT ![c] =
                      IF k # "raw" THEN <<>>
                      ELSE [i \in DOMAIN p |-> Op(p[i], c, disk[p[i].file])]]
  BY DEF Begin, Kinds
<1>2. p \in Seq(PlanOp) /\ \A f \in File : disk[f] \in Text \cup {Gone}
  BY PlanAssumption DEF EditTypes
<1>3. k = "raw" => \A o \in Elements(todo'[c]) : o.by = c
  <2>1. CASE k = "raw"
    <3>1. todo'[c] = [i \in DOMAIN p |-> Op(p[i], c, disk[p[i].file])]
      BY <1>0, <1>1, <2>1 DEF EditTypes
    <3>. QED BY <1>2, <3>1, PlannedOps
  <2>. QED BY <2>1
<1>4. k # "raw" => Elements(todo'[c]) = {}
  BY <1>0, <1>1, Nothing DEF EditTypes
<1>5. k = "raw" => Allowed(c)'
  BY <1>1 DEF Allowed, EditTypes
<1>6. OwnedBy(c)'
  BY <1>3, <1>4, <1>5 DEF OwnedBy
<1>7. caught' = caught /\ \A b \in Actor \ {c} : pc'[b] = pc[b] /\ todo'[b] = todo[b]
  BY <1>1 DEF Begin, captureVars, EditTypes
<1>. QED BY <1>0, <1>6, <1>7, OthersOwned

LEMMA PlanningOwned ==
  ASSUME EditTypes, Work, Roles, Owned, [Next]_vars, NEW c \in Call,
         \/ ReadFile(c) \/ OpenDocument(c) \/ RenameSymbol(c) \/ HandleApplyEdit(c)
         \/ ReadForPreview(c) \/ SimulateEdit(c) \/ ApplyTextMatch(c)
  PROVE  Owned'
<1>0. /\ c \in Actor /\ pc[c] \notin Verifying /\ pc[c] # "idle" /\ caught' = caught /\ RoleOf(c)
      /\ dry' = dry /\ kind' = kind
  BY DEF Actor, ReadFile, OpenDocument, RenameSymbol, HandleApplyEdit, ReadForPreview, SimulateEdit,
     ApplyTextMatch, Go, Verifying, callVars, captureVars, Roles
<1>1. \A b \in Actor \ {c} : pc'[b] = pc[b] /\ todo'[b] = todo[b]
  <2>1. CASE ReadFile(c) \/ OpenDocument(c) \/ HandleApplyEdit(c) \/ ReadForPreview(c) \/ SimulateEdit(c)
    BY <2>1 DEF ReadFile, OpenDocument, HandleApplyEdit, ReadForPreview, SimulateEdit, Go, Finish, EditTypes
  <2>2. CASE RenameSymbol(c) \/ ApplyTextMatch(c)
    BY <2>2 DEF RenameSymbol, ApplyTextMatch, Go, Finish, EditTypes
  <2>. QED BY <2>1, <2>2
<1>2. CASE todo' = todo
  BY <1>0, <1>1, <1>2, FewerOwned
<1>3. CASE todo' # todo
  <2>1. PICK text : /\ \A f \in File : text[f] \in Text \cup {Gone}
                    /\ todo' = [todo EXCEPT ![c] = Planned(c, text)]
    <3>1. (\A f \in File : disk[f] \in Text \cup {Gone}) /\ (\A f \in File : OnView[f] \in Text \cup {Gone})
      BY Views DEF EditTypes
    <3>. QED BY <1>3, <3>1 DEF ReadFile, OpenDocument, RenameSymbol, HandleApplyEdit, ReadForPreview,
       SimulateEdit, ApplyTextMatch
  <2>2. \A o \in Elements(todo'[c]) : o.by = c
    BY <1>0, <2>1, PlannedSeq DEF EditTypes
  <2>3. ~dry[c]
    BY <1>0, <1>3 DEF ReadFile, OpenDocument, RenameSymbol, HandleApplyEdit, ReadForPreview, SimulateEdit,
       ApplyTextMatch, RoleOf
  <2>4. OwnedBy(c)'
    BY <1>0, <2>2, <2>3 DEF OwnedBy, Allowed
  <2>. QED BY <1>0, <1>1, <2>4, OthersOwned
<1>. QED BY <1>2, <1>3

LEMMA CommandOwned ==
  ASSUME EditTypes, Work, Roles, Owned, [Next]_vars, NEW c \in Call,
         StartCapture(c) \/ ServerApplyEdit(c) \/ Executed(c) \/ RequestEnds(c)
  PROVE  Owned'
<1>0. c \in Actor /\ Loop \in Actor /\ RoleOf(c)
  BY DEF Actor, Roles
<1>1. CASE StartCapture(c)
  <2>1. /\ todo' = todo /\ caught' = caught /\ pc[c] \notin Verifying
        /\ \A b \in Actor \ {c} : pc'[b] = pc[b]
    BY <1>1 DEF StartCapture, Go, Verifying, EditTypes
  <2>. QED BY <1>0, <2>1, FewerOwned
<1>2. CASE ServerApplyEdit(c)
  <2>1. /\ Planned(c, OnView) \in Seq(Operations) /\ \A o \in Elements(Planned(c, OnView)) : o.by = c
    BY <1>0, <1>2, Views, PlannedSeq DEF ServerApplyEdit, RoleOf
  <2>2. sent' = sent \cup {c} /\ dry' = dry /\ cut' = cut
    BY <1>2 DEF ServerApplyEdit, callVars
  <2>3. CASE capture # None
    <3>1. /\ capture \in Call /\ caught[capture] \in Seq(Operations) /\ pc' = pc /\ todo' = todo
          /\ caught' = [caught EXCEPT ![capture] = @ \o Planned(c, OnView)]
      BY <1>2, <2>3 DEF ServerApplyEdit, EditTypes
    <3>2. Elements(caught'[capture]) = Elements(caught[capture]) \cup Elements(Planned(c, OnView))
      BY <2>1, <3>1, Joined DEF EditTypes
    <3>3. c = capture \/ Allowed(c)
      <4>1. c # capture => kind[c] = "execute" \/ c \in cut
        BY <1>0, <1>2 DEF ServerApplyEdit, RoleOf
      <4>. QED BY <1>0, <4>1 DEF RoleOf, Allowed
    <3>4. \A x \in Call \ {capture} : caught'[x] = caught[x]
      BY <3>1 DEF EditTypes
    <3>5. \A x \in Call : \A o \in Elements(caught'[x]) : o.by \in sent' /\ (o.by = x \/ Allowed(o.by)')
      BY <2>1, <2>2, <3>2, <3>3, <3>4 DEF Owned, Allowed
    <3>6. \A a \in Actor : OwnedBy(a)'
      BY <2>2, <3>1 DEF Owned, OwnedBy, Allowed
    <3>. QED BY <3>5, <3>6 DEF Owned
  <2>4. CASE capture = None
    <3>1. /\ todo' = [todo EXCEPT ![Loop] = Planned(c, OnView)] /\ pc' = [pc EXCEPT ![Loop] = "apply"]
          /\ caught' = caught
      BY <1>2, <2>4 DEF ServerApplyEdit
    <3>2. Allowed(c)
      <4>1. capture # c
        BY <2>4, NoneAssumption
      <4>2. kind[c] = "execute" \/ c \in cut
        BY <1>0, <1>2, <4>1 DEF ServerApplyEdit, RoleOf
      <4>. QED BY <1>0, <4>2 DEF RoleOf, Allowed
    <3>3. OwnedBy(Loop)'
      BY <1>0, <2>1, <2>2, <3>1, <3>2 DEF OwnedBy, Allowed, EditTypes
    <3>4. \A b \in Actor \ {Loop} : pc'[b] = pc[b] /\ todo'[b] = todo[b]
      BY <3>1 DEF EditTypes
    <3>. QED BY <1>0, <3>1, <3>3, <3>4, OthersOwned
  <2>. QED BY <2>3, <2>4
<1>3. CASE Executed(c)
  <2>1. pc[c] = "running" /\ caught' = caught /\ sent' = sent /\ cut' = cut /\ dry' = dry
    BY <1>3 DEF Executed, callVars
  <2>2. CASE kind[c] = "refactor" /\ ~dry[c] /\ caught[c] # <<>>
    <3>1. /\ todo' = [todo EXCEPT ![c] = caught[c]] /\ pc' = [pc EXCEPT ![c] = "apply"]
      BY <1>3, <2>2 DEF Executed, Go
    <3>2. todo'[c] = caught[c] /\ \A b \in Actor \ {c} : pc'[b] = pc[b] /\ todo'[b] = todo[b]
      BY <1>0, <3>1 DEF EditTypes
    <3>3. OwnedBy(c)'
      BY <2>1, <2>2, <3>2 DEF OwnedBy, Owned, Allowed
    <3>. QED BY <1>0, <2>1, <3>2, <3>3, OthersOwned
  <2>3. CASE ~(kind[c] = "refactor" /\ ~dry[c] /\ caught[c] # <<>>)
    <3>1. todo' = todo /\ \A b \in Actor \ {c} : pc'[b] = pc[b]
      BY <1>3, <2>3 DEF Executed, Finish, EditTypes
    <3>. QED BY <1>0, <2>1, <3>1, FewerOwned DEF Verifying
  <2>. QED BY <2>2, <2>3
<1>4. CASE RequestEnds(c)
  <2>1. /\ todo' = todo /\ caught' = caught /\ pc[c] \notin Verifying
        /\ \A b \in Actor \ {c} : pc'[b] = pc[b]
    BY <1>4 DEF RequestEnds, Finish, Verifying, EditTypes
  <2>. QED BY <1>0, <2>1, FewerOwned
<1>. QED BY <1>1, <1>2, <1>3, <1>4

LEMMA ApplyOwned ==
  ASSUME EditTypes, Work, Roles, Owned, [Next]_vars, NEW a \in Actor,
         \/ CreateFile(a) \/ RenameFile(a) \/ DeleteFile(a) \/ ReadAndSplice(a)
         \/ WriteFile(a) \/ SendDidChange(a) \/ Applied(a)
  PROVE  Owned'
<1>1. /\ caught' = caught /\ pc[a] \notin Verifying
      /\ \A b \in Actor \ {a} : pc'[b] = pc[b] /\ todo'[b] = todo[b]
  BY LoopRoles DEF Verifying
<1>2. CASE todo' = todo
  BY <1>1, <1>2, FewerOwned
<1>3. CASE todo' = [todo EXCEPT ![a] = <<>>]
  <2>1. Elements(todo'[a]) = {}
    BY <1>3, Nothing DEF EditTypes
  <2>. QED BY <1>1, <2>1, FewerOwned
<1>4. CASE todo[a] # <<>> /\ todo' = [todo EXCEPT ![a] = Tail(todo[a])]
  <2>1. Elements(todo'[a]) \subseteq Elements(todo[a])
    BY <1>1, <1>4, HeadOp DEF EditTypes
  <2>. QED BY <1>1, <2>1, FewerOwned
<1>5. CASE pc'[a] \in Verifying
  BY <1>1, <1>5, FewerOwned
<1>6. CASE Applied(a)
  BY <1>2, <1>5, <1>6 DEF Applied, Go, EditTypes, Verifying
<1>7. CASE CreateFile(a) \/ RenameFile(a) \/ DeleteFile(a)
  BY <1>3, <1>4, <1>7 DEF CreateFile, RenameFile, DeleteFile, Working, NextOp, Fail
<1>8. CASE ReadAndSplice(a) \/ WriteFile(a)
  BY <1>2, <1>3, <1>8 DEF ReadAndSplice, WriteFile, Fail
<1>9. CASE SendDidChange(a)
  <2>1. todo[a] # <<>>
    BY <1>9 DEF SendDidChange, Go, Work, WorkOf
  <2>. QED BY <1>4, <1>9, <2>1 DEF SendDidChange, NextOp
<1>. QED BY <1>6, <1>7, <1>8, <1>9

LEMMA VerifyOwned ==
  ASSUME EditTypes, Work, Roles, Owned, [Next]_vars, NEW c \in Call,
         CloseForReopen(c) \/ RereadFile(c) \/ ReopenDocument(c) \/ Verified(c)
  PROVE  Owned'
<1>1. c \in Actor /\ caught' = caught
  BY DEF Actor, CloseForReopen, RereadFile, ReopenDocument, Verified, captureVars
<1>2. \A b \in Actor \ {c} : pc'[b] = pc[b] /\ todo'[b] = todo[b]
  BY DEF CloseForReopen, RereadFile, ReopenDocument, Verified, NextOp, Finish, Go, EditTypes
<1>3. CASE pc'[c] \in Verifying
  BY <1>1, <1>2, <1>3, FewerOwned
<1>4. CASE Verified(c)
  <2>1. Elements(todo'[c]) = {}
    BY <1>4, Nothing DEF Verified
  <2>2. OwnedBy(c)'
    BY <2>1 DEF OwnedBy
  <2>. QED BY <1>1, <1>2, <2>2, OthersOwned
<1>. QED BY <1>1, <1>3, <1>4 DEF CloseForReopen, RereadFile, ReopenDocument, Go, EditTypes, Verifying

LEMMA OwnedStep ==
  ASSUME EditTypes, Work, Roles, Owned, [Next]_vars
  PROVE  Owned'
<1>1. CASE UNCHANGED <<pc, todo, caught>>
  <2>1. Loop \in Actor
    BY DEF Actor
  <2>2. pc[Loop] \notin Verifying
    BY DEF Work, Verifying
  <2>. QED BY <1>1, <2>1, <2>2, FewerOwned
<1>2. CASE \E f \in File : UserWrites(f)
  BY <1>1, <1>2 DEF UserWrites, captureVars
<1>3. CASE UNCHANGED vars
  BY <1>1, <1>3 DEF vars, captureVars
<1>. QED BY <1>2, <1>3, BeginOwned, PlanningOwned, CommandOwned, ApplyOwned, VerifyOwned DEF Next

LEMMA DryStep ==
  ASSUME EditTypes, Work, Roles, Owned, DryRunWritesNothing, [Next]_vars
  PROVE  DryRunWritesNothing'
<1>1. CASE \E c \in Call : Begin(c)
  BY <1>1 DEF Begin, captureVars, EditTypes, Roles, RoleOf, DryRunWritesNothing
<1>2. CASE \E a \in Actor : WriteFile(a)
  <2>1. PICK a \in Actor : WriteFile(a)
    BY <1>2
  <2>2. Allowed(Head(todo[a]).by)
    BY <2>1, OwnersBegan DEF WriteFile, Work, WorkOf, Verifying
  <2>. QED BY <2>1, <2>2 DEF WriteFile, callVars, captureVars, EditTypes, Allowed, DryRunWritesNothing
<1>3. CASE landed' = landed /\ dry' = dry
  BY <1>3, AllowedStays DEF DryRunWritesNothing
<1>4. CASE \E c \in Call : \/ ReadFile(c) \/ OpenDocument(c) \/ RenameSymbol(c) \/ HandleApplyEdit(c)
                           \/ ReadForPreview(c) \/ SimulateEdit(c) \/ ApplyTextMatch(c)
  BY <1>3, <1>4 DEF ReadFile, OpenDocument, RenameSymbol, HandleApplyEdit, ReadForPreview, SimulateEdit,
     ApplyTextMatch, callVars, historyVars
<1>5. CASE \E c \in Call : \/ StartCapture(c) \/ Executed(c) \/ CloseForReopen(c) \/ ServerApplyEdit(c)
                           \/ RequestEnds(c) \/ RereadFile(c) \/ ReopenDocument(c) \/ Verified(c)
  BY <1>3, <1>5 DEF StartCapture, Executed, CloseForReopen, RereadFile, ReopenDocument, Verified,
     ServerApplyEdit, RequestEnds, callVars, historyVars
<1>6. CASE \E a \in Actor : \/ CreateFile(a) \/ RenameFile(a) \/ DeleteFile(a)
                            \/ ReadAndSplice(a) \/ SendDidChange(a) \/ Applied(a)
  BY <1>3, <1>6 DEF CreateFile, RenameFile, DeleteFile, ReadAndSplice, SendDidChange, Applied, callVars,
     historyVars
<1>7. CASE (\E f \in File : UserWrites(f)) \/ UNCHANGED vars
  BY <1>3, <1>7 DEF UserWrites, vars, callVars, historyVars
<1>. QED BY <1>1, <1>2, <1>4, <1>5, <1>6, <1>7 DEF Next

-----------------------------------------------------------------------------
(* What is astray in a text *)

\* a call that has begun stays the call it is, and what was written stays written
LEMMA BegunStays ==
  ASSUME EditTypes, Work, Roles, Owned, [Next]_vars
  PROVE  /\ \A d \in Call : pc[d] # "idle" => pc'[d] # "idle" /\ kind'[d] = kind[d] /\ plan'[d] = plan[d]
         /\ \A d \in Call : landed[d] \subseteq landed'[d]
<1>0. \A d \in Call : d \in Actor /\ d # Loop
  BY ActorAssumption DEF Actor
<1>1. CASE \E c \in Call : Begin(c)
  BY <1>0, <1>1 DEF Begin, EditTypes
<1>2. CASE \E c \in Call : \/ ReadFile(c) \/ OpenDocument(c) \/ RenameSymbol(c) \/ HandleApplyEdit(c)
  BY <1>0, <1>2 DEF ReadFile, OpenDocument, RenameSymbol, HandleApplyEdit, Go, Finish, callVars, historyVars,
     EditTypes
<1>3. CASE \E c \in Call : ReadForPreview(c) \/ SimulateEdit(c) \/ ApplyTextMatch(c)
  BY <1>0, <1>3 DEF ReadForPreview, SimulateEdit, ApplyTextMatch, Go, Finish, callVars, historyVars, EditTypes
<1>4. CASE \E c \in Call : \/ StartCapture(c) \/ Executed(c) \/ ServerApplyEdit(c) \/ RequestEnds(c)
  BY <1>0, <1>4 DEF StartCapture, Executed, ServerApplyEdit, RequestEnds, Go, Finish, callVars, historyVars,
     EditTypes
<1>5. CASE \E c \in Call : \/ CloseForReopen(c) \/ RereadFile(c) \/ ReopenDocument(c) \/ Verified(c)
  BY <1>0, <1>5 DEF CloseForReopen, RereadFile, ReopenDocument, Verified, Go, Finish, callVars, historyVars,
     EditTypes
<1>6. CASE \E a \in Actor : \/ CreateFile(a) \/ RenameFile(a) \/ DeleteFile(a) \/ ReadAndSplice(a)
                            \/ WriteFile(a) \/ SendDidChange(a) \/ Applied(a)
  <2>1. PICK a \in Actor : \/ CreateFile(a) \/ RenameFile(a) \/ DeleteFile(a) \/ ReadAndSplice(a)
                           \/ WriteFile(a) \/ SendDidChange(a) \/ Applied(a)
    BY <1>6
  <2>2. /\ kind' = kind /\ plan' = plan /\ \A d \in Call : d # a => pc'[d] = pc[d]
    BY <1>0, <2>1, LoopRoles
  <2>3. \A d \in Call : landed[d] \subseteq landed'[d]
    <3>1. CASE landed' = landed
      BY <3>1
    <3>2. CASE WriteFile(a)
      <4>1. ASSUME landed' = [landed EXCEPT ![Head(todo[a]).by] = @ \cup {Head(todo[a]).file}], NEW d \in Call
            PROVE  landed[d] \subseteq landed'[d]
        BY <4>1 DEF EditTypes
      <4>. QED BY <3>1, <3>2, <4>1 DEF WriteFile
    <3>. QED BY <2>1, <3>1, <3>2 DEF CreateFile, RenameFile, DeleteFile, ReadAndSplice, SendDidChange, Applied,
       historyVars
  <2>4. Roles'
    BY <2>1, ApplyRoles
  <2>5. ASSUME NEW d \in Call, d = a PROVE pc'[d] # "idle"
    <3>1. a # Loop
      BY <1>0, <2>5
    <3>2. CASE Fail(a)
      BY <2>5, <3>1, <3>2 DEF Fail, Finish, EditTypes
    <3>3. CASE ~Fail(a)
      BY <2>1, <2>5, <3>1, <3>3 DEF CreateFile, RenameFile, DeleteFile, ReadAndSplice, WriteFile, SendDidChange,
         Applied, Working, Go, Finish, EditTypes
    <3>. QED BY <3>2, <3>3
  <2>. QED BY <2>2, <2>3, <2>5
<1>7. CASE (\E f \in File : UserWrites(f)) \/ UNCHANGED vars
  BY <1>7 DEF UserWrites, vars, callVars, historyVars
<1>. QED BY <1>1, <1>2, <1>3, <1>4, <1>5, <1>6, <1>7 DEF Next

\* every text is one that was clean
LEMMA StaysStraight ==
  ASSUME EditTypes, Work, Roles, Owned, [Next]_vars, EditTypes',
         \A f \in File : disk'[f] # Gone =>
            \A d \in disk'[f].astray : d \in Call => pc[d] # "idle" /\ ~Checked(d),
         \A a \in Actor : hold'[a] # Gone =>
            \A d \in hold'[a].astray : d \in Call => pc[d] # "idle" /\ ~Checked(d)
  PROVE  Straight'
<1>1. \A d \in Call : pc[d] # "idle" /\ ~Checked(d) => pc'[d] # "idle" /\ ~Checked(d)'
  BY BegunStays DEF Checked
<1>2. /\ \A f \in File : disk'[f] # Gone => disk'[f].astray \subseteq Call
      /\ \A a \in Actor : hold'[a] # Gone => hold'[a].astray \subseteq Call
  BY DEF EditTypes, Text
<1>. QED BY <1>1, <1>2 DEF Straight, Clean

\* an edit that goes astray is not a matched one
LEMMA SplicedClean ==
  ASSUME EditTypes, Work, Roles, Owned, Straight, NEW a \in Actor, ReadAndSplice(a),
         disk[Head(todo[a]).file] # Gone, a = Loop \/ ~Checked(Head(todo[a]).by)
                                          \/ disk[Head(todo[a]).file] = Head(todo[a]).on
  PROVE  Clean(Splice(disk[Head(todo[a]).file], Head(todo[a])))
<1>1. todo[a] # <<>> /\ pc[a] = "apply"
  BY DEF ReadAndSplice, Working
<1>2. /\ pc[Head(todo[a]).by] # "idle"
      /\ a = Loop => Head(todo[a]).by \in sent
  BY <1>1, OwnersBegan DEF Verifying
<1>3. Head(todo[a]).file \in File /\ Head(todo[a]).by \in Call
  BY <1>1, HeadOp DEF Verifying
<1>4. a = Loop => ~Checked(Head(todo[a]).by)
  BY <1>2, <1>3 DEF Roles, RoleOf, Checked
<1>5. Clean(disk[Head(todo[a]).file])
  BY <1>3 DEF Straight
<1>. QED BY <1>1, <1>2, <1>3, <1>4, <1>5 DEF Splice, Clean

LEMMA StraightStep ==
  ASSUME EditTypes, Work, Roles, Owned, Straight, [Next]_vars, EditTypes'
  PROVE  Straight'
<1>0. /\ \A f \in File : disk[f] # Gone => \A d \in disk[f].astray : d \in Call => pc[d] # "idle" /\ ~Checked(d)
      /\ \A a \in Actor : hold[a] # Gone => \A d \in hold[a].astray : d \in Call => pc[d] # "idle" /\ ~Checked(d)
      /\ \A d \in Call : d \in Actor
  BY DEF Straight, Clean, Actor
<1>1. CASE disk' = disk /\ hold' = hold
  BY <1>0, <1>1, StaysStraight
<1>2. CASE disk' = disk /\ \E a \in Actor : hold' = [hold EXCEPT ![a] = Gone]
  <2>1. \A a \in Actor : hold'[a] = hold[a] \/ hold'[a] = Gone
    BY <1>2 DEF EditTypes
  <2>. QED BY <1>0, <1>2, <2>1, StaysStraight
<1>3. CASE disk' = disk /\ \E a \in Actor, f \in File : hold' = [hold EXCEPT ![a] = disk[f]]
  <2>1. PICK x \in Actor, f \in File : hold' = [hold EXCEPT ![x] = disk[f]]
    BY <1>3
  <2>2. \A a \in Actor : hold'[a] = hold[a] \/ hold'[a] = disk[f]
    BY <2>1 DEF EditTypes
  <2>. QED BY <1>0, <1>3, <2>2, StaysStraight
<1>4. CASE \E c \in Call : Begin(c) \/ RenameSymbol(c) \/ HandleApplyEdit(c)
  BY <1>1, <1>4 DEF Begin, RenameSymbol, HandleApplyEdit, docVars
<1>5. CASE \E c \in Call : ReadFile(c) \/ OpenDocument(c) \/ ReadForPreview(c) \/ ApplyTextMatch(c)
  <2>1. PICK c \in Call : ReadFile(c) \/ OpenDocument(c) \/ ReadForPreview(c) \/ ApplyTextMatch(c)
    BY <1>5
  <2>2. Requested(c) \in File
    BY <2>1, RequestedFile DEF ReadFile, OpenDocument, ReadForPreview, ApplyTextMatch, Go
  <2>. QED BY <1>0, <1>1, <1>2, <1>3, <2>1, <2>2 DEF ReadFile, OpenDocument, ReadForPreview, ApplyTextMatch,
     docVars, Hold
<1>6. CASE \E c \in Call : SimulateEdit(c)
  BY <1>0, <1>1, <1>2, <1>6 DEF SimulateEdit, Hold, docVars
<1>7. CASE \E c \in Call : \/ StartCapture(c) \/ Executed(c) \/ ServerApplyEdit(c) \/ RequestEnds(c)
                           \/ CloseForReopen(c) \/ Verified(c)
  BY <1>1, <1>7 DEF StartCapture, Executed, ServerApplyEdit, RequestEnds, CloseForReopen, Verified, docVars
<1>8. CASE \E c \in Call : RereadFile(c) \/ ReopenDocument(c)
  <2>1. PICK c \in Call : RereadFile(c) \/ ReopenDocument(c)
    BY <1>8
  <2>2. Head(todo[c]) \in File
    BY <2>1, HeadFile, <1>0 DEF RereadFile, ReopenDocument, Go, Work, WorkOf, Verifying
  <2>. QED BY <1>0, <1>2, <1>3, <2>1, <2>2 DEF RereadFile, ReopenDocument, Hold, docVars
<1>9. CASE \E a \in Actor : CreateFile(a) \/ RenameFile(a) \/ DeleteFile(a)
  <2>1. PICK a \in Actor : CreateFile(a) \/ RenameFile(a) \/ DeleteFile(a)
    BY <1>9
  <2>2. Head(todo[a]).file \in File /\ Head(todo[a]).to \in File
    BY <2>1, HeadOp DEF CreateFile, RenameFile, DeleteFile, Working, Verifying
  <2>3. hold' = hold
    BY <2>1 DEF CreateFile, RenameFile, DeleteFile
  <2>4. \A f \in File : disk'[f] = Gone \/ disk'[f] = Pristine \/ \E g \in File : disk'[f] = disk[g]
    BY <2>1, <2>2 DEF CreateFile, RenameFile, DeleteFile, EditTypes
  <2>5. Pristine.astray = {}
    BY DEF Pristine
  <2>. QED BY <1>0, <2>3, <2>4, <2>5, StaysStraight
<1>10. CASE \E a \in Actor : ReadAndSplice(a)
  <2>1. PICK a \in Actor : ReadAndSplice(a)
    BY <1>10
  <2>2. CASE UNCHANGED hold
    BY <1>1, <2>1, <2>2 DEF ReadAndSplice, docVars
  <2>3. CASE hold' # hold
    <3>1. /\ Clean(Splice(disk[Head(todo[a]).file], Head(todo[a])))
          /\ hold' = [hold EXCEPT ![a] = Splice(disk[Head(todo[a]).file], Head(todo[a]))] /\ disk' = disk
      BY <2>1, <2>3, SplicedClean DEF ReadAndSplice, Hold, docVars
    <3>2. \A x \in Actor : hold'[x] = hold[x] \/ hold'[x] = Splice(disk[Head(todo[a]).file], Head(todo[a]))
      BY <3>1 DEF EditTypes
    <3>. QED BY <1>0, <3>1, <3>2, StaysStraight DEF Clean
  <2>. QED BY <2>2, <2>3
<1>11. CASE \E a \in Actor : WriteFile(a)
  <2>1. PICK a \in Actor : WriteFile(a)
    BY <1>11
  <2>2. CASE disk' = disk /\ Hold(a, Gone)
    BY <1>2, <2>2 DEF Hold
  <2>3. CASE disk' = [disk EXCEPT ![Head(todo[a]).file] = hold[a]] /\ hold' = hold
    <3>1. \A f \in File : disk'[f] = disk[f] \/ disk'[f] = hold[a]
      BY <2>3 DEF EditTypes
    <3>. QED BY <1>0, <2>3, <3>1, StaysStraight
  <2>. QED BY <2>1, <2>2, <2>3 DEF WriteFile
<1>12. CASE \E a \in Actor : SendDidChange(a) \/ Applied(a)
  BY <1>1, <1>2, <1>12 DEF SendDidChange, Applied, Hold, docVars
<1>13. CASE \E f \in File : UserWrites(f)
  <2>1. PICK f \in File : UserWrites(f)
    BY <1>13
  <2>2. hold' = hold /\ disk[f] # Gone /\ disk'[f].astray = disk[f].astray /\ \A g \in File : g # f => disk'[g] = disk[g]
    BY <2>1, UserText DEF UserWrites
  <2>. QED BY <1>0, <2>2, StaysStraight
<1>14. CASE UNCHANGED vars
  BY <1>1, <1>14 DEF vars, docVars
<1>. QED BY <1>4, <1>5, <1>6, <1>7, <1>8, <1>9, <1>10, <1>11, <1>12, <1>13, <1>14 DEF Next

-----------------------------------------------------------------------------
(* What of an edit is written, and what is still to do *)

\* what is wanted of a call that has begun does not change, but while it captures
LEMMA WantedStays ==
  ASSUME EditTypes, Work, Roles, Owned, [Next]_vars
  PROVE  /\ \A d \in Call : pc[d] \notin {"idle", "running"} => Wanted(d)' = Wanted(d)
         /\ Written \subseteq Written'
<1>1. /\ \A d \in Call : pc[d] # "idle" => kind'[d] = kind[d] /\ plan'[d] = plan[d]
      /\ \A d \in Call : landed[d] \subseteq landed'[d]
  BY BegunStays
<1>2. ASSUME NEW d \in Call, pc[d] # "running" PROVE caught'[d] = caught[d]
  <2>1. CASE \E c \in Call : ServerApplyEdit(c)
    BY <1>2, <2>1, ActorAssumption DEF ServerApplyEdit, EditTypes, Roles, RoleOf
  <2>2. CASE \E c \in Call : \/ Begin(c) \/ ReadFile(c) \/ OpenDocument(c) \/ RenameSymbol(c)
                             \/ HandleApplyEdit(c) \/ ReadForPreview(c) \/ SimulateEdit(c) \/ ApplyTextMatch(c)
    BY <2>2 DEF Begin, ReadFile, OpenDocument, RenameSymbol, HandleApplyEdit, ReadForPreview, SimulateEdit,
       ApplyTextMatch, captureVars
  <2>3. CASE \E c \in Call : \/ StartCapture(c) \/ Executed(c) \/ RequestEnds(c) \/ CloseForReopen(c)
                             \/ RereadFile(c) \/ ReopenDocument(c) \/ Verified(c)
    BY <2>3 DEF StartCapture, Executed, RequestEnds, CloseForReopen, RereadFile, ReopenDocument, Verified,
       captureVars
  <2>4. CASE \E a \in Actor : \/ CreateFile(a) \/ RenameFile(a) \/ DeleteFile(a) \/ ReadAndSplice(a)
                              \/ WriteFile(a) \/ SendDidChange(a) \/ Applied(a)
    BY <2>4, LoopRoles
  <2>5. CASE (\E f \in File : UserWrites(f)) \/ UNCHANGED vars
    BY <2>5 DEF UserWrites, vars, captureVars
  <2>. QED BY <2>1, <2>2, <2>3, <2>4, <2>5 DEF Next
<1>3. ASSUME NEW d \in Call, pc[d] \notin {"idle", "running"} PROVE Wanted(d)' = Wanted(d)
  <2>1. kind'[d] = kind[d] /\ plan'[d] = plan[d] /\ caught'[d] = caught[d]
    BY <1>1, <1>2, <1>3
  <2>. QED BY <2>1 DEF Wanted, Edited
<1>4. Written \subseteq Written'
  BY <1>1 DEF Written
<1>. QED BY <1>3, <1>4

\* what is left to the other calls is not touched
LEMMA OthersLeft ==
  ASSUME EditTypes, Work, Roles, Owned, WorkLeft, [Next]_vars, NEW a \in Actor, a \in Call => LeftOf(a)',
         \A b \in Actor \ {a} : pc'[b] = pc[b] /\ todo'[b] = todo[b] /\ res'[b] = res[b]
  PROVE  WorkLeft'
<1> SUFFICES ASSUME NEW d \in Call, d # a PROVE LeftOf(d)'
  BY DEF WorkLeft
<1>1. pc'[d] = pc[d] /\ todo'[d] = todo[d] /\ res'[d] = res[d]
  BY DEF Actor
<1>2. CASE pc[d] \in {"idle", "running"}
  BY <1>1, <1>2 DEF WorkLeft, LeftOf, Roles, RoleOf, Verifying
<1>3. CASE pc[d] \notin {"idle", "running"}
  <2>1. Wanted(d)' = Wanted(d) /\ Written \subseteq Written' /\ kind'[d] = kind[d]
    BY <1>3, WantedStays, BegunStays
  <2>. QED BY <1>1, <2>1 DEF WorkLeft, LeftOf
<1>. QED BY <1>2, <1>3

\* a call ends without success
LEMMA FailedLeft ==
  ASSUME EditTypes, Work, Roles, Owned, WorkLeft, [Next]_vars, NEW c \in Call, NEW r \in Results, r # "ok",
         Finish(c, r), \A b \in Actor \ {c} : todo'[b] = todo[b]
  PROVE  WorkLeft'
<1>1. c \in Actor /\ pc'[c] = "done" /\ res'[c] = r
  BY DEF Actor, Finish, EditTypes
<1>2. \A b \in Actor \ {c} : pc'[b] = pc[b] /\ res'[b] = res[b]
  BY DEF Finish, EditTypes
<1>3. LeftOf(c)'
  BY <1>1 DEF LeftOf, Verifying
<1>. QED BY <1>1, <1>2, <1>3, OthersLeft

\* a call goes on with its plan
LEMMA PlannedLeft ==
  ASSUME EditTypes, Work, Roles, Owned, WorkLeft, [Next]_vars, NEW c \in Call,
         pc[c] \in {"plan", "match"}, kind[c] # "refactor", pc' = [pc EXCEPT ![c] = "apply"], res' = res,
         NEW text, \A f \in File : text[f] \in Text \cup {Gone},
         todo' = [todo EXCEPT ![c] = Planned(c, text)]
  PROVE  WorkLeft'
<1>1. c \in Actor /\ pc'[c] = "apply" /\ todo'[c] = Planned(c, text)
  BY DEF Actor, EditTypes
<1>2. \A b \in Actor \ {c} : pc'[b] = pc[b] /\ todo'[b] = todo[b] /\ res'[b] = res[b]
  BY DEF EditTypes
<1>3. Wanted(c) \subseteq EditsOf(Elements(Planned(c, text)))
  <2>1. \A i \in DOMAIN plan[c] : plan[c][i].op = "edit" =>
          <<c, plan[c][i].file>> \in EditsOf(Elements(Planned(c, text)))
    BY PlannedSeq
  <2>. QED BY <2>1 DEF Wanted, Edited
<1>4. Wanted(c)' = Wanted(c) /\ res[c] # "ok"
  BY WantedStays DEF WorkLeft, LeftOf
<1>5. LeftOf(c)'
  BY <1>1, <1>3, <1>4 DEF LeftOf, Verifying
<1>. QED BY <1>1, <1>2, <1>5, OthersLeft

\* a call takes a step before its plan
LEMMA EarlyLeft ==
  ASSUME EditTypes, Work, Roles, Owned, WorkLeft, [Next]_vars, NEW c \in Call, NEW to,
         to \in {"open", "plan", "lock", "preview", "match", "running"}, pc' = [pc EXCEPT ![c] = to],
         to = "plan" => kind[c] # "raw", pc[c] # "idle", res' = res, todo' = todo, pc[c] # "done"
  PROVE  WorkLeft'
<1>1. c \in Actor /\ pc'[c] = to /\ kind'[c] = kind[c] /\ \A b \in Actor \ {c} : pc'[b] = pc[b]
  BY BegunStays DEF Actor, EditTypes
<1>2. LeftOf(c)'
  BY <1>1 DEF WorkLeft, LeftOf, Verifying
<1>. QED BY <1>1, <1>2, OthersLeft

LEMMA BeginLeft ==
  ASSUME EditTypes, Work, Roles, Owned, WorkLeft, [Next]_vars, NEW c \in Call, Begin(c)
  PROVE  WorkLeft'
<1>0. c \in Actor
  BY DEF Actor
<1>1. PICK k \in Kinds, p \in Plans :
        /\ kind' = [kind EXCEPT ![c] = k] /\ plan' = [plan EXCEPT ![c] = p]
        /\ pc' = [pc EXCEPT ![c] = StartPC(k)]
        /\ todo' = [todo EXCEPT ![c] =
                      IF k # "raw" THEN <<>>
                      ELSE [i \in DOMAIN p |-> Op(p[i], c, disk[p[i].file])]]
  BY DEF Begin, Kinds
<1>2. p \in Seq(PlanOp) /\ \A f \in File : disk[f] \in Text \cup {Gone}
  BY PlanAssumption DEF EditTypes
<1>3. ASSUME k = "raw" PROVE Wanted(c)' \subseteq EditsOf(Elements(todo'[c]))
  <2>1. todo'[c] = [i \in DOMAIN p |-> Op(p[i], c, disk[p[i].file])]
    BY <1>0, <1>1, <1>3 DEF EditTypes
  <2>2. \A i \in DOMAIN p : p[i].op = "edit" => <<c, p[i].file>> \in EditsOf(Elements(todo'[c]))
    BY <1>2, <2>1, PlannedOps
  <2>3. kind'[c] = "raw" /\ plan'[c] = p
    BY <1>1, <1>3 DEF EditTypes
  <2>. QED BY <2>2, <2>3 DEF Wanted, Edited
<1>4. /\ res' = res /\ res[c] = None /\ pc'[c] \in {"read", "running", "plan"}
      /\ kind'[c] = k /\ \A b \in Actor \ {c} : pc'[b] = pc[b] /\ todo'[b] = todo[b]
  BY <1>0, <1>1 DEF Begin, StartPC, EditTypes, Roles, RoleOf
<1>5. res'[c] # "ok"
  BY <1>4 DEF WorkLeft, LeftOf, Begin
<1>6. LeftOf(c)'
  BY <1>3, <1>4, <1>5 DEF LeftOf, Verifying
<1>. QED BY <1>0, <1>4, <1>6, OthersLeft

LEMMA PlanningLeft ==
  ASSUME EditTypes, Work, Roles, Owned, WorkLeft, [Next]_vars, NEW c \in Call,
         \/ ReadFile(c) \/ OpenDocument(c) \/ RenameSymbol(c) \/ HandleApplyEdit(c)
         \/ ReadForPreview(c) \/ SimulateEdit(c) \/ ApplyTextMatch(c)
  PROVE  WorkLeft'
<1>0. RoleOf(c) /\ (\A f \in File : disk[f] \in Text \cup {Gone}) /\ (\A f \in File : OnView[f] \in Text \cup {Gone})
  BY Views DEF Roles, EditTypes
<1>1. CASE \E r \in {"error", "preview", "blocked"} : Finish(c, r) /\ todo' = todo
  BY <1>1, FailedLeft DEF Results
<1>2. CASE ReadFile(c) /\ Go(c, "read", "open") /\ res' = res
  BY <1>2, EarlyLeft DEF ReadFile, Go
<1>3. CASE OpenDocument(c)
  <2>1. pc[c] = "open" /\ res' = res /\ todo' = todo /\ kind[c] # "raw"
        /\ (pc' = [pc EXCEPT ![c] = "lock"] \/ pc' = [pc EXCEPT ![c] = "plan"])
    BY <1>0, <1>3 DEF OpenDocument, Go, RoleOf
  <2>2. CASE pc' = [pc EXCEPT ![c] = "lock"]
    BY <2>1, <2>2, EarlyLeft
  <2>3. CASE pc' = [pc EXCEPT ![c] = "plan"]
    BY <2>1, <2>3, EarlyLeft
  <2>. QED BY <2>1, <2>2, <2>3
<1>4. CASE RenameSymbol(c) /\ ~dry[c]
  <2>1. /\ pc[c] = "plan" /\ kind[c] # "refactor" /\ pc' = [pc EXCEPT ![c] = "apply"] /\ res' = res
        /\ todo' = [todo EXCEPT ![c] = Planned(c, OnView)]
    BY <1>4 DEF RenameSymbol, Go
  <2>. QED BY <1>0, <2>1, PlannedLeft
<1>5. CASE HandleApplyEdit(c)
  <2>1. pc[c] = "plan" /\ kind[c] = "raw" /\ pc' = [pc EXCEPT ![c] = "apply"] /\ res' = res /\ todo' = todo
    BY <1>5 DEF HandleApplyEdit, Go
  <2>2. Wanted(c)' = Wanted(c) /\ Written \subseteq Written' /\ res[c] # "ok"
        /\ Wanted(c) \subseteq EditsOf(Elements(todo[c]))
    BY <2>1, WantedStays DEF WorkLeft, LeftOf
  <2>3. c \in Actor /\ pc'[c] = "apply" /\ \A b \in Actor \ {c} : pc'[b] = pc[b]
    BY <2>1 DEF Actor, EditTypes
  <2>4. LeftOf(c)'
    BY <2>1, <2>2, <2>3 DEF LeftOf, Verifying
  <2>. QED BY <2>1, <2>3, <2>4, OthersLeft
<1>6. CASE ReadForPreview(c) /\ Go(c, "plan", "preview") /\ res' = res
  BY <1>6, EarlyLeft DEF ReadForPreview, Go
<1>7. CASE SimulateEdit(c) /\ Go(c, "preview", "match") /\ res' = res
  BY <1>7, EarlyLeft DEF SimulateEdit, Go
<1>8. CASE ApplyTextMatch(c) /\ Go(c, pc[c], "apply") /\ res' = res /\ todo' = [todo EXCEPT ![c] = Planned(c, disk)]
  <2>1. /\ pc[c] \in {"plan", "match"} /\ kind[c] # "refactor" /\ pc' = [pc EXCEPT ![c] = "apply"] /\ res' = res
        /\ todo' = [todo EXCEPT ![c] = Planned(c, disk)]
    BY <1>0, <1>8 DEF ApplyTextMatch, Go, RoleOf
  <2>. QED BY <1>0, <2>1, PlannedLeft
<1>. QED BY <1>1, <1>2, <1>3, <1>4, <1>5, <1>6, <1>7, <1>8 DEF ReadFile, RenameSymbol, ReadForPreview,
  SimulateEdit, ApplyTextMatch

LEMMA CommandLeft ==
  ASSUME EditTypes, Work, Roles, Owned, WorkLeft, [Next]_vars, NEW c \in Call,
         StartCapture(c) \/ ServerApplyEdit(c) \/ Executed(c) \/ RequestEnds(c)
  PROVE  WorkLeft'
<1>0. c \in Actor /\ c # Loop /\ Loop \in Actor
  BY ActorAssumption DEF Actor
<1>1. CASE StartCapture(c)
  BY <1>1, EarlyLeft DEF StartCapture, Go
<1>2. CASE ServerApplyEdit(c)
  <2>1. \A b \in Actor \ {Loop} : pc'[b] = pc[b] /\ todo'[b] = todo[b] /\ res'[b] = res[b]
    BY <1>2 DEF ServerApplyEdit, EditTypes
  <2>. QED BY <1>0, <2>1, ActorAssumption, OthersLeft
<1>3. CASE Executed(c) /\ \E r \in {"executed", "preview"} : Finish(c, r) /\ todo' = todo
  BY <1>3, FailedLeft DEF Results
<1>4. CASE Executed(c) /\ kind[c] = "refactor" /\ ~dry[c] /\ caught[c] # <<>>
  <2>1. /\ pc[c] = "running" /\ pc' = [pc EXCEPT ![c] = "apply"] /\ todo' = [todo EXCEPT ![c] = caught[c]]
        /\ res' = res /\ kind' = kind /\ caught' = caught
    BY <1>4 DEF Executed, Go, callVars
  <2>2. pc'[c] = "apply" /\ todo'[c] = caught[c] /\ \A b \in Actor \ {c} : pc'[b] = pc[b] /\ todo'[b] = todo[b]
    BY <1>0, <2>1 DEF EditTypes
  <2>3. Wanted(c)' = EditsOf(Elements(todo'[c]))
    BY <1>4, <2>1, <2>2 DEF Wanted
  <2>4. LeftOf(c)'
    BY <2>1, <2>2, <2>3 DEF WorkLeft, LeftOf, Verifying
  <2>. QED BY <1>0, <2>1, <2>2, <2>4, OthersLeft
<1>5. CASE RequestEnds(c)
  BY <1>5, FailedLeft DEF RequestEnds, Results
<1>. QED BY <1>1, <1>2, <1>3, <1>4, <1>5 DEF Executed

LEMMA ApplyLeft ==
  ASSUME EditTypes, Work, Roles, Owned, WorkLeft, [Next]_vars, NEW a \in Actor,
         \/ CreateFile(a) \/ RenameFile(a) \/ DeleteFile(a) \/ ReadAndSplice(a)
         \/ WriteFile(a) \/ SendDidChange(a) \/ Applied(a)
  PROVE  WorkLeft'
<1>0. \A d \in Actor \ {a} : pc'[d] = pc[d] /\ todo'[d] = todo[d] /\ res'[d] = res[d]
  BY LoopRoles
<1>1. CASE a = Loop
  BY <1>0, <1>1, ActorAssumption, OthersLeft
<1>2. CASE a # Loop /\ Fail(a)
  <2>1. a \in Call /\ Finish(a, "error")
    BY <1>2 DEF Actor, Fail
  <2>. QED BY <1>0, <2>1, FailedLeft DEF Results
<1>3. CASE a # Loop /\ ~Fail(a)
  <2>0. a \in Call /\ pc[a] \in {"apply", "write", "send"}
    BY <1>3, LoopRoles DEF Actor
  <2>1. Wanted(a)' = Wanted(a) /\ Written \subseteq Written' /\ res[a] # "ok" /\ kind'[a] = kind[a]
    BY <2>0, WantedStays, BegunStays DEF WorkLeft, LeftOf
  <2>2. CASE CreateFile(a) \/ RenameFile(a) \/ DeleteFile(a)
    <3>1. todo[a] # <<>> /\ Head(todo[a]).op # "edit" /\ todo'[a] = Tail(todo[a]) /\ pc[a] = "apply"
          /\ pc'[a] = "apply" /\ res'[a] = res[a]
      BY <1>3, <2>2 DEF CreateFile, RenameFile, DeleteFile, Working, NextOp, EditTypes
    <3>2. EditsOf(Elements(todo[a])) = EditsOf(Elements(todo'[a]))
      BY <3>1, HeadOp DEF EditsOf, Verifying
    <3>3. LeftOf(a)'
      BY <2>0, <2>1, <3>1, <3>2 DEF WorkLeft, LeftOf, Verifying
    <3>. QED BY <1>0, <2>0, <3>3, OthersLeft
  <2>3. CASE ReadAndSplice(a)
    <3>1. pc[a] = "apply" /\ pc'[a] = "write" /\ todo'[a] = todo[a] /\ res'[a] = res[a]
      BY <1>3, <2>3 DEF ReadAndSplice, Go, EditTypes
    <3>2. LeftOf(a)'
      BY <2>0, <2>1, <3>1 DEF WorkLeft, LeftOf, Verifying
    <3>. QED BY <1>0, <2>0, <3>2, OthersLeft
  <2>4. CASE WriteFile(a)
    <3>1. /\ pc[a] = "write" /\ pc'[a] = "send" /\ todo'[a] = todo[a] /\ res'[a] = res[a]
          /\ landed' = [landed EXCEPT ![Head(todo[a]).by] = @ \cup {Head(todo[a]).file}]
      BY <1>3, <2>4 DEF WriteFile, Go, EditTypes
    <3>2. /\ Elements(todo[a]) = Elements(Tail(todo[a])) \cup {Head(todo[a])}
          /\ Head(todo[a]).by \in Call /\ Head(todo[a]).file \in File
      BY <3>1, HeadOp DEF Work, WorkOf, Verifying
    <3>3. <<Head(todo[a]).by, Head(todo[a]).file>> \in Written'
      BY <3>1, <3>2 DEF Written, EditTypes
    <3>4. EditsOf(Elements(todo[a])) \subseteq Written' \cup EditsOf(Elements(Tail(todo'[a])))
      BY <3>1, <3>2, <3>3 DEF EditsOf
    <3>5. LeftOf(a)'
      BY <2>0, <2>1, <3>1, <3>4 DEF WorkLeft, LeftOf, Verifying
    <3>. QED BY <1>0, <2>0, <3>5, OthersLeft
  <2>5. CASE SendDidChange(a)
    <3>1. pc[a] = "send" /\ pc'[a] = "apply" /\ todo'[a] = Tail(todo[a]) /\ res'[a] = res[a]
      BY <2>5 DEF SendDidChange, Go, NextOp, EditTypes
    <3>2. LeftOf(a)'
      BY <2>0, <2>1, <3>1 DEF WorkLeft, LeftOf, Verifying
    <3>. QED BY <1>0, <2>0, <3>2, OthersLeft
  <2>6. CASE Applied(a)
    <3>1. pc[a] = "apply" /\ todo[a] = <<>> /\ Elements(todo[a]) = {}
      BY <2>6, Nothing DEF Applied
    <3>2. Wanted(a)' \subseteq Written'
      BY <2>0, <2>1, <3>1 DEF WorkLeft, LeftOf, EditsOf
    <3>3. (pc'[a] = "reopen" /\ res'[a] = res[a]) \/ pc'[a] = "done"
      BY <1>3, <2>6 DEF Applied, Go, Finish, EditTypes
    <3>4. LeftOf(a)'
      BY <2>1, <3>2, <3>3 DEF LeftOf, Verifying
    <3>. QED BY <1>0, <2>0, <3>4, OthersLeft
  <2>. QED BY <2>2, <2>3, <2>4, <2>5, <2>6
<1>. QED BY <1>1, <1>2, <1>3

LEMMA VerifyLeft ==
  ASSUME EditTypes, Work, Roles, Owned, WorkLeft, [Next]_vars, NEW c \in Call,
         CloseForReopen(c) \/ RereadFile(c) \/ ReopenDocument(c) \/ Verified(c)
  PROVE  WorkLeft'
<1>1. c \in Actor /\ pc[c] \in Verifying
  BY DEF Actor, CloseForReopen, RereadFile, ReopenDocument, Verified, Go, Verifying
<1>2. \A b \in Actor \ {c} : pc'[b] = pc[b] /\ todo'[b] = todo[b] /\ res'[b] = res[b]
  BY DEF CloseForReopen, RereadFile, ReopenDocument, Verified, NextOp, Finish, Go, EditTypes
<1>3. (pc'[c] \in Verifying /\ res'[c] = res[c]) \/ pc'[c] = "done"
  BY <1>1 DEF CloseForReopen, RereadFile, ReopenDocument, Verified, Finish, Go, EditTypes, Verifying
<1>4. Wanted(c)' \subseteq Written' /\ res[c] # "ok"
  BY <1>1, WantedStays DEF WorkLeft, LeftOf, Verifying
<1>5. LeftOf(c)'
  BY <1>3, <1>4 DEF LeftOf, Verifying
<1>. QED BY <1>1, <1>2, <1>5, OthersLeft

LEMMA LeftStep ==
  ASSUME EditTypes, Work, Roles, Owned, WorkLeft, [Next]_vars
  PROVE  WorkLeft'
<1>1. CASE UNCHANGED <<pc, todo, res>>
  <2>1. Loop \in Actor /\ Loop \notin Call
    BY ActorAssumption DEF Actor
  <2>. QED BY <1>1, <2>1, OthersLeft
<1>2. CASE (\E f \in File : UserWrites(f)) \/ UNCHANGED vars
  BY <1>1, <1>2 DEF UserWrites, vars
<1>. QED BY <1>2, BeginLeft, PlanningLeft, CommandLeft, ApplyLeft, VerifyLeft DEF Next

-----------------------------------------------------------------------------
(* While no calls overlap *)

LEMMA ContendedStays == ASSUME EditTypes, [Next]_vars, contended PROVE contended'
<1>1. CASE \E c \in Call : \/ Begin(c) \/ ReadFile(c) \/ OpenDocument(c) \/ RenameSymbol(c)
                           \/ HandleApplyEdit(c) \/ ReadForPreview(c) \/ SimulateEdit(c) \/ ApplyTextMatch(c)
  BY <1>1 DEF Begin, ReadFile, OpenDocument, RenameSymbol, HandleApplyEdit, ReadForPreview, SimulateEdit,
     ApplyTextMatch, historyVars
<1>2. CASE \E c \in Call : \/ StartCapture(c) \/ Executed(c) \/ ServerApplyEdit(c) \/ RequestEnds(c)
                           \/ CloseForReopen(c) \/ RereadFile(c) \/ ReopenDocument(c) \/ Verified(c)
  BY <1>2 DEF StartCapture, Executed, ServerApplyEdit, RequestEnds, CloseForReopen, RereadFile, ReopenDocument,
     Verified, historyVars
<1>3. CASE \E a \in Actor : \/ CreateFile(a) \/ RenameFile(a) \/ DeleteFile(a) \/ ReadAndSplice(a)
                            \/ WriteFile(a) \/ SendDidChange(a) \/ Applied(a)
  BY <1>3 DEF CreateFile, RenameFile, DeleteFile, ReadAndSplice, WriteFile, SendDidChange, Applied, historyVars
<1>4. CASE (\E f \in File : UserWrites(f)) \/ UNCHANGED vars
  BY <1>4 DEF UserWrites, vars, historyVars
<1>. QED BY <1>1, <1>2, <1>3, <1>4 DEF Next

\* who works, works alone, but for calls that wait for their command
LEMMA WorksAlone ==
  ASSUME OneAtATime, NEW a \in Actor, Busy(a), pc[a] # "running", NEW b \in Actor \ {a}
  PROVE  pc[b] \in {"idle", "done"} \/ (a = Loop /\ pc[b] = "running")
BY DEF OneAtATime, Busy

\* an actor at work goes on, or stops
LEMMA OneStays ==
  ASSUME OneAtATime, NEW a \in Actor, Busy(a),
         a = Loop \/ pc[a] # "running" \/ pc'[a] = "done" \/ pc[Loop] = "idle",
         \A b \in Actor \ {a} : pc'[b] = pc[b]
  PROVE  OneAtATime'
BY DEF OneAtATime, Busy

LEMMA BegunAlone ==
  ASSUME EditTypes, NEW c \in Call, Begin(c), ~contended'
  PROVE  (\A a \in Actor : ~Busy(a)) /\ OneAtATime'
<1>1. \A a \in Actor : ~Busy(a)
  BY DEF Begin
<1>2. \A a \in Actor \ {c} : pc'[a] = pc[a]
  BY DEF Begin, EditTypes
<1>. QED BY <1>1, <1>2 DEF OneAtATime, Busy

LEMMA ServerAlone ==
  ASSUME EditTypes, Roles, NEW c \in Call, ServerApplyEdit(c), ~contended'
  PROVE  OneAtATime'
<1>1. pc[c] \in {"running", "done"} /\ c # Loop /\ pc[Loop] = "idle" /\ c \in Actor /\ Loop \in Actor
  BY ActorAssumption DEF ServerApplyEdit, Roles, RoleOf, Actor
<1>2. \A x \in Call \ {c} : ~Busy(x)
  BY DEF ServerApplyEdit
<1>3. \A a \in Actor \ {Loop} : pc'[a] = pc[a]
  BY DEF ServerApplyEdit, EditTypes
<1>. QED BY <1>1, <1>2, <1>3 DEF OneAtATime, Busy, Actor

\* no other actor is at a step where it holds the text of a file
LEMMA HeldStays ==
  ASSUME EditTypes, Work, Roles, Owned, Held, [Next]_vars, NEW a \in Actor,
         pc'[a] \notin {"send", "open", "didOpen"},
         \A b \in Actor \ {a} : pc'[b] = pc[b] /\ todo'[b] = todo[b] /\ hold'[b] = hold[b],
         disk' = disk
  PROVE  Held'
<1>1. \A d \in Call : pc[d] = "open" => Requested(d)' = Requested(d)
  BY BegunStays DEF Requested
<1>2. \A d \in Call : d \in Actor
  BY DEF Actor
<1>. QED BY <1>1, <1>2 DEF Held

LEMMA HeldAlone ==
  ASSUME EditTypes, Work, Roles, Owned, Held, OneAtATime, [Next]_vars, NEW a \in Actor,
         Busy(a), pc[a] # "running",
         pc'[a] = "send" => disk'[Head(todo'[a]).file] = hold'[a],
         pc'[a] = "open" => a \in Call /\ disk'[Requested(a)'] = hold'[a],
         pc'[a] = "didOpen" => disk'[Head(todo'[a])] = hold'[a],
         \A b \in Actor \ {a} : pc'[b] = pc[b]
  PROVE  Held'
<1>1. \A b \in Actor \ {a} : pc'[b] \notin {"send", "open", "didOpen"}
  BY WorksAlone
<1>2. \A d \in Call : d \in Actor
  BY DEF Actor
<1>. QED BY <1>1, <1>2 DEF Held

\* no document changes, and nobody starts or ends to send
LEMMA SyncedStays ==
  ASSUME Synced, NEW a \in Actor, pc[a] # "send",
         \A b \in Actor \ {a} : pc'[b] = pc[b] /\ todo'[b] = todo[b],
         disk' = disk, server' = server, outside \subseteq outside'
  PROVE  Synced'
<1>1. \A f \in File : Sending(f) => Sending(f)'
  BY DEF Sending
<1>. QED BY <1>1 DEF Synced

\* one file is written, or sent to the server
LEMMA SyncedButOne ==
  ASSUME Synced, NEW a \in Actor, NEW g \in File,
         pc[a] = "send" => Head(todo[a]).file = g,
         \A b \in Actor \ {a} : pc'[b] = pc[b] /\ todo'[b] = todo[b],
         \A f \in File \ {g} : disk'[f] = disk[f] /\ server'[f] = server[f],
         outside \subseteq outside' \cup {g},
         g \in outside' \/ server'[g] = None \/ server'[g] = disk'[g] \/ Sending(g)'
  PROVE  Synced'
<1>1. \A f \in File \ {g} : Sending(f) => Sending(f)'
  BY DEF Sending
<1>. QED BY <1>1 DEF Synced

AloneHolds == OneAtATime /\ Held /\ Synced

LEMMA PlanningAlone ==
  ASSUME EditTypes, Work, Roles, Owned, AloneHolds, [Next]_vars, NEW c \in Call,
         \/ ReadFile(c) \/ OpenDocument(c) \/ RenameSymbol(c) \/ HandleApplyEdit(c)
         \/ ReadForPreview(c) \/ SimulateEdit(c) \/ ApplyTextMatch(c)
  PROVE  AloneHolds'
<1>1. /\ c \in Actor /\ Busy(c) /\ pc[c] \in {"read", "open", "plan", "preview", "match"} /\ RoleOf(c)
  BY DEF Actor, Busy, ReadFile, OpenDocument, RenameSymbol, HandleApplyEdit, ReadForPreview, SimulateEdit,
     ApplyTextMatch, Go, Roles
<1>2. \A b \in Actor \ {c} : pc'[b] = pc[b] /\ todo'[b] = todo[b] /\ hold'[b] = hold[b]
  <2>1. CASE ReadFile(c) \/ OpenDocument(c) \/ HandleApplyEdit(c) \/ ReadForPreview(c) \/ SimulateEdit(c)
    BY <2>1 DEF ReadFile, OpenDocument, HandleApplyEdit, ReadForPreview, SimulateEdit, Go, Finish, Hold, EditTypes
  <2>2. CASE RenameSymbol(c) \/ ApplyTextMatch(c)
    BY <2>2 DEF RenameSymbol, ApplyTextMatch, Go, Finish, Hold, EditTypes
  <2>. QED BY <2>1, <2>2
<1>3. OneAtATime'
  BY <1>1, <1>2, OneStays DEF AloneHolds
<1>4. CASE OpenDocument(c)
  <2>0. Requested(c) \in File /\ pc[c] = "open" /\ disk[Requested(c)] = hold[c] /\ pc'[c] \in {"lock", "plan"}
    BY <1>1, <1>4, RequestedFile DEF OpenDocument, Go, AloneHolds, Held, EditTypes
  <2>1. disk' = disk /\ Opened(Requested(c), hold[c]) /\ outside' = outside \ {Requested(c)}
    BY <1>4 DEF OpenDocument
  <2>2. /\ \A f \in File \ {Requested(c)} : server'[f] = server[f]
        /\ server'[Requested(c)] = None \/ server'[Requested(c)] = disk'[Requested(c)]
    BY <2>0, <2>1 DEF Opened, EditTypes
  <2>3. Synced'
    BY <1>1, <1>2, <2>0, <2>1, <2>2, SyncedButOne DEF AloneHolds
  <2>4. Held'
    BY <1>1, <1>2, <2>0, <2>1, HeldStays DEF AloneHolds
  <2>. QED BY <1>3, <2>3, <2>4 DEF AloneHolds
<1>5. CASE ~OpenDocument(c)
  <2>1. UNCHANGED <<disk, server, outside>>
    BY <1>5 DEF ReadFile, RenameSymbol, HandleApplyEdit, ReadForPreview, SimulateEdit, ApplyTextMatch, docVars,
       historyVars
  <2>2. Synced'
    BY <1>1, <1>2, <2>1, SyncedStays DEF AloneHolds
  <2>3. CASE ReadFile(c)
    <3>1. /\ pc'[c] = "open" => disk'[Requested(c)] = hold'[c]
          /\ pc'[c] \in {"open", "done"} /\ plan' = plan
      BY <1>1, <2>1, <2>3 DEF ReadFile, Go, Finish, Hold, EditTypes, callVars
    <3>2. Held'
      BY <1>1, <1>2, <3>1, HeldAlone DEF AloneHolds, Requested
    <3>. QED BY <1>3, <2>2, <3>2 DEF AloneHolds
  <2>4. CASE ~ReadFile(c)
    <3>1. pc'[c] \notin {"send", "open", "didOpen"}
      BY <1>1, <1>5, <2>4 DEF RenameSymbol, HandleApplyEdit, ReadForPreview, SimulateEdit, ApplyTextMatch, Go,
         Finish, EditTypes
    <3>2. Held'
      BY <1>1, <1>2, <2>1, <3>1, HeldStays DEF AloneHolds
    <3>. QED BY <1>3, <2>2, <3>2 DEF AloneHolds
  <2>. QED BY <2>3, <2>4
<1>. QED BY <1>4, <1>5

LEMMA CommandAlone ==
  ASSUME EditTypes, Work, Roles, Owned, AloneHolds, [Next]_vars, NEW c \in Call, ~contended',
         Begin(c) \/ StartCapture(c) \/ ServerApplyEdit(c) \/ Executed(c) \/ RequestEnds(c)
  PROVE  AloneHolds'
<1>0. /\ c \in Actor /\ Loop \in Actor /\ c # Loop
      /\ UNCHANGED <<disk, server, hold>> /\ outside \subseteq outside'
  BY ActorAssumption DEF Actor, Begin, StartCapture, ServerApplyEdit, Executed, RequestEnds, docVars, historyVars
<1>1. CASE ServerApplyEdit(c)
  <2>1. OneAtATime'
    BY <1>1, ServerAlone
  <2>2. /\ \A b \in Actor \ {Loop} : pc'[b] = pc[b] /\ todo'[b] = todo[b] /\ hold'[b] = hold[b]
        /\ pc[Loop] = "idle" /\ pc'[Loop] \in {"idle", "apply"}
    BY <1>0, <1>1 DEF ServerApplyEdit, EditTypes
  <2>3. Held' /\ Synced'
    BY <1>0, <2>2, HeldStays, SyncedStays DEF AloneHolds
  <2>. QED BY <2>1, <2>3 DEF AloneHolds
<1>2. CASE ~ServerApplyEdit(c)
  <2>1. \A b \in Actor \ {c} : pc'[b] = pc[b] /\ todo'[b] = todo[b] /\ hold'[b] = hold[b]
    BY <1>0, <1>2 DEF Begin, StartCapture, Executed, RequestEnds, Go, Finish, EditTypes
  <2>2. /\ pc[c] \in {"idle", "lock", "running"}
        /\ pc'[c] \in {"read", "plan", "running", "apply", "done"}
    BY <1>0, <1>2 DEF Begin, StartPC, StartCapture, Executed, RequestEnds, Go, Finish, EditTypes
  <2>3. Held' /\ Synced'
    BY <1>0, <2>1, <2>2, HeldStays, SyncedStays DEF AloneHolds
  <2>4. OneAtATime'
    <3>1. CASE Begin(c)
      BY <3>1, BegunAlone
    <3>2. CASE StartCapture(c)
      BY <1>0, <2>1, <2>2, <3>2, OneStays DEF AloneHolds, StartCapture, Go, Busy
    <3>3. CASE Executed(c)
      BY <1>0, <2>1, <2>2, <3>3, OneStays DEF AloneHolds, Executed, Busy
    <3>4. CASE RequestEnds(c)
      <4>1. pc'[c] = "done" /\ Busy(c)
        BY <1>0, <3>4 DEF RequestEnds, Finish, EditTypes, Busy
      <4>. QED BY <1>0, <2>1, <4>1, OneStays DEF AloneHolds
    <3>. QED BY <1>2, <3>1, <3>2, <3>3, <3>4
  <2>. QED BY <2>3, <2>4 DEF AloneHolds
<1>. QED BY <1>1, <1>2

LEMMA ApplyAlone ==
  ASSUME EditTypes, Work, Roles, Owned, AloneHolds, [Next]_vars, NEW a \in Actor,
         \/ CreateFile(a) \/ RenameFile(a) \/ DeleteFile(a) \/ ReadAndSplice(a)
         \/ WriteFile(a) \/ SendDidChange(a) \/ Applied(a)
  PROVE  AloneHolds'
<1>1. /\ pc[a] \in {"apply", "write", "send"} /\ Busy(a)
      /\ todo[a] # <<>> => Head(todo[a]).file \in File /\ Head(todo[a]).to \in File
  BY LoopRoles, HeadOp DEF Busy, Verifying
<1>2. \A b \in Actor \ {a} : pc'[b] = pc[b] /\ todo'[b] = todo[b]
  BY LoopRoles
<1>3. OneAtATime'
  BY <1>1, <1>2, OneStays DEF AloneHolds
<1>4. CASE CreateFile(a) \/ RenameFile(a) \/ DeleteFile(a)
  <2>1. pc[a] = "apply" /\ todo[a] # <<>> /\ pc'[a] \in {"apply", "idle", "done"}
    BY <1>4 DEF CreateFile, RenameFile, DeleteFile, Working, Fail, Finish, EditTypes
  <2>2. Held'
    BY <1>1, <1>2, <2>1, HeldAlone DEF AloneHolds
  <2>3. /\ \A f \in File \ {Head(todo[a]).file, Head(todo[a]).to} : disk'[f] = disk[f] /\ server'[f] = server[f]
        /\ outside \subseteq outside'
    BY <1>1, <1>4, <2>1 DEF CreateFile, RenameFile, DeleteFile, Untold, EditTypes
  <2>4. ASSUME NEW g \in {Head(todo[a]).file, Head(todo[a]).to}
        PROVE  g \in outside' \/ server'[g] = None \/ (disk'[g] = disk[g] /\ server'[g] = server[g])
    BY <1>1, <1>4, <2>1 DEF CreateFile, RenameFile, DeleteFile, Untold, EditTypes
  <2>5. \A f \in File : Sending(f) => Sending(f)'
    BY <1>2, <2>1 DEF Sending
  <2>6. Synced'
    BY <2>3, <2>4, <2>5 DEF AloneHolds, Synced
  <2>. QED BY <1>3, <2>2, <2>6 DEF AloneHolds
<1>5. CASE WriteFile(a) /\ disk' # disk
  <2>1. /\ pc[a] = "write" /\ todo[a] # <<>> /\ pc'[a] = "send" /\ todo' = todo /\ hold' = hold
        /\ disk' = [disk EXCEPT ![Head(todo[a]).file] = hold[a]] /\ server' = server /\ outside' = outside
    BY <1>5 DEF WriteFile, Go, Work, WorkOf, EditTypes
  <2>2. Held'
    BY <1>1, <1>2, <2>1, HeldAlone DEF AloneHolds, EditTypes
  <2>3. Sending(Head(todo[a]).file)'
    BY <2>1 DEF Sending
  <2>4. Synced'
    BY <1>1, <1>2, <2>1, <2>3, SyncedButOne DEF AloneHolds, EditTypes
  <2>. QED BY <1>3, <2>2, <2>4 DEF AloneHolds
<1>6. CASE SendDidChange(a)
  <2>1. /\ pc[a] = "send" /\ todo[a] # <<>> /\ pc'[a] = "apply" /\ disk' = disk
        /\ outside' = outside \ {Head(todo[a]).file} /\ disk[Head(todo[a]).file] = hold[a]
    BY <1>6 DEF SendDidChange, Go, Work, WorkOf, EditTypes, AloneHolds, Held
  <2>2. Held'
    BY <1>1, <1>2, <2>1, HeldAlone DEF AloneHolds
  <2>3. /\ \A f \in File \ {Head(todo[a]).file} : server'[f] = server[f]
        /\ server'[Head(todo[a]).file] = None \/ server'[Head(todo[a]).file] = disk'[Head(todo[a]).file]
    BY <1>1, <1>6, <2>1 DEF SendDidChange, EditTypes
  <2>4. Synced'
    BY <1>1, <1>2, <2>1, <2>3, SyncedButOne DEF AloneHolds
  <2>. QED BY <1>3, <2>2, <2>4 DEF AloneHolds
<1>7. CASE ReadAndSplice(a) \/ Applied(a) \/ (WriteFile(a) /\ disk' = disk)
  <2>1. /\ pc[a] # "send" /\ UNCHANGED <<disk, server, outside>>
    BY <1>7 DEF ReadAndSplice, Applied, WriteFile, Working, docVars, historyVars
  <2>2. pc'[a] = "send" => WriteFile(a) /\ disk' = [disk EXCEPT ![Head(todo[a]).file] = hold[a]] /\ todo' = todo
                           /\ hold' = hold /\ todo[a] # <<>>
    <3>1. CASE ReadAndSplice(a) \/ Applied(a)
      BY <3>1 DEF ReadAndSplice, Applied, Go, Fail, Finish, EditTypes
    <3>2. CASE WriteFile(a)
      BY <3>2 DEF WriteFile, Go, Fail, Finish, Work, WorkOf, EditTypes
    <3>. QED BY <1>7, <3>1, <3>2
  <2>3. pc'[a] \notin {"open", "didOpen"}
    BY <1>1, <1>7 DEF ReadAndSplice, Applied, WriteFile, Go, Fail, Finish, EditTypes
  <2>4. Held'
    <3>1. pc'[a] = "send" => disk'[Head(todo'[a]).file] = hold'[a]
      BY <1>1, <2>2 DEF EditTypes
    <3>. QED BY <1>1, <1>2, <2>3, <3>1, HeldAlone DEF AloneHolds
  <2>5. Synced'
    BY <1>2, <2>1, SyncedStays DEF AloneHolds
  <2>. QED BY <1>3, <2>4, <2>5 DEF AloneHolds
<1>. QED BY <1>4, <1>5, <1>6, <1>7

LEMMA VerifyAlone ==
  ASSUME EditTypes, Work, Roles, Owned, AloneHolds, [Next]_vars, NEW c \in Call,
         CloseForReopen(c) \/ RereadFile(c) \/ ReopenDocument(c) \/ Verified(c)
  PROVE  AloneHolds'
<1>1. /\ c \in Actor /\ pc[c] \in Verifying /\ Busy(c) /\ pc[c] # "running" /\ pc[c] # "send"
      /\ todo[c] # <<>> => Head(todo[c]) \in File
  BY HeadFile DEF Actor, CloseForReopen, RereadFile, ReopenDocument, Verified, Go, Verifying, Busy
<1>2. \A b \in Actor \ {c} : pc'[b] = pc[b] /\ todo'[b] = todo[b]
  BY DEF CloseForReopen, RereadFile, ReopenDocument, Verified, NextOp, Finish, Go, EditTypes
<1>3. OneAtATime'
  BY <1>1, <1>2, OneStays DEF AloneHolds
<1>4. CASE CloseForReopen(c)
  <2>1. /\ todo[c] # <<>> /\ pc'[c] = "reread" /\ disk' = disk /\ outside' = outside
        /\ \A f \in File \ {Head(todo[c])} : server'[f] = server[f]
        /\ server' = server \/ server'[Head(todo[c])] = None
    BY <1>1, <1>4 DEF CloseForReopen, Go, EditTypes, historyVars
  <2>2. Held'
    BY <1>1, <1>2, <2>1, HeldAlone DEF AloneHolds
  <2>3. Synced'
    <3>1. CASE server' = server
      BY <1>1, <1>2, <2>1, <3>1, SyncedStays DEF AloneHolds
    <3>2. CASE server'[Head(todo[c])] = None
      BY <1>1, <1>2, <2>1, <3>2, SyncedButOne DEF AloneHolds
    <3>. QED BY <2>1, <3>1, <3>2
  <2>. QED BY <1>3, <2>2, <2>3 DEF AloneHolds
<1>5. CASE RereadFile(c)
  <2>1. /\ UNCHANGED <<disk, server, outside>> /\ pc'[c] \in {"reopen", "didOpen"}
        /\ pc'[c] = "didOpen" => disk'[Head(todo'[c])] = hold'[c]
    BY <1>1, <1>5 DEF RereadFile, Go, Hold, EditTypes, docVars, historyVars
  <2>2. Held'
    BY <1>1, <1>2, <2>1, HeldAlone DEF AloneHolds
  <2>3. Synced'
    BY <1>1, <1>2, <2>1, SyncedStays DEF AloneHolds
  <2>. QED BY <1>3, <2>2, <2>3 DEF AloneHolds
<1>6. CASE ReopenDocument(c)
  <2>1. /\ todo[c] # <<>> /\ pc'[c] = "reopen" /\ disk' = disk /\ outside' = outside \ {Head(todo[c])}
        /\ disk[Head(todo[c])] = hold[c] /\ server' = [server EXCEPT ![Head(todo[c])] = hold[c]]
    BY <1>1, <1>6 DEF ReopenDocument, Go, Work, WorkOf, EditTypes, AloneHolds, Held
  <2>2. Held'
    BY <1>1, <1>2, <2>1, HeldAlone DEF AloneHolds
  <2>3. /\ \A f \in File \ {Head(todo[c])} : server'[f] = server[f]
        /\ server'[Head(todo[c])] = disk'[Head(todo[c])]
    BY <1>1, <2>1 DEF EditTypes
  <2>4. Synced'
    BY <1>1, <1>2, <2>1, <2>3, SyncedButOne DEF AloneHolds
  <2>. QED BY <1>3, <2>2, <2>4 DEF AloneHolds
<1>7. CASE Verified(c)
  <2>1. UNCHANGED <<disk, server, outside>> /\ pc'[c] = "done"
    BY <1>1, <1>7 DEF Verified, Finish, EditTypes, docVars, historyVars
  <2>. QED BY <1>1, <1>2, <1>3, <2>1, HeldAlone, SyncedStays DEF AloneHolds
<1>. QED BY <1>4, <1>5, <1>6, <1>7

LEMMA UserAlone ==
  ASSUME EditTypes, AloneHolds, NEW f \in File, UserWrites(f), ~contended'
  PROVE  AloneHolds'
<1>1. /\ \A a \in Actor : ~Busy(a)
      /\ UNCHANGED <<pc, todo, server>>
      /\ outside' = IF server[f] # None THEN outside \cup {f} ELSE outside
      /\ \A g \in File : g # f => disk'[g] = disk[g]
  BY UserText DEF UserWrites
<1>2. OneAtATime' /\ Held'
  BY <1>1 DEF OneAtATime, Held, Busy, Actor
<1>3. \A g \in File : ~Sending(g) /\ ~Sending(g)'
  BY <1>1 DEF Sending, Busy
<1>4. Synced'
  BY <1>1, <1>3 DEF AloneHolds, Synced
<1>. QED BY <1>2, <1>4 DEF AloneHolds

LEMMA UncontendedStep ==
  ASSUME EditTypes, Work, Roles, Owned, Uncontended, [Next]_vars
  PROVE  Uncontended'
<1> SUFFICES ASSUME ~contended' PROVE AloneHolds'
  BY DEF AloneHolds, Uncontended
<1>1. AloneHolds
  BY ContendedStays DEF AloneHolds, Uncontended
<1>2. CASE UNCHANGED vars
  BY <1>1, <1>2 DEF vars, docVars, callVars, captureVars, historyVars, AloneHolds, OneAtATime, Held, Synced, Sending,
     Busy, Requested
<1>. QED BY <1>1, <1>2, PlanningAlone, CommandAlone, ApplyAlone, VerifyAlone, UserAlone DEF Next

-----------------------------------------------------------------------------
(* What safe_apply_edit has simulated *)

\* A previewed edit has nothing to do until it is matched again; then either its
\* file is no longer the text it holds, or that is the text it was simulated on.
PreviewOf(c) ==
  kind[c] = "safe" /\ pc[c] # "idle" =>
    /\ Len(plan[c]) = 1
    /\ pc[c] \in {"plan", "preview", "match"} => todo[c] = <<>>
    /\ pc[c] = "match" /\ c \notin reverted /\ disk[Requested(c)] = hold[c] => simulated[c] = hold[c]
    /\ c \notin reverted => \A o \in Elements(todo[c]) : o.on = simulated[c]

Previews == \A c \in Call : PreviewOf(c)
SimulatedTexts == simulated \in [Call -> Text \cup {Gone}]

\* every step notices the files that go back
LEMMA RevertsAlways == ASSUME [Next]_vars PROVE Reverts
<1>1. CASE disk' = disk /\ reverted' = reverted
  BY <1>1, Zenon DEF Reverts
<1>2. CASE \E c \in Call : \/ Begin(c) \/ ReadFile(c) \/ OpenDocument(c) \/ RenameSymbol(c)
                           \/ HandleApplyEdit(c) \/ ReadForPreview(c) \/ SimulateEdit(c) \/ ApplyTextMatch(c)
  BY <1>1, <1>2 DEF Begin, ReadFile, OpenDocument, RenameSymbol, HandleApplyEdit, ReadForPreview,
     SimulateEdit, ApplyTextMatch, docVars, historyVars
<1>3. CASE \E c \in Call : \/ StartCapture(c) \/ ServerApplyEdit(c) \/ Executed(c) \/ RequestEnds(c)
                           \/ CloseForReopen(c) \/ RereadFile(c) \/ ReopenDocument(c) \/ Verified(c)
  BY <1>1, <1>3 DEF StartCapture, ServerApplyEdit, Executed, RequestEnds, CloseForReopen, RereadFile,
     ReopenDocument, Verified, docVars, historyVars
<1>4. CASE \E a \in Actor : ReadAndSplice(a) \/ SendDidChange(a) \/ Applied(a)
  BY <1>1, <1>4 DEF ReadAndSplice, SendDidChange, Applied, docVars, historyVars
<1>5. CASE \E a \in Actor : CreateFile(a) \/ RenameFile(a) \/ DeleteFile(a) \/ WriteFile(a)
  BY <1>5 DEF CreateFile, RenameFile, DeleteFile, WriteFile
<1>6. CASE \E f \in File : UserWrites(f)
  BY <1>6 DEF UserWrites
<1>7. CASE UNCHANGED vars
  BY <1>1, <1>7 DEF vars, docVars, historyVars
<1>. QED BY <1>2, <1>3, <1>4, <1>5, <1>6, <1>7 DEF Next

\* a call that takes no step stays previewed, whoever writes its file
LEMMA OthersPreviews ==
  ASSUME NEW c \in Call, PreviewOf(c), [Next]_vars,
         pc'[c] = pc[c], kind'[c] = kind[c], plan'[c] = plan[c], todo'[c] = todo[c],
         hold'[c] = hold[c], simulated'[c] = simulated[c]
  PROVE  PreviewOf(c)'
<1>1. Requested(c)' = Requested(c)
  BY DEF Requested
<1>2. /\ reverted \subseteq reverted'
      /\ pc[c] = "match" /\ c \notin reverted' /\ disk'[Requested(c)] = hold[c]
           => disk[Requested(c)] = hold[c]
  BY RevertsAlways DEF Reverts
<1>. QED BY <1>1, <1>2 DEF PreviewOf

\* a call that writes what it was to write has no more to do than before
LEMMA FewerPreviews ==
  ASSUME EditTypes, Work, NEW c \in Call, PreviewOf(c), [Next]_vars,
         pc[c] \in {"apply", "write", "send"}, pc'[c] \in {"apply", "write", "send", "done"},
         UNCHANGED <<kind, plan, simulated>>,
         todo'[c] = todo[c] \/ todo'[c] = <<>> \/ (todo[c] # <<>> /\ todo'[c] = Tail(todo[c]))
  PROVE  PreviewOf(c)'
<1>1. todo[c] \in Seq(Operations)
  BY DEF Work, WorkOf, Verifying, Actor
<1>2. Elements(todo'[c]) \subseteq Elements(todo[c])
  BY <1>1, Nothing, HeadAndRest
<1>3. reverted \subseteq reverted'
  BY RevertsAlways DEF Reverts
<1>. QED BY <1>2, <1>3 DEF PreviewOf

LEMMA BeginPreviews ==
  ASSUME EditTypes, Work, Roles, Previews, NEW c \in Call, Begin(c)
  PROVE  Previews'
<1>1. c \in Actor /\ pc[c] = "idle" /\ c # Loop
  BY ActorAssumption DEF Actor, Begin
<1>2. \A d \in Call \ {c} : PreviewOf(d)'
  <2>1. \A d \in Call \ {c} : PreviewOf(d) /\ d \in Actor
    BY DEF Previews, Actor
  <2>2. \A d \in Call \ {c} : /\ pc'[d] = pc[d] /\ kind'[d] = kind[d] /\ plan'[d] = plan[d]
                              /\ todo'[d] = todo[d] /\ hold'[d] = hold[d] /\ simulated'[d] = simulated[d]
    BY <2>1 DEF Begin, EditTypes
  <2>3. Next
    BY DEF Next
  <2>. QED BY <2>1, <2>2, <2>3, OthersPreviews
<1>3. kind'[c] = "safe" => /\ Len(plan'[c]) = 1 /\ pc'[c] = "plan" /\ todo'[c] = <<>>
  BY <1>1 DEF Begin, EditTypes, StartPC
<1>4. PreviewOf(c)'
  BY <1>3, Nothing DEF PreviewOf
<1>. QED BY <1>2, <1>4 DEF Previews

\* the edit is simulated, or matched, on the text of the file at that moment
LEMMA PlanningPreviews ==
  ASSUME EditTypes, SimulatedTexts, Work, Roles, Previews, NEW c \in Call,
         ReadForPreview(c) \/ SimulateEdit(c) \/ ApplyTextMatch(c)
  PROVE  Previews'
<1>1. c \in Actor /\ PreviewOf(c)
  BY DEF Actor, Previews
<1>2. \A d \in Call \ {c} : PreviewOf(d)'
  <2>1. \A d \in Call \ {c} : PreviewOf(d) /\ d \in Actor
    BY DEF Previews, Actor
  <2>2. \A d \in Call \ {c} : /\ pc'[d] = pc[d] /\ kind'[d] = kind[d] /\ plan'[d] = plan[d]
                              /\ todo'[d] = todo[d] /\ hold'[d] = hold[d] /\ simulated'[d] = simulated[d]
    <3>1. CASE ReadForPreview(c)
      BY <2>1, <3>1 DEF ReadForPreview, Go, Finish, Hold, callVars, EditTypes
    <3>2. CASE SimulateEdit(c)
      <4>1. UNCHANGED <<kind, plan, todo>> /\ simulated' = [simulated EXCEPT ![c] = disk[Requested(c)]]
        BY <3>2 DEF SimulateEdit
      <4>2. \A d \in Call \ {c} : pc'[d] = pc[d] /\ hold'[d] = hold[d]
        BY <2>1, <3>2 DEF SimulateEdit, Go, Finish, Hold, EditTypes
      <4>3. \A d \in Call \ {c} : simulated'[d] = simulated[d]
        BY <4>1
      <4>. QED BY <4>1, <4>2, <4>3
    <3>3. CASE ApplyTextMatch(c)
      BY <2>1, <3>3 DEF ApplyTextMatch, Go, Finish, Hold, callVars, EditTypes
    <3>. QED BY <3>1, <3>2, <3>3
  <2>3. Next
    BY DEF Next
  <2>. QED BY <2>1, <2>2, <2>3, OthersPreviews
<1>3. kind' = kind /\ plan' = plan /\ disk' = disk /\ reverted' = reverted /\ Requested(c)' = Requested(c)
  BY DEF ReadForPreview, SimulateEdit, ApplyTextMatch, callVars, docVars, historyVars, Requested
<1>4. ASSUME kind[c] # "safe" PROVE PreviewOf(c)'
  BY <1>3, <1>4 DEF PreviewOf
<1>5. ASSUME kind[c] = "safe", ReadForPreview(c) PROVE PreviewOf(c)'
  <2>1. pc[c] = "plan" /\ todo' = todo /\ pc'[c] \in {"preview", "done"}
    BY <1>1, <1>5 DEF ReadForPreview, Go, Finish, EditTypes
  <2>2. todo'[c] = <<>> /\ Len(plan[c]) = 1
    BY <1>1, <1>5, <2>1 DEF PreviewOf
  <2>. QED BY <1>3, <2>1, <2>2, Nothing DEF PreviewOf
<1>6. ASSUME kind[c] = "safe", SimulateEdit(c) PROVE PreviewOf(c)'
  <2>1. /\ pc[c] = "preview" /\ todo' = todo /\ pc'[c] \in {"match", "done"}
        /\ pc'[c] = "match" => hold' = hold
    BY <1>1, <1>6 DEF SimulateEdit, Go, Finish, EditTypes
  <2>2. simulated' = [simulated EXCEPT ![c] = disk[Requested(c)]]
    BY <1>6 DEF SimulateEdit
  <2>3. todo'[c] = <<>> /\ Len(plan[c]) = 1
    BY <1>1, <1>6, <2>1 DEF PreviewOf
  <2>4. simulated'[c] = disk[Requested(c)]
    BY <2>2 DEF SimulatedTexts
  <2>. QED BY <1>3, <2>1, <2>3, <2>4, Nothing DEF PreviewOf
<1>7. ASSUME kind[c] = "safe", ApplyTextMatch(c) PROVE PreviewOf(c)'
  <2>1. pc[c] = "match" /\ todo[c] = <<>> /\ Len(plan[c]) = 1
    BY <1>1, <1>7 DEF ApplyTextMatch, PreviewOf
  <2>2. pc'[c] \in {"apply", "done"} /\ simulated' = simulated
    BY <1>1, <1>7 DEF ApplyTextMatch, Go, Finish, callVars, EditTypes
  <2>3. CASE todo' = todo
    BY <1>3, <2>1, <2>2, <2>3, Nothing DEF PreviewOf
  <2>4. CASE todo' # todo
    <3>1. /\ disk[Requested(c)] = hold[c] /\ disk[Requested(c)] # Gone
          /\ todo' = [todo EXCEPT ![c] = Planned(c, disk)]
      BY <1>7, <2>1, <2>4 DEF ApplyTextMatch
    <3>2. todo'[c] = Planned(c, disk)
      BY <1>1, <3>1 DEF EditTypes
    <3>3. plan[c] \in Seq(PlanOp) /\ DOMAIN plan[c] = {1} /\ Requested(c) = plan[c][1].file
      <4>1. plan[c] \in Seq(PlanOp)
        BY DEF EditTypes
      <4>. QED BY <2>1, <4>1 DEF Requested
    <3>4. \A o \in Elements(todo'[c]) : o.on = disk[Requested(c)]
      <4>1. DOMAIN todo'[c] = {1}
        BY <3>2, <3>3 DEF Planned
      <4>2. todo'[c][1] = Op(plan[c][1], c, disk[Requested(c)])
        BY <3>2, <3>3 DEF Planned
      <4>3. todo'[c][1].on = disk[Requested(c)]
        BY <3>1, <4>2 DEF Op
      <4>. QED BY <4>1, <4>3 DEF Elements
    <3>5. c \notin reverted => simulated[c] = disk[Requested(c)]
      BY <1>1, <1>7, <2>1, <3>1 DEF PreviewOf
    <3>. QED BY <1>3, <2>1, <2>2, <3>4, <3>5 DEF PreviewOf
  <2>. QED BY <2>3, <2>4
<1>8. PreviewOf(c)'
  BY <1>4, <1>5, <1>6, <1>7
<1>. QED BY <1>2, <1>8 DEF Previews

\* the other tools preview nothing
LEMMA OtherToolsPreviews ==
  ASSUME EditTypes, Work, Roles, Previews, NEW c \in Call, pc[c] # "idle", kind[c] # "safe", [Next]_vars,
         UNCHANGED <<kind, plan, simulated>>,
         \A d \in Call \ {c} : pc'[d] = pc[d] /\ todo'[d] = todo[d] /\ hold'[d] = hold[d]
  PROVE  Previews'
<1>1. \A d \in Call \ {c} : PreviewOf(d)'
  BY OthersPreviews DEF Previews
<1>2. PreviewOf(c)'
  BY DEF PreviewOf
<1>. QED BY <1>1, <1>2 DEF Previews

LEMMA CommandPreviews ==
  ASSUME EditTypes, Work, Roles, Previews, NEW c \in Call,
         \/ ReadFile(c) \/ OpenDocument(c) \/ RenameSymbol(c) \/ HandleApplyEdit(c)
         \/ StartCapture(c) \/ Executed(c) \/ RequestEnds(c)
         \/ CloseForReopen(c) \/ RereadFile(c) \/ ReopenDocument(c) \/ Verified(c)
  PROVE  Previews'
<1>1. Next
  BY DEF Next
<1>2. RoleOf(c)
  BY DEF Roles
<1>3. pc[c] # "idle" /\ kind[c] # "safe"
  <2>1. CASE ReadFile(c) \/ OpenDocument(c) \/ RenameSymbol(c) \/ HandleApplyEdit(c)
    BY <1>2, <2>1 DEF RoleOf, ReadFile, OpenDocument, RenameSymbol, HandleApplyEdit, Go
  <2>2. CASE StartCapture(c) \/ Executed(c) \/ RequestEnds(c)
    BY <1>2, <2>2 DEF RoleOf, StartCapture, Executed, RequestEnds, Go
  <2>3. CASE CloseForReopen(c) \/ RereadFile(c) \/ ReopenDocument(c) \/ Verified(c)
    BY <1>2, <2>3 DEF RoleOf, CloseForReopen, RereadFile, ReopenDocument, Verified, Go, Verifying
  <2>. QED BY <2>1, <2>2, <2>3
<1>4. UNCHANGED <<kind, plan, simulated>>
  BY DEF ReadFile, OpenDocument, RenameSymbol, HandleApplyEdit, StartCapture, Executed, RequestEnds,
     CloseForReopen, RereadFile, ReopenDocument, Verified, callVars
<1>5. \A d \in Call \ {c} : pc'[d] = pc[d] /\ todo'[d] = todo[d] /\ hold'[d] = hold[d]
  <2>. \A d \in Call \ {c} : d \in Actor
    BY DEF Actor
  <2>1. CASE ReadFile(c) \/ OpenDocument(c) \/ RenameSymbol(c) \/ HandleApplyEdit(c)
    BY <2>1 DEF ReadFile, OpenDocument, RenameSymbol, HandleApplyEdit, Go, Finish, Hold, EditTypes
  <2>2. CASE StartCapture(c) \/ Executed(c) \/ RequestEnds(c)
    BY <2>2 DEF StartCapture, Executed, RequestEnds, Go, Finish, EditTypes
  <2>3. CASE CloseForReopen(c) \/ RereadFile(c) \/ ReopenDocument(c) \/ Verified(c)
    BY <2>3 DEF CloseForReopen, RereadFile, ReopenDocument, Verified, Go, Finish, Hold, NextOp, EditTypes
  <2>. QED BY <2>1, <2>2, <2>3
<1>. QED BY <1>1, <1>3, <1>4, <1>5, OtherToolsPreviews

LEMMA ApplyPreviews ==
  ASSUME EditTypes, Work, Roles, Previews, NEW a \in Actor,
         \/ CreateFile(a) \/ RenameFile(a) \/ DeleteFile(a)
         \/ ReadAndSplice(a) \/ WriteFile(a) \/ SendDidChange(a) \/ Applied(a)
  PROVE  Previews'
<1>1. Next
  BY DEF Next
<1>2. UNCHANGED <<kind, plan, simulated>>
  BY DEF CreateFile, RenameFile, DeleteFile, ReadAndSplice, WriteFile, SendDidChange, Applied, callVars
<1>3. /\ \A d \in Actor \ {a} : pc'[d] = pc[d] /\ todo'[d] = todo[d] /\ hold'[d] = hold[d]
      /\ pc[a] \in {"apply", "write", "send"}
  <2>1. CASE CreateFile(a) \/ RenameFile(a) \/ DeleteFile(a)
    BY <2>1 DEF CreateFile, RenameFile, DeleteFile, Working, NextOp, Fail, Finish, EditTypes
  <2>2. CASE ReadAndSplice(a) \/ WriteFile(a)
    BY <2>2 DEF ReadAndSplice, WriteFile, Working, NextOp, Fail, Finish, Hold, Go, EditTypes
  <2>3. CASE SendDidChange(a) \/ Applied(a)
    BY <2>3 DEF SendDidChange, Applied, NextOp, Finish, Hold, Go, EditTypes
  <2>. QED BY <2>1, <2>2, <2>3
<1>4. \A d \in Call \ {a} : PreviewOf(d)'
  BY <1>1, <1>2, <1>3, OthersPreviews DEF Previews, Actor
<1>5. ASSUME a \in Call, kind[a] = "safe" PROVE PreviewOf(a)'
  <2>1. a # Loop /\ ~Verifies(a)
    BY <1>5, ActorAssumption DEF Verifies
  <2>2. todo[a] # <<>> \/ Applied(a)
    BY DEF CreateFile, RenameFile, DeleteFile, ReadAndSplice, WriteFile, SendDidChange, Working, Go, Work, WorkOf
  <2>3. /\ pc'[a] \in {"apply", "write", "send", "done"}
        /\ todo'[a] = todo[a] \/ todo'[a] = <<>> \/ (todo[a] # <<>> /\ todo'[a] = Tail(todo[a]))
    <3>1. CASE CreateFile(a) \/ RenameFile(a) \/ DeleteFile(a)
      BY <1>3, <2>1, <2>2, <3>1 DEF CreateFile, RenameFile, DeleteFile, Working, NextOp, Fail, Finish, EditTypes
    <3>2. CASE ReadAndSplice(a) \/ WriteFile(a)
      BY <1>3, <2>1, <2>2, <3>2 DEF ReadAndSplice, WriteFile, Working, NextOp, Fail, Finish, Go, EditTypes
    <3>3. CASE SendDidChange(a)
      BY <1>3, <2>1, <2>2, <3>3 DEF SendDidChange, Work, WorkOf, NextOp, Go, EditTypes
    <3>4. CASE Applied(a)
      BY <2>1, <3>4 DEF Applied, Finish, EditTypes
    <3>. QED BY <3>1, <3>2, <3>3, <3>4
  <2>4. PreviewOf(a)
    BY <1>5 DEF Previews
  <2>. QED BY <1>1, <1>2, <1>3, <1>5, <2>3, <2>4, FewerPreviews
<1>6. ASSUME a \in Call, kind[a] # "safe" PROVE PreviewOf(a)'
  BY <1>2, <1>6 DEF PreviewOf
<1>. QED BY <1>4, <1>5, <1>6 DEF Previews

LEMMA PreviewsStep ==
  ASSUME EditTypes, SimulatedTexts, Work, Roles, Previews, [Next]_vars
  PROVE  Previews' /\ SimulatedTexts'
<1>1. ASSUME UNCHANGED <<kind, plan, simulated, hold>>,
             \A d \in Call : pc'[d] = pc[d] /\ todo'[d] = todo[d]
      PROVE  Previews'
  BY <1>1, OthersPreviews DEF Previews
<1>2. ASSUME \E c \in Call : ServerApplyEdit(c) PROVE Previews'
  <2>1. \A d \in Call : d # Loop /\ d \in Actor
    BY ActorAssumption DEF Actor
  <2>. QED BY <1>1, <1>2, <2>1 DEF ServerApplyEdit, callVars, EditTypes
<1>3. ASSUME (\E f \in File : UserWrites(f)) \/ UNCHANGED vars PROVE Previews'
  BY <1>1, <1>3 DEF UserWrites, vars, callVars
<1>4. Previews'
  BY <1>2, <1>3, BeginPreviews, PlanningPreviews, CommandPreviews, ApplyPreviews DEF Next
<1>5. SimulatedTexts'
  <2>1. CASE simulated' = simulated
    BY <2>1 DEF SimulatedTexts
  <2>2. CASE \E c \in Call : SimulateEdit(c)
    <3>1. PICK c \in Call : SimulateEdit(c)
      BY <2>2
    <3>2. pc[c] # "idle"
      BY <3>1 DEF SimulateEdit
    <3>3. disk[Requested(c)] \in Text \cup {Gone}
      BY <3>2, RequestedFile DEF EditTypes
    <3>. QED BY <3>1, <3>3 DEF SimulateEdit, SimulatedTexts
  <2>3. CASE \E c \in Call : \/ Begin(c) \/ ReadFile(c) \/ OpenDocument(c) \/ RenameSymbol(c)
                             \/ HandleApplyEdit(c) \/ ReadForPreview(c) \/ ApplyTextMatch(c)
    BY <2>1, <2>3 DEF Begin, ReadFile, OpenDocument, RenameSymbol, HandleApplyEdit, ReadForPreview,
       ApplyTextMatch, callVars
  <2>4. CASE \E c \in Call : \/ StartCapture(c) \/ ServerApplyEdit(c) \/ Executed(c) \/ RequestEnds(c)
                             \/ CloseForReopen(c) \/ RereadFile(c) \/ ReopenDocument(c) \/ Verified(c)
    BY <2>1, <2>4 DEF StartCapture, ServerApplyEdit, Executed, RequestEnds, CloseForReopen, RereadFile,
       ReopenDocument, Verified, callVars
  <2>5. CASE \E a \in Actor : \/ CreateFile(a) \/ RenameFile(a) \/ DeleteFile(a) \/ ReadAndSplice(a)
                              \/ WriteFile(a) \/ SendDidChange(a) \/ Applied(a)
    BY <2>1, <2>5 DEF CreateFile, RenameFile, DeleteFile, ReadAndSplice, WriteFile, SendDidChange, Applied,
       callVars
  <2>6. CASE (\E f \in File : UserWrites(f)) \/ UNCHANGED vars
    BY <2>1, <2>6 DEF UserWrites, vars, callVars
  <2>. QED BY <2>2, <2>3, <2>4, <2>5, <2>6 DEF Next
<1>. QED BY <1>4, <1>5

-----------------------------------------------------------------------------
(* The theorems *)

LEMMA EditsInit == Init => EditsInv
<1> SUFFICES ASSUME Init PROVE EditsInv
  OBVIOUS
<1>1. Pristine \in Text /\ <<>> \in Seq(Operations) /\ <<>> \in Seq(PlanOp)
  BY DEF Pristine, Text
<1>2. EditTypes
  BY <1>1 DEF Init, EditTypes, PCs, Kinds, Results
<1>3. Work
  BY <1>1 DEF Init, Work, WorkOf, Verifying, Actor
<1>4. Roles
  BY NoneAssumption DEF Init, Roles, RoleOf, Verifying, Actor
<1>5. Owned
  BY Nothing DEF Init, Owned, OwnedBy
<1>6. Straight
  BY DEF Init, Straight, Clean, Pristine
<1>7. DryRunWritesNothing
  BY DEF Init, DryRunWritesNothing
<1>8. \A a \in Actor : pc[a] = "idle" /\ res[a] = None
  BY DEF Init
<1>9. WorkLeft
  BY <1>4, <1>8, NoneAssumption DEF Init, WorkLeft, LeftOf, Verifying, Actor
<1>10. Uncontended
  BY <1>8 DEF Init, Uncontended, OneAtATime, Busy, Held, Synced, Actor
<1>. QED BY <1>2, <1>3, <1>4, <1>5, <1>6, <1>7, <1>9, <1>10 DEF EditsInv

\* Every reachable state satisfies the inductive invariant.
THEOREM EditsInvariant == Spec => []EditsInv
<1>1. ASSUME EditsInv, [Next]_vars PROVE EditsInv'
  <2>1. EditTypes' /\ Work'
    BY <1>1, TypesStep DEF EditsInv
  <2>. QED BY <1>1, <2>1, RolesStep, OwnedStep, StraightStep, DryStep, LeftStep, UncontendedStep DEF EditsInv
<1>. QED BY EditsInit, <1>1, PTL DEF Spec

\* An edit found by its text is never spliced into another text than the one it was
\* found in (workspace.go:599-604), however many calls, commands and programs write.
THEOREM MatchesLand == Spec => []MatchedEditsLand
<1>1. EditsInv => MatchedEditsLand
  BY DEF EditsInv, Straight, Clean, MatchedEditsLand
<1>. QED BY <1>1, EditsInvariant, PTL

\* A dry run whose request is not given up writes nothing (interactive.go:128-135),
\* whatever other commands the server runs meanwhile.
THEOREM DryRunsWriteNothing == Spec => []DryRunWritesNothing
<1>1. EditsInv => DryRunWritesNothing
  BY DEF EditsInv
<1>. QED BY <1>1, EditsInvariant, PTL

\* A call that reports success has written every file of its edit; refactor, those of
\* every edit it caught (client.go:2866-2980).
THEOREM SuccessIsWritten == Spec => []SuccessMeansWritten
<1>1. ASSUME EditsInv, NEW c \in Call, res[c] = "ok"
      PROVE  IF kind[c] = "refactor"
             THEN \A i \in DOMAIN caught[c] :
                    caught[c][i].op = "edit" => caught[c][i].file \in landed[caught[c][i].by]
             ELSE Edited(c) \subseteq landed[c]
  <2>1. Wanted(c) \subseteq Written
    BY <1>1 DEF EditsInv, WorkLeft, LeftOf
  <2>2. ASSUME kind[c] = "refactor", NEW i \in DOMAIN caught[c], caught[c][i].op = "edit"
        PROVE  caught[c][i].file \in landed[caught[c][i].by]
    <3>1. caught[c][i] \in Elements(caught[c])
      BY DEF Elements
    <3>2. <<caught[c][i].by, caught[c][i].file>> \in Wanted(c)
      BY <2>2, <3>1 DEF Wanted, EditsOf
    <3>. QED BY <2>1, <3>2 DEF Written
  <2>3. ASSUME kind[c] # "refactor", NEW f \in Edited(c) PROVE f \in landed[c]
    <3>1. <<c, f>> \in Wanted(c)
      BY <2>3 DEF Wanted
    <3>. QED BY <2>1, <3>1 DEF Written
  <2>. QED BY <2>2, <2>3
<1>2. EditsInv => SuccessMeansWritten
  BY <1>1 DEF SuccessMeansWritten
<1>. QED BY <1>2, EditsInvariant, PTL

\* Between calls that did not overlap the server has the text of every file it has
\* open, but for those that other programs, or file operations, changed behind it.
THEOREM ServerStaysInSync == Spec => []ServerInSync
<1>1. ASSUME EditsInv, ~contended, \A a \in Actor : ~Busy(a), NEW f \in File \ outside, disk[f] # Gone
      PROVE  View(f) = disk[f]
  <2>1. ~Sending(f)
    BY <1>1 DEF Sending, Busy
  <2>. QED BY <1>1, <2>1 DEF EditsInv, Uncontended, Synced, View
<1>2. EditsInv => ServerInSync
  BY <1>1 DEF ServerInSync
<1>. QED BY <1>2, EditsInvariant, PTL

OpenIsTracked == \A f \in File : server[f] # None => f \in tracked

\* Every tool, file and actor keeps its types; the server has no document open that
\* the client does not track, and a capture is of a refactor that waits for its
\* command, whatever fails and whoever writes.
THEOREM EditsTypeCorrect == Spec => []TypeOK
<1>1. Init => OpenIsTracked
  BY DEF Init, OpenIsTracked
<1>2. ASSUME EditsInv, OpenIsTracked, [Next]_vars PROVE OpenIsTracked'
  <2>1. server \in [File -> Text \cup {None}] /\ tracked \subseteq File
    BY <1>2 DEF EditsInv, EditTypes
  <2>2. ASSUME UNCHANGED <<tracked, server>> PROVE OpenIsTracked'
    BY <1>2, <2>2 DEF OpenIsTracked
  <2>3. ASSUME NEW c \in Call, OpenDocument(c) PROVE OpenIsTracked'
    BY <1>2, <2>1, <2>3 DEF OpenIsTracked, OpenDocument, Opened
  <2>4. ASSUME NEW c \in Call, CloseForReopen(c) PROVE OpenIsTracked'
    BY <1>2, <2>1, <2>4 DEF OpenIsTracked, CloseForReopen
  <2>5. ASSUME NEW c \in Call, ReopenDocument(c) PROVE OpenIsTracked'
    BY <1>2, <2>1, <2>5 DEF OpenIsTracked, ReopenDocument
  <2>6. ASSUME NEW a \in Actor, SendDidChange(a) PROVE OpenIsTracked'
    BY <1>2, <2>1, <2>6 DEF OpenIsTracked, SendDidChange
  <2>7. ASSUME NEW c \in Call,
               \/ Begin(c) \/ ReadFile(c) \/ RenameSymbol(c) \/ HandleApplyEdit(c)
               \/ ReadForPreview(c) \/ SimulateEdit(c) \/ ApplyTextMatch(c)
               \/ StartCapture(c) \/ ServerApplyEdit(c) \/ Executed(c) \/ RequestEnds(c)
               \/ RereadFile(c) \/ Verified(c)
        PROVE  UNCHANGED <<tracked, server>>
    BY <2>7 DEF docVars, Begin, ReadFile, RenameSymbol, HandleApplyEdit, ReadForPreview,
         SimulateEdit, ApplyTextMatch, StartCapture, ServerApplyEdit, Executed, RequestEnds,
         RereadFile, Verified
  <2>8. ASSUME NEW a \in Actor,
               CreateFile(a) \/ RenameFile(a) \/ DeleteFile(a) \/ ReadAndSplice(a)
               \/ WriteFile(a) \/ Applied(a)
        PROVE  UNCHANGED <<tracked, server>>
    BY <2>8 DEF docVars, CreateFile, RenameFile, DeleteFile, ReadAndSplice, WriteFile, Applied
  <2>9. ASSUME NEW f \in File, UserWrites(f) PROVE UNCHANGED <<tracked, server>>
    BY <2>9 DEF UserWrites
  <2>10. CASE UNCHANGED vars
    BY <2>2, <2>10 DEF vars, docVars
  <2>. QED BY <1>2, <2>2, <2>3, <2>4, <2>5, <2>6, <2>7, <2>8, <2>9, <2>10 DEF Next
<1>3. EditsInv /\ OpenIsTracked => TypeOK
  <2> SUFFICES ASSUME EditsInv, OpenIsTracked PROVE TypeOK
    OBVIOUS
  <2>1. /\ EditTypes /\ Roles
    BY DEF EditsInv
  <2>2. capture # None => kind[capture] = "refactor" /\ pc[capture] = "running"
    <3> SUFFICES ASSUME capture # None PROVE kind[capture] = "refactor" /\ pc[capture] = "running"
      OBVIOUS
    <3>1. PICK c \in Call : capture = c
      BY <2>1 DEF EditTypes
    <3>. QED BY <2>1, <3>1 DEF Roles, RoleOf
  <2>3. /\ \A a \in Actor : hold[a] \in Text \cup {Gone}
        /\ \A a \in Actor : todo[a] \in Seq(Operations) \cup Seq(File)
        /\ \A c \in Call : caught[c] \in Seq(Operations) /\ landed[c] \subseteq File
    BY <2>1 DEF EditTypes
  <2>. QED BY <2>1, <2>2, <2>3 DEF EditTypes, OpenIsTracked, TypeOK, Results
<1>. QED BY <1>1, <1>2, <1>3, EditsInvariant, PTL DEF Spec

\* What safe_apply_edit writes was simulated on the text it is spliced into, unless
\* that text was changed and brought back since (workspace.go:602-604), for any number
\* of calls, commands and writes by other programs.
THEOREM SimulationsAreWritten == Spec => []SimulatedIsWritten
<1>1. Init => Previews
  <2> SUFFICES ASSUME Init, NEW c \in Call PROVE PreviewOf(c)
    BY DEF Previews
  <2>1. pc[c] = "idle"
    BY DEF Init, Actor
  <2>. QED BY <2>1 DEF PreviewOf
<1>2. Init => SimulatedTexts
  BY DEF Init, SimulatedTexts
<1>3. EditsInv /\ Previews /\ SimulatedTexts /\ [Next]_vars => Previews' /\ SimulatedTexts'
  BY PreviewsStep DEF EditsInv
<1>4. EditsInv /\ Previews => SimulatedIsWritten
  <2> SUFFICES ASSUME EditsInv, Previews, NEW c \in Call, kind[c] = "safe", c \notin reverted,
                      NEW i \in DOMAIN todo[c]
               PROVE  todo[c][i].on = simulated[c]
    BY DEF SimulatedIsWritten
  <2>1. todo[c][i] \in Elements(todo[c])
    BY DEF Elements
  <2>2. pc[c] # "idle"
    BY <2>1, Nothing DEF EditsInv, Roles, RoleOf
  <2>. QED BY <2>1, <2>2 DEF Previews, PreviewOf
<1>. QED BY <1>1, <1>2, <1>3, <1>4, EditsInvariant, PTL DEF Spec
=============================================================================
