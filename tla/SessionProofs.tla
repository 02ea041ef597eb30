---------------------------- MODULE SessionProofs ----------------------------
(***************************************************************************)
(* Theorems about Session, for every number of calls, sessions, files and   *)
(* texts.  IInv strengthens TypeOK by what a call relies on when it goes on *)
(* after a point where others could run.                                   *)
(***************************************************************************)
EXTENDS Session, SequenceTheorems, FiniteSetTheorems, WellFoundedInduction, TLAPS

\* positions where an edit is in progress
ApplyPCs == {"apply", "applyAcquire", "baseline", "open", "mutate", "send", "record"}

CallInv(p) ==
  /\ pc[p] # "idle" => sid[p] \in SessionId
  /\ pc[p] \in ApplyPCs => rest[p] # <<>>
  /\ pc[p] \in {"open", "mutate", "send", "record"} =>
       contents[sid[p]][Head(rest[p]).uri] # NoText
  /\ pc[p] \in {"write", "notify"} =>
       \A f \in todo[p] : contents[sid[p]][f] # NoText
  /\ pc[p] = "notify" => item[p] \in [uri : URI, text : Text]

\* a file with a baseline has a content in the session
BaselineOK == \A s \in SessionId : \A f \in baselines[s] : contents[s][f] # NoText

IInv == TypeOK /\ BaselineOK /\ \A p \in Proc : CallInv(p)

-----------------------------------------------------------------------------
(* The two ways a step moves a call *)

LEMMA ReturnType ==
  ASSUME CallType, NEW p \in Proc, Return(p)
  PROVE  CallType'
  BY DEF CallType, Return, PCs, Ops

LEMMA GotoType ==
  ASSUME CallType, NEW p \in Proc, NEW l \in PCs, Goto(p, l), UNCHANGED locals
  PROVE  CallType'
  BY DEF CallType, Goto, locals

\* the open edit's file and the session's text of it
LEMMA EditArgs ==
  ASSUME IInv, NEW p \in Proc, pc[p] \in ApplyPCs
  PROVE  /\ sid[p] \in SessionId
         /\ Head(rest[p]) \in EditReq
         /\ Tail(rest[p]) \in Seq(EditReq)
         /\ Head(rest[p]).uri \in URI /\ Head(rest[p]).edit \in Edit
         /\ contents[sid[p]][Head(rest[p]).uri] \in Text \cup {NoText}
         /\ pc[p] \in {"open", "mutate", "send", "record"} =>
              contents[sid[p]][Head(rest[p]).uri] \in Text
  <1>1. sid[p] \in SessionId /\ rest[p] \in Seq(EditReq) /\ rest[p] # <<>>
    BY DEF IInv, CallInv, TypeOK, CallType, ApplyPCs
  <1>2. Head(rest[p]) \in EditReq /\ Tail(rest[p]) \in Seq(EditReq)
    BY <1>1
  <1>. QED BY <1>1, <1>2 DEF IInv, CallInv, TypeOK, EditType, EditReq

-----------------------------------------------------------------------------
(* Each step preserves the invariant *)

LEMMA ApplyCheckType ==
  ASSUME IInv, NEW p \in Proc, ApplyCheck(p)
  PROVE  IInv'
  <1> USE TextAssumption, IdAssumption DEF IInv, TypeOK
  <1>s. sid[p] \in SessionId
    BY DEF CallInv, ApplyCheck
  <1>r. pc[p] \in ApplyPCs
    BY DEF ApplyCheck, ApplyPCs
  <1>e. /\ Head(rest[p]) \in EditReq /\ Tail(rest[p]) \in Seq(EditReq)
        /\ Head(rest[p]).uri \in URI /\ Head(rest[p]).edit \in Edit
        /\ contents[sid[p]][Head(rest[p]).uri] \in Text \cup {NoText}
        /\ pc[p] \in {"open", "mutate", "send", "record"} =>
             contents[sid[p]][Head(rest[p]).uri] \in Text
    BY <1>r, EditArgs
  <1>1. StatType'
    BY <1>s DEF StatType, Statuses, ApplyCheck, Goto, Return, locals, editVars, statVars, docVars, history
  <1>2. EditType'
    BY DEF EditType, ApplyCheck, editVars
  <1>3. DocType'
    BY DEF DocType, ApplyCheck, docVars
  <1>4. CallType'
    <2>1. CASE Return(p)
      BY <2>1, ReturnType
    <2>2. CASE Goto(p, "applyAcquire") /\ UNCHANGED locals
      BY <2>2, GotoType DEF PCs
    <2>. QED BY <2>1, <2>2 DEF ApplyCheck
  <1>5. HistType'
    BY <1>s DEF HistType, EditType, ApplyCheck, Goto, Return, locals, editVars, statVars, docVars, history
  <1>6. CallInv(p)'
    BY <1>s, <1>e DEF CallInv, ApplyPCs, CallType, EditType, BaselineOK, DocType, ApplyCheck, Goto, Return, locals, editVars, statVars, docVars, history
  <1>7. ASSUME NEW q \in Proc, q # p PROVE CallInv(q)'
    <2>1. /\ pc'[q] = pc[q] /\ sid'[q] = sid[q] /\ rest'[q] = rest[q]
          /\ todo'[q] = todo[q] /\ item'[q] = item[q] /\ contents' = contents
      BY <1>7 DEF CallType, ApplyCheck, Goto, Return, locals, editVars
    <2>. QED BY <2>1 DEF CallInv
  <1>8. BaselineOK'
    BY <1>s, <1>e DEF BaselineOK, EditType, DocType, ApplyCheck, Goto, Return, locals, editVars, statVars, docVars, history
  <1>. QED BY <1>1, <1>2, <1>3, <1>4, <1>5, <1>6, <1>7, <1>8

LEMMA ApplyAcquireType ==
  ASSUME IInv, NEW p \in Proc, ApplyAcquire(p)
  PROVE  IInv'
  <1> USE TextAssumption, IdAssumption DEF IInv, TypeOK
  <1>s. sid[p] \in SessionId
    BY DEF CallInv, ApplyAcquire
  <1>r. pc[p] \in ApplyPCs
    BY DEF ApplyAcquire, ApplyPCs
  <1>e. /\ Head(rest[p]) \in EditReq /\ Tail(rest[p]) \in Seq(EditReq)
        /\ Head(rest[p]).uri \in URI /\ Head(rest[p]).edit \in Edit
        /\ contents[sid[p]][Head(rest[p]).uri] \in Text \cup {NoText}
        /\ pc[p] \in {"open", "mutate", "send", "record"} =>
             contents[sid[p]][Head(rest[p]).uri] \in Text
    BY <1>r, EditArgs
  <1>1. StatType'
    BY <1>s DEF StatType, Statuses, ApplyAcquire, Goto, Acquire, locals, editVars, statVars, docVars, history
  <1>2. EditType'
    BY DEF EditType, ApplyAcquire, editVars
  <1>3. DocType'
    BY DEF DocType, ApplyAcquire, docVars
  <1>4. CallType'
    BY <1>s, <1>e DEF CallType, PCs, EditType, CallInv, ApplyAcquire, Goto, Acquire, locals, editVars, statVars, docVars, history
  <1>5. HistType'
    BY <1>s DEF HistType, EditType, ApplyAcquire, Goto, Acquire, locals, editVars, statVars, docVars, history
  <1>6. CallInv(p)'
    BY <1>s, <1>e DEF CallInv, ApplyPCs, CallType, EditType, BaselineOK, DocType, ApplyAcquire, Goto, Acquire, locals, editVars, statVars, docVars, history
  <1>7. ASSUME NEW q \in Proc, q # p PROVE CallInv(q)'
    BY <1>7, <1>s, <1>e DEF CallInv, CallType, EditType, DocType, ApplyAcquire, Goto, Acquire, locals, editVars, statVars, docVars, history
  <1>8. BaselineOK'
    BY <1>s, <1>e DEF BaselineOK, EditType, DocType, ApplyAcquire, Goto, Acquire, locals, editVars, statVars, docVars, history
  <1>. QED BY <1>1, <1>2, <1>3, <1>4, <1>5, <1>6, <1>7, <1>8

LEMMA SnapshotType ==
  ASSUME IInv, NEW p \in Proc, Snapshot(p)
  PROVE  IInv'
  <1> USE TextAssumption, IdAssumption DEF IInv, TypeOK
  <1>s. sid[p] \in SessionId
    BY DEF CallInv, Snapshot
  <1>r. pc[p] \in ApplyPCs
    BY DEF Snapshot, ApplyPCs
  <1>e. /\ Head(rest[p]) \in EditReq /\ Tail(rest[p]) \in Seq(EditReq)
        /\ Head(rest[p]).uri \in URI /\ Head(rest[p]).edit \in Edit
        /\ contents[sid[p]][Head(rest[p]).uri] \in Text \cup {NoText}
        /\ pc[p] \in {"open", "mutate", "send", "record"} =>
             contents[sid[p]][Head(rest[p]).uri] \in Text
    BY <1>r, EditArgs
  <1>1. StatType'
    BY <1>s DEF StatType, Statuses, Snapshot, Goto, locals, statVars, docVars, history
  <1>2. EditType'
    <2>1. disk[Head(rest[p]).uri] \in Text
      BY <1>e DEF DocType
    <2>2. contents' \in [SessionId -> [URI -> Text \cup {NoText}]]
      BY <1>s, <1>e, <2>1 DEF EditType, Snapshot
    <2>3. originalContents' \in [SessionId -> [URI -> Text \cup {NoText}]]
      BY <1>s, <1>e, <2>1 DEF EditType, Snapshot
    <2>. QED BY <2>2, <2>3 DEF EditType, Snapshot
  <1>3. DocType'
    BY DEF DocType, Snapshot, docVars
  <1>4. CallType'
    BY <1>s, <1>e DEF CallType, PCs, EditType, CallInv, Snapshot, Goto, locals, statVars, docVars, history
  <1>5. HistType'
    BY <1>s DEF HistType, EditType, Snapshot, Goto, locals, statVars, docVars, history
  <1>6. CallInv(p)'
    BY <1>s, <1>e DEF CallInv, ApplyPCs, CallType, EditType, BaselineOK, DocType, Snapshot, Goto, locals, statVars, docVars, history
  <1>7. ASSUME NEW q \in Proc, q # p PROVE CallInv(q)'
    <2>1. disk[Head(rest[p]).uri] # NoText
      BY <1>e DEF DocType
    <2>2. \A s \in SessionId, f \in URI :
            contents[s][f] # NoText => contents'[s][f] # NoText
      BY <1>s, <1>e, <2>1 DEF EditType, Snapshot
    <2>3. contents'[sid[p]][Head(rest[p]).uri] # NoText
      BY <1>s, <1>e, <2>1 DEF EditType, Snapshot
    <2>4. pc'[q] = pc[q] /\ sid'[q] = sid[q] /\ rest'[q] = rest[q] /\ item'[q] = item[q]
      BY <1>7 DEF CallType, Snapshot, Goto
    <2>5. /\ todo'[q] = todo[q] \/ todo'[q] = todo[q] \cup {Head(rest[p]).uri}
          /\ todo'[q] # todo[q] => sid[q] = sid[p]
      BY DEF Snapshot, Looping
    <2>6. todo[q] \subseteq URI
      BY DEF CallType
    <2>7. pc[q] \in ApplyPCs => Head(rest[q]).uri \in URI
      BY EditArgs
    <2>8. \A f \in todo'[q] : pc[q] \in {"write", "notify"} => contents'[sid[q]][f] # NoText
      BY <2>2, <2>3, <2>5, <2>6 DEF CallInv
    <2>. QED BY <2>2, <2>4, <2>7, <2>8 DEF CallInv, ApplyPCs
  <1>8. BaselineOK'
    BY <1>s, <1>e DEF BaselineOK, EditType, DocType, Snapshot, Goto, locals, statVars, docVars, history
  <1>. QED BY <1>1, <1>2, <1>3, <1>4, <1>5, <1>6, <1>7, <1>8

LEMMA SnapshotFailsType ==
  ASSUME IInv, NEW p \in Proc, SnapshotFails(p)
  PROVE  IInv'
  <1> USE TextAssumption, IdAssumption DEF IInv, TypeOK
  <1>s. sid[p] \in SessionId
    BY DEF CallInv, SnapshotFails
  <1>r. pc[p] \in ApplyPCs
    BY DEF SnapshotFails, ApplyPCs
  <1>e. /\ Head(rest[p]) \in EditReq /\ Tail(rest[p]) \in Seq(EditReq)
        /\ Head(rest[p]).uri \in URI /\ Head(rest[p]).edit \in Edit
        /\ contents[sid[p]][Head(rest[p]).uri] \in Text \cup {NoText}
        /\ pc[p] \in {"open", "mutate", "send", "record"} =>
             contents[sid[p]][Head(rest[p]).uri] \in Text
    BY <1>r, EditArgs
  <1>1. StatType'
    BY <1>s DEF StatType, Statuses, SnapshotFails, Return, MarkDirty, Release, FailDirty, editVars, docVars, history
  <1>2. EditType'
    BY DEF EditType, SnapshotFails, FailDirty, editVars
  <1>3. DocType'
    BY DEF DocType, SnapshotFails, FailDirty, docVars
  <1>4. CallType'
    BY ReturnType DEF SnapshotFails, FailDirty
  <1>5. HistType'
    BY <1>s DEF HistType, EditType, SnapshotFails, Return, MarkDirty, Release, FailDirty, editVars, docVars, history
  <1>6. CallInv(p)'
    BY <1>s, <1>e DEF CallInv, ApplyPCs, CallType, EditType, BaselineOK, DocType, SnapshotFails, Return, MarkDirty, Release, FailDirty, editVars, docVars, history
  <1>7. ASSUME NEW q \in Proc, q # p PROVE CallInv(q)'
    BY <1>7, <1>s, <1>e DEF CallInv, CallType, EditType, DocType, SnapshotFails, Return, MarkDirty, Release, FailDirty, editVars, docVars, history
  <1>8. BaselineOK'
    BY <1>s, <1>e DEF BaselineOK, EditType, DocType, SnapshotFails, Return, MarkDirty, Release, FailDirty, editVars, docVars, history
  <1>. QED BY <1>1, <1>2, <1>3, <1>4, <1>5, <1>6, <1>7, <1>8

LEMMA BaselineOpenType ==
  ASSUME IInv, NEW p \in Proc, BaselineOpen(p)
  PROVE  IInv'
  <1> USE TextAssumption, IdAssumption DEF IInv, TypeOK
  <1>s. sid[p] \in SessionId
    BY DEF CallInv, BaselineOpen
  <1>r. pc[p] \in ApplyPCs
    BY DEF BaselineOpen, ApplyPCs
  <1>e. /\ Head(rest[p]) \in EditReq /\ Tail(rest[p]) \in Seq(EditReq)
        /\ Head(rest[p]).uri \in URI /\ Head(rest[p]).edit \in Edit
        /\ contents[sid[p]][Head(rest[p]).uri] \in Text \cup {NoText}
        /\ pc[p] \in {"open", "mutate", "send", "record"} =>
             contents[sid[p]][Head(rest[p]).uri] \in Text
    BY <1>r, EditArgs
  <1>1. StatType'
    BY <1>s DEF StatType, Statuses, BaselineOpen, Goto, OpenDocument, locals, statVars, history
  <1>2. EditType'
    BY <1>s, <1>e DEF EditType, BaselineOpen, Goto, OpenDocument, locals, statVars, history
  <1>3. DocType'
    <2>1. buffer' = [buffer EXCEPT ![Head(rest[p]).uri] = contents[sid[p]][Head(rest[p]).uri]]
      BY DEF BaselineOpen, OpenDocument
    <2>2. sentBy' = [sentBy EXCEPT ![Head(rest[p]).uri] = @ \cup {sid[p]}]
      BY DEF BaselineOpen, OpenDocument
    <2>. QED BY <1>s, <1>e, <2>1, <2>2 DEF DocType, BaselineOpen
  <1>4. CallType'
    BY <1>s, <1>e DEF CallType, PCs, EditType, CallInv, BaselineOpen, Goto, OpenDocument, locals, statVars, history
  <1>5. HistType'
    BY <1>s DEF HistType, EditType, BaselineOpen, Goto, OpenDocument, locals, statVars, history
  <1>6. CallInv(p)'
    BY <1>s, <1>e DEF CallInv, ApplyPCs, CallType, EditType, BaselineOK, DocType, BaselineOpen, Goto, OpenDocument, locals, statVars, history
  <1>7. ASSUME NEW q \in Proc, q # p PROVE CallInv(q)'
    BY <1>7, <1>s, <1>e DEF CallInv, CallType, EditType, DocType, BaselineOpen, Goto, OpenDocument, locals, statVars, history
  <1>8. BaselineOK'
    BY <1>s, <1>e DEF BaselineOK, EditType, DocType, BaselineOpen, Goto, OpenDocument, locals, statVars, history
  <1>. QED BY <1>1, <1>2, <1>3, <1>4, <1>5, <1>6, <1>7, <1>8

LEMMA BaselineOpenFailsType ==
  ASSUME IInv, NEW p \in Proc, BaselineOpenFails(p)
  PROVE  IInv'
  <1> USE TextAssumption, IdAssumption DEF IInv, TypeOK
  <1>s. sid[p] \in SessionId
    BY DEF CallInv, BaselineOpenFails
  <1>r. pc[p] \in ApplyPCs
    BY DEF BaselineOpenFails, ApplyPCs
  <1>e. /\ Head(rest[p]) \in EditReq /\ Tail(rest[p]) \in Seq(EditReq)
        /\ Head(rest[p]).uri \in URI /\ Head(rest[p]).edit \in Edit
        /\ contents[sid[p]][Head(rest[p]).uri] \in Text \cup {NoText}
        /\ pc[p] \in {"open", "mutate", "send", "record"} =>
             contents[sid[p]][Head(rest[p]).uri] \in Text
    BY <1>r, EditArgs
  <1>1. StatType'
    BY <1>s DEF StatType, Statuses, BaselineOpenFails, Return, MarkDirty, Release, FailDirty, editVars, docVars, history
  <1>2. EditType'
    BY DEF EditType, BaselineOpenFails, FailDirty, editVars
  <1>3. DocType'
    BY DEF DocType, BaselineOpenFails, FailDirty, docVars
  <1>4. CallType'
    BY ReturnType DEF BaselineOpenFails, FailDirty
  <1>5. HistType'
    BY <1>s DEF HistType, EditType, BaselineOpenFails, Return, MarkDirty, Release, FailDirty, editVars, docVars, history
  <1>6. CallInv(p)'
    BY <1>s, <1>e DEF CallInv, ApplyPCs, CallType, EditType, BaselineOK, DocType, BaselineOpenFails, Return, MarkDirty, Release, FailDirty, editVars, docVars, history
  <1>7. ASSUME NEW q \in Proc, q # p PROVE CallInv(q)'
    BY <1>7, <1>s, <1>e DEF CallInv, CallType, EditType, DocType, BaselineOpenFails, Return, MarkDirty, Release, FailDirty, editVars, docVars, history
  <1>8. BaselineOK'
    BY <1>s, <1>e DEF BaselineOK, EditType, DocType, BaselineOpenFails, Return, MarkDirty, Release, FailDirty, editVars, docVars, history
  <1>. QED BY <1>1, <1>2, <1>3, <1>4, <1>5, <1>6, <1>7, <1>8

LEMMA MutateType ==
  ASSUME IInv, NEW p \in Proc, Mutate(p)
  PROVE  IInv'
  <1> USE TextAssumption, IdAssumption DEF IInv, TypeOK
  <1>s. sid[p] \in SessionId
    BY DEF CallInv, Mutate
  <1>r. pc[p] \in ApplyPCs
    BY DEF Mutate, ApplyPCs
  <1>e. /\ Head(rest[p]) \in EditReq /\ Tail(rest[p]) \in Seq(EditReq)
        /\ Head(rest[p]).uri \in URI /\ Head(rest[p]).edit \in Edit
        /\ contents[sid[p]][Head(rest[p]).uri] \in Text \cup {NoText}
        /\ pc[p] \in {"open", "mutate", "send", "record"} =>
             contents[sid[p]][Head(rest[p]).uri] \in Text
    BY <1>r, EditArgs
  <1>1. StatType'
    BY <1>s DEF StatType, Statuses, Mutate, Goto, locals, statVars, docVars, history
  <1>2. EditType'
    <2>1. pc[p] = "mutate"
      BY DEF Mutate
    <2>2. ApplyRangeEdit(contents[sid[p]][Head(rest[p]).uri], Head(rest[p]).edit) \in Text
      BY <1>e, <2>1
    <2>3. contents' \in [SessionId -> [URI -> Text \cup {NoText}]]
      BY <1>s, <1>e, <2>2 DEF EditType, Mutate
    <2>4. versions' \in [SessionId -> [URI -> Nat]]
      BY <1>s, <1>e DEF EditType, Mutate
    <2>. QED BY <2>3, <2>4 DEF EditType, Mutate
  <1>3. DocType'
    BY DEF DocType, Mutate, docVars
  <1>4. CallType'
    BY <1>s, <1>e DEF CallType, PCs, EditType, CallInv, Mutate, Goto, locals, statVars, docVars, history
  <1>5. HistType'
    BY <1>s DEF HistType, EditType, Mutate, Goto, locals, statVars, docVars, history
  <1>6. CallInv(p)'
    BY <1>s, <1>e DEF CallInv, ApplyPCs, CallType, EditType, BaselineOK, DocType, Mutate, Goto, locals, statVars, docVars, history
  <1>7. ASSUME NEW q \in Proc, q # p PROVE CallInv(q)'
    BY <1>7, <1>s, <1>e DEF CallInv, CallType, EditType, DocType, Mutate, Goto, locals, statVars, docVars, history
  <1>8. BaselineOK'
    BY <1>s, <1>e DEF BaselineOK, EditType, DocType, Mutate, Goto, locals, statVars, docVars, history
  <1>. QED BY <1>1, <1>2, <1>3, <1>4, <1>5, <1>6, <1>7, <1>8

LEMMA SendChangeType ==
  ASSUME IInv, NEW p \in Proc, SendChange(p)
  PROVE  IInv'
  <1> USE TextAssumption, IdAssumption DEF IInv, TypeOK
  <1>s. sid[p] \in SessionId
    BY DEF CallInv, SendChange
  <1>r. pc[p] \in ApplyPCs
    BY DEF SendChange, ApplyPCs
  <1>e. /\ Head(rest[p]) \in EditReq /\ Tail(rest[p]) \in Seq(EditReq)
        /\ Head(rest[p]).uri \in URI /\ Head(rest[p]).edit \in Edit
        /\ contents[sid[p]][Head(rest[p]).uri] \in Text \cup {NoText}
        /\ pc[p] \in {"open", "mutate", "send", "record"} =>
             contents[sid[p]][Head(rest[p]).uri] \in Text
    BY <1>r, EditArgs
  <1>1. StatType'
    BY <1>s DEF StatType, Statuses, SendChange, Goto, OpenDocument, locals, editVars, statVars, history
  <1>2. EditType'
    BY DEF EditType, SendChange, editVars
  <1>3. DocType'
    <2>1. buffer' = [buffer EXCEPT ![Head(rest[p]).uri] = contents[sid[p]][Head(rest[p]).uri]]
      BY DEF SendChange, OpenDocument
    <2>2. sentBy' = [sentBy EXCEPT ![Head(rest[p]).uri] = @ \cup {sid[p]}]
      BY DEF SendChange, OpenDocument
    <2>. QED BY <1>s, <1>e, <2>1, <2>2 DEF DocType, SendChange
  <1>4. CallType'
    BY <1>s, <1>e DEF CallType, PCs, EditType, CallInv, SendChange, Goto, OpenDocument, locals, editVars, statVars, history
  <1>5. HistType'
    BY <1>s DEF HistType, EditType, SendChange, Goto, OpenDocument, locals, editVars, statVars, history
  <1>6. CallInv(p)'
    BY <1>s, <1>e DEF CallInv, ApplyPCs, CallType, EditType, BaselineOK, DocType, SendChange, Goto, OpenDocument, locals, editVars, statVars, history
  <1>7. ASSUME NEW q \in Proc, q # p PROVE CallInv(q)'
    BY <1>7, <1>s, <1>e DEF CallInv, CallType, EditType, DocType, SendChange, Goto, OpenDocument, locals, editVars, statVars, history
  <1>8. BaselineOK'
    BY <1>s, <1>e DEF BaselineOK, EditType, DocType, SendChange, Goto, OpenDocument, locals, editVars, statVars, history
  <1>. QED BY <1>1, <1>2, <1>3, <1>4, <1>5, <1>6, <1>7, <1>8

LEMMA SendChangeFailsType ==
  ASSUME IInv, NEW p \in Proc, SendChangeFails(p)
  PROVE  IInv'
  <1> USE TextAssumption, IdAssumption DEF IInv, TypeOK
  <1>s. sid[p] \in SessionId
    BY DEF CallInv, SendChangeFails
  <1>r. pc[p] \in ApplyPCs
    BY DEF SendChangeFails, ApplyPCs
  <1>e. /\ Head(rest[p]) \in EditReq /\ Tail(rest[p]) \in Seq(EditReq)
        /\ Head(rest[p]).uri \in URI /\ Head(rest[p]).edit \in Edit
        /\ contents[sid[p]][Head(rest[p]).uri] \in Text \cup {NoText}
        /\ pc[p] \in {"open", "mutate", "send", "record"} =>
             contents[sid[p]][Head(rest[p]).uri] \in Text
    BY <1>r, EditArgs
  <1>1. StatType'
    BY <1>s DEF StatType, Statuses, SendChangeFails, Return, MarkDirty, Release, FailDirty, editVars, docVars, history
  <1>2. EditType'
    BY DEF EditType, SendChangeFails, FailDirty, editVars
  <1>3. DocType'
    BY DEF DocType, SendChangeFails, FailDirty, docVars
  <1>4. CallType'
    BY ReturnType DEF SendChangeFails, FailDirty
  <1>5. HistType'
    BY <1>s DEF HistType, EditType, SendChangeFails, Return, MarkDirty, Release, FailDirty, editVars, docVars, history
  <1>6. CallInv(p)'
    BY <1>s, <1>e DEF CallInv, ApplyPCs, CallType, EditType, BaselineOK, DocType, SendChangeFails, Return, MarkDirty, Release, FailDirty, editVars, docVars, history
  <1>7. ASSUME NEW q \in Proc, q # p PROVE CallInv(q)'
    BY <1>7, <1>s, <1>e DEF CallInv, CallType, EditType, DocType, SendChangeFails, Return, MarkDirty, Release, FailDirty, editVars, docVars, history
  <1>8. BaselineOK'
    BY <1>s, <1>e DEF BaselineOK, EditType, DocType, SendChangeFails, Return, MarkDirty, Release, FailDirty, editVars, docVars, history
  <1>. QED BY <1>1, <1>2, <1>3, <1>4, <1>5, <1>6, <1>7, <1>8

LEMMA RecordType ==
  ASSUME IInv, NEW p \in Proc, Record(p)
  PROVE  IInv'
  <1> USE TextAssumption, IdAssumption DEF IInv, TypeOK
  <1>s. sid[p] \in SessionId
    BY DEF CallInv, Record
  <1>r. pc[p] \in ApplyPCs
    BY DEF Record, ApplyPCs
  <1>e. /\ Head(rest[p]) \in EditReq /\ Tail(rest[p]) \in Seq(EditReq)
        /\ Head(rest[p]).uri \in URI /\ Head(rest[p]).edit \in Edit
        /\ contents[sid[p]][Head(rest[p]).uri] \in Text \cup {NoText}
        /\ pc[p] \in {"open", "mutate", "send", "record"} =>
             contents[sid[p]][Head(rest[p]).uri] \in Text
    BY <1>r, EditArgs
  <1>1. StatType'
    BY <1>s DEF StatType, Statuses, Record, Goto, Return, SetStatus, Release, docVars, history
  <1>2. EditType'
    <2>1. [uri |-> Head(rest[p]).uri, edit |-> Head(rest[p]).edit,
           version |-> versions[sid[p]][Head(rest[p]).uri]]
             \in [uri : URI, edit : Edit, version : Nat]
      BY <1>s, <1>e DEF EditType
    <2>2. edits[sid[p]] \in Seq([uri : URI, edit : Edit, version : Nat])
      BY <1>s DEF EditType
    <2>3. Append(edits[sid[p]],
                 [uri |-> Head(rest[p]).uri, edit |-> Head(rest[p]).edit,
                  version |-> versions[sid[p]][Head(rest[p]).uri]])
            \in Seq([uri : URI, edit : Edit, version : Nat])
      BY <2>1, <2>2
    <2>4. edits' \in [SessionId -> Seq([uri : URI, edit : Edit, version : Nat])]
      BY <1>s, <2>3 DEF EditType, Record
    <2>. QED BY <2>4 DEF EditType, Record
  <1>3. DocType'
    BY DEF DocType, Record, docVars
  <1>4. CallType'
    <2>1. CASE Return(p)
      BY <2>1, ReturnType
    <2>2. CASE ~Return(p)
      <3>1. /\ pc' = [pc EXCEPT ![p] = "evaluate"]
            /\ rest' = [rest EXCEPT ![p] = Tail(@)]
            /\ UNCHANGED <<op, sid, todo, item>>
        BY <2>2 DEF Record, Goto
      <3>2. pc' \in [Proc -> PCs]
        BY <3>1 DEF CallType, PCs
      <3>3. rest' \in [Proc -> Seq(EditReq)]
        BY <1>e, <3>1 DEF CallType
      <3>. QED BY <3>1, <3>2, <3>3 DEF CallType
    <2>. QED BY <2>1, <2>2
  <1>5. HistType'
    BY <1>s DEF HistType, EditType, Record, Goto, Return, SetStatus, Release, docVars, history
  <1>6. CallInv(p)'
    BY <1>s, <1>e DEF CallInv, ApplyPCs, CallType, EditType, BaselineOK, DocType, Record, Goto, Return, SetStatus, Release, docVars, history
  <1>7. ASSUME NEW q \in Proc, q # p PROVE CallInv(q)'
    <2>1. /\ pc'[q] = pc[q] /\ sid'[q] = sid[q] /\ rest'[q] = rest[q]
          /\ todo'[q] = todo[q] /\ item'[q] = item[q]
      BY <1>7 DEF CallType, Record, Goto, Return, SetStatus, Release, docVars, history
    <2>. QED BY <1>7, <2>1 DEF CallInv, Record, editVars
  <1>8. BaselineOK'
    BY <1>s, <1>e DEF BaselineOK, EditType, DocType, Record, Goto, Return, SetStatus, Release, docVars, history
  <1>. QED BY <1>1, <1>2, <1>3, <1>4, <1>5, <1>6, <1>7, <1>8

LEMMA EvaluateCheckType ==
  ASSUME IInv, NEW p \in Proc, EvaluateCheck(p)
  PROVE  IInv'
  <1> USE TextAssumption, IdAssumption DEF IInv, TypeOK
  <1>s. sid[p] \in SessionId
    BY DEF CallInv, EvaluateCheck
  <1>1. StatType'
    BY <1>s DEF StatType, Statuses, EvaluateCheck, Goto, Return, locals, editVars, statVars, docVars, history
  <1>2. EditType'
    BY DEF EditType, EvaluateCheck, editVars
  <1>3. DocType'
    BY DEF DocType, EvaluateCheck, docVars
  <1>4. CallType'
    <2>1. CASE Return(p)
      BY <2>1, ReturnType
    <2>2. CASE Goto(p, "evalAcquire") /\ UNCHANGED locals
      BY <2>2, GotoType DEF PCs
    <2>. QED BY <2>1, <2>2 DEF EvaluateCheck
  <1>5. HistType'
    BY <1>s DEF HistType, EditType, EvaluateCheck, Goto, Return, locals, editVars, statVars, docVars, history
  <1>6. CallInv(p)'
    BY <1>s DEF CallInv, ApplyPCs, CallType, EditType, BaselineOK, DocType, EvaluateCheck, Goto, Return, locals, editVars, statVars, docVars, history
  <1>7. ASSUME NEW q \in Proc, q # p PROVE CallInv(q)'
    BY <1>7, <1>s DEF CallInv, CallType, EditType, DocType, EvaluateCheck, Goto, Return, locals, editVars, statVars, docVars, history
  <1>8. BaselineOK'
    BY <1>s DEF BaselineOK, EditType, DocType, EvaluateCheck, Goto, Return, locals, editVars, statVars, docVars, history
  <1>. QED BY <1>1, <1>2, <1>3, <1>4, <1>5, <1>6, <1>7, <1>8

LEMMA EvaluateAcquireType ==
  ASSUME IInv, NEW p \in Proc, EvaluateAcquire(p)
  PROVE  IInv'
  <1> USE TextAssumption, IdAssumption DEF IInv, TypeOK
  <1>s. sid[p] \in SessionId
    BY DEF CallInv, EvaluateAcquire
  <1>1. StatType'
    BY <1>s DEF StatType, Statuses, EvaluateAcquire, Goto, SetStatus, Acquire, locals, editVars, docVars, history
  <1>2. EditType'
    BY DEF EditType, EvaluateAcquire, editVars
  <1>3. DocType'
    BY DEF DocType, EvaluateAcquire, docVars
  <1>4. CallType'
    BY <1>s DEF CallType, PCs, EditType, CallInv, EvaluateAcquire, Goto, SetStatus, Acquire, locals, editVars, docVars, history
  <1>5. HistType'
    BY <1>s DEF HistType, EditType, EvaluateAcquire, Goto, SetStatus, Acquire, locals, editVars, docVars, history
  <1>6. CallInv(p)'
    BY <1>s DEF CallInv, ApplyPCs, CallType, EditType, BaselineOK, DocType, EvaluateAcquire, Goto, SetStatus, Acquire, locals, editVars, docVars, history
  <1>7. ASSUME NEW q \in Proc, q # p PROVE CallInv(q)'
    BY <1>7, <1>s DEF CallInv, CallType, EditType, DocType, EvaluateAcquire, Goto, SetStatus, Acquire, locals, editVars, docVars, history
  <1>8. BaselineOK'
    BY <1>s DEF BaselineOK, EditType, DocType, EvaluateAcquire, Goto, SetStatus, Acquire, locals, editVars, docVars, history
  <1>. QED BY <1>1, <1>2, <1>3, <1>4, <1>5, <1>6, <1>7, <1>8

LEMMA EvaluateDoneType ==
  ASSUME IInv, NEW p \in Proc, EvaluateDone(p)
  PROVE  IInv'
  <1> USE TextAssumption, IdAssumption DEF IInv, TypeOK
  <1>s. sid[p] \in SessionId
    BY DEF CallInv, EvaluateDone
  <1>1. StatType'
    BY <1>s DEF StatType, Statuses, EvaluateDone, Goto, Return, SetStatus, Release, locals, editVars, docVars, history
  <1>2. EditType'
    BY DEF EditType, EvaluateDone, editVars
  <1>3. DocType'
    BY DEF DocType, EvaluateDone, docVars
  <1>4. CallType'
    <2>1. CASE Return(p)
      BY <2>1, ReturnType
    <2>2. CASE Goto(p, "apply") /\ UNCHANGED locals
      BY <2>2, GotoType DEF PCs
    <2>. QED BY <2>1, <2>2 DEF EvaluateDone
  <1>5. HistType'
    BY <1>s DEF HistType, EditType, EvaluateDone, Goto, Return, SetStatus, Release, locals, editVars, docVars, history
  <1>6. CallInv(p)'
    BY <1>s DEF CallInv, ApplyPCs, CallType, EditType, BaselineOK, DocType, EvaluateDone, Goto, Return, SetStatus, Release, locals, editVars, docVars, history
  <1>7. ASSUME NEW q \in Proc, q # p PROVE CallInv(q)'
    BY <1>7, <1>s DEF CallInv, CallType, EditType, DocType, EvaluateDone, Goto, Return, SetStatus, Release, locals, editVars, docVars, history
  <1>8. BaselineOK'
    BY <1>s DEF BaselineOK, EditType, DocType, EvaluateDone, Goto, Return, SetStatus, Release, locals, editVars, docVars, history
  <1>. QED BY <1>1, <1>2, <1>3, <1>4, <1>5, <1>6, <1>7, <1>8

LEMMA AcquireCancelledType ==
  ASSUME IInv, NEW p \in Proc, AcquireCancelled(p)
  PROVE  IInv'
  <1> USE TextAssumption, IdAssumption DEF IInv, TypeOK
  <1>s. sid[p] \in SessionId
    BY DEF CallInv, AcquireCancelled
  <1>1. StatType'
    BY <1>s DEF StatType, Statuses, AcquireCancelled, Return, editVars, statVars, docVars, history
  <1>2. EditType'
    BY DEF EditType, AcquireCancelled, editVars
  <1>3. DocType'
    BY DEF DocType, AcquireCancelled, docVars
  <1>4. CallType'
    BY ReturnType DEF AcquireCancelled
  <1>5. HistType'
    BY <1>s DEF HistType, EditType, AcquireCancelled, Return, editVars, statVars, docVars, history
  <1>6. CallInv(p)'
    BY <1>s DEF CallInv, ApplyPCs, CallType, EditType, BaselineOK, DocType, AcquireCancelled, Return, editVars, statVars, docVars, history
  <1>7. ASSUME NEW q \in Proc, q # p PROVE CallInv(q)'
    BY <1>7, <1>s DEF CallInv, CallType, EditType, DocType, AcquireCancelled, Return, editVars, statVars, docVars, history
  <1>8. BaselineOK'
    BY <1>s DEF BaselineOK, EditType, DocType, AcquireCancelled, Return, editVars, statVars, docVars, history
  <1>. QED BY <1>1, <1>2, <1>3, <1>4, <1>5, <1>6, <1>7, <1>8

LEMMA CommitCheckType ==
  ASSUME IInv, NEW p \in Proc, CommitCheck(p)
  PROVE  IInv'
  <1> USE TextAssumption, IdAssumption DEF IInv, TypeOK
  <1>s. sid[p] \in SessionId
    BY DEF CallInv, CommitCheck
  <1>1. StatType'
    BY <1>s DEF StatType, Statuses, CommitCheck, Goto, Return, editVars, statVars, docVars, Touched
  <1>2. EditType'
    BY DEF EditType, CommitCheck, editVars
  <1>3. DocType'
    BY DEF DocType, CommitCheck, docVars
  <1>4. CallType'
    <2>1. CASE Return(p)
      BY <2>1, ReturnType
    <2>2. CASE ~Return(p)
      <3>1. /\ pc' = [pc EXCEPT ![p] = "write"]
            /\ op' = op /\ sid' = sid /\ rest' = rest /\ item' = item
        BY <2>2 DEF CommitCheck, Goto
      <3>2. PICK apply \in BOOLEAN :
              todo' = [todo EXCEPT ![p] = IF apply THEN Touched(sid[p]) ELSE {}]
        BY <2>2 DEF CommitCheck
      <3>3. todo' \in [Proc -> SUBSET URI]
        BY <3>2 DEF CallType, Touched
      <3>. QED BY <3>1, <3>3 DEF CallType, PCs
    <2>. QED BY <2>1, <2>2
  <1>5. HistType'
    BY <1>s DEF HistType, EditType, CommitCheck, Goto, Return, editVars, statVars, docVars, Touched
  <1>6. CallInv(p)'
    BY <1>s DEF CallInv, ApplyPCs, CallType, EditType, BaselineOK, DocType, CommitCheck, Goto, Return, editVars, statVars, docVars, Touched
  <1>7. ASSUME NEW q \in Proc, q # p PROVE CallInv(q)'
    BY <1>7, <1>s DEF CallInv, CallType, EditType, DocType, CommitCheck, Goto, Return, editVars, statVars, docVars, Touched
  <1>8. BaselineOK'
    BY <1>s DEF BaselineOK, EditType, DocType, CommitCheck, Goto, Return, editVars, statVars, docVars, Touched
  <1>. QED BY <1>1, <1>2, <1>3, <1>4, <1>5, <1>6, <1>7, <1>8

LEMMA CommitWriteType ==
  ASSUME IInv, NEW p \in Proc, CommitWrite(p)
  PROVE  IInv'
  <1> USE TextAssumption, IdAssumption DEF IInv, TypeOK
  <1>s. sid[p] \in SessionId
    BY DEF CallInv, CommitWrite
  <1>1. StatType'
    BY <1>s DEF StatType, Statuses, CommitWrite, Goto, editVars, statVars, history
  <1>2. EditType'
    BY DEF EditType, CommitWrite, editVars
  <1>3. DocType'
    BY <1>s DEF DocType, EditType, CallType, CallInv, CommitWrite, Goto, editVars, statVars, history
  <1>4. CallType'
    BY <1>s DEF CallType, PCs, EditType, CallInv, CommitWrite, Goto, editVars, statVars, history
  <1>5. HistType'
    BY <1>s DEF HistType, EditType, CommitWrite, Goto, editVars, statVars, history
  <1>6. CallInv(p)'
    BY <1>s DEF CallInv, ApplyPCs, CallType, EditType, BaselineOK, DocType, CommitWrite, Goto, editVars, statVars, history
  <1>7. ASSUME NEW q \in Proc, q # p PROVE CallInv(q)'
    BY <1>7, <1>s DEF CallInv, CallType, EditType, DocType, CommitWrite, Goto, editVars, statVars, history
  <1>8. BaselineOK'
    BY <1>s DEF BaselineOK, EditType, DocType, CommitWrite, Goto, editVars, statVars, history
  <1>. QED BY <1>1, <1>2, <1>3, <1>4, <1>5, <1>6, <1>7, <1>8

LEMMA CommitWriteFailsType ==
  ASSUME IInv, NEW p \in Proc, CommitWriteFails(p)
  PROVE  IInv'
  <1> USE TextAssumption, IdAssumption DEF IInv, TypeOK
  <1>s. sid[p] \in SessionId
    BY DEF CallInv, CommitWriteFails
  <1>1. StatType'
    BY <1>s DEF StatType, Statuses, CommitWriteFails, Return, MarkDirty, editVars, history
  <1>2. EditType'
    BY DEF EditType, CommitWriteFails, editVars
  <1>3. DocType'
    BY <1>s DEF DocType, EditType, CallType, CallInv, CommitWriteFails, Return, MarkDirty, editVars, history
  <1>4. CallType'
    BY ReturnType DEF CommitWriteFails
  <1>5. HistType'
    BY <1>s DEF HistType, EditType, CommitWriteFails, Return, MarkDirty, editVars, history
  <1>6. CallInv(p)'
    BY <1>s DEF CallInv, ApplyPCs, CallType, EditType, BaselineOK, DocType, CommitWriteFails, Return, MarkDirty, editVars, history
  <1>7. ASSUME NEW q \in Proc, q # p PROVE CallInv(q)'
    BY <1>7, <1>s DEF CallInv, CallType, EditType, DocType, CommitWriteFails, Return, MarkDirty, editVars, history
  <1>8. BaselineOK'
    BY <1>s DEF BaselineOK, EditType, DocType, CommitWriteFails, Return, MarkDirty, editVars, history
  <1>. QED BY <1>1, <1>2, <1>3, <1>4, <1>5, <1>6, <1>7, <1>8

LEMMA CommitNotifyType ==
  ASSUME IInv, NEW p \in Proc, CommitNotify(p)
  PROVE  IInv'
  <1> USE TextAssumption, IdAssumption DEF IInv, TypeOK
  <1>s. sid[p] \in SessionId
    BY DEF CallInv, CommitNotify
  <1>1. StatType'
    BY <1>s DEF StatType, Statuses, CommitNotify, Goto, MarkDirty, OpenDocument, editVars, history
  <1>2. EditType'
    BY DEF EditType, CommitNotify, editVars
  <1>3. DocType'
    <2>1. item[p].uri \in URI /\ item[p].text \in Text
      BY DEF CallInv, CommitNotify
    <2>2. PICK ok \in BOOLEAN : OpenDocument(sid[p], item[p].uri, item[p].text, ok)
      BY DEF CommitNotify
    <2>3. CASE ok
      <3>1. /\ buffer' = [buffer EXCEPT ![item[p].uri] = item[p].text]
            /\ sentBy' = [sentBy EXCEPT ![item[p].uri] = @ \cup {sid[p]}]
        BY <2>2, <2>3 DEF OpenDocument
      <3>. QED BY <1>s, <2>1, <3>1 DEF DocType, CommitNotify
    <2>4. CASE ~ok
      BY <2>2, <2>4 DEF OpenDocument, DocType, CommitNotify
    <2>. QED BY <2>3, <2>4
  <1>4. CallType'
    BY <1>s DEF CallType, PCs, EditType, CallInv, CommitNotify, Goto, MarkDirty, OpenDocument, editVars, history
  <1>5. HistType'
    BY <1>s DEF HistType, EditType, CommitNotify, Goto, MarkDirty, OpenDocument, editVars, history
  <1>6. CallInv(p)'
    BY <1>s DEF CallInv, ApplyPCs, CallType, EditType, BaselineOK, DocType, CommitNotify, Goto, MarkDirty, OpenDocument, editVars, history
  <1>7. ASSUME NEW q \in Proc, q # p PROVE CallInv(q)'
    BY <1>7, <1>s DEF CallInv, CallType, EditType, DocType, CommitNotify, Goto, MarkDirty, OpenDocument, editVars, history
  <1>8. BaselineOK'
    BY <1>s DEF BaselineOK, EditType, DocType, CommitNotify, Goto, MarkDirty, OpenDocument, editVars, history
  <1>. QED BY <1>1, <1>2, <1>3, <1>4, <1>5, <1>6, <1>7, <1>8

LEMMA CommitDoneType ==
  ASSUME IInv, NEW p \in Proc, CommitDone(p)
  PROVE  IInv'
  <1> USE TextAssumption, IdAssumption DEF IInv, TypeOK
  <1>s. sid[p] \in SessionId
    BY DEF CallInv, CommitDone
  <1>1. StatType'
    BY <1>s DEF StatType, Statuses, CommitDone, Return, SetStatus, editVars, docVars, history
  <1>2. EditType'
    BY DEF EditType, CommitDone, editVars
  <1>3. DocType'
    BY DEF DocType, CommitDone, docVars
  <1>4. CallType'
    BY ReturnType DEF CommitDone
  <1>5. HistType'
    BY <1>s DEF HistType, EditType, CommitDone, Return, SetStatus, editVars, docVars, history
  <1>6. CallInv(p)'
    BY <1>s DEF CallInv, ApplyPCs, CallType, EditType, BaselineOK, DocType, CommitDone, Return, SetStatus, editVars, docVars, history
  <1>7. ASSUME NEW q \in Proc, q # p PROVE CallInv(q)'
    BY <1>7, <1>s DEF CallInv, CallType, EditType, DocType, CommitDone, Return, SetStatus, editVars, docVars, history
  <1>8. BaselineOK'
    BY <1>s DEF BaselineOK, EditType, DocType, CommitDone, Return, SetStatus, editVars, docVars, history
  <1>. QED BY <1>1, <1>2, <1>3, <1>4, <1>5, <1>6, <1>7, <1>8

LEMMA DiscardCheckType ==
  ASSUME IInv, NEW p \in Proc, DiscardCheck(p)
  PROVE  IInv'
  <1> USE TextAssumption, IdAssumption DEF IInv, TypeOK
  <1>s. sid[p] \in SessionId
    BY DEF CallInv, DiscardCheck
  <1>1. StatType'
    BY <1>s DEF StatType, Statuses, DiscardCheck, Goto, Return, locals, editVars, statVars, docVars, history
  <1>2. EditType'
    BY DEF EditType, DiscardCheck, editVars
  <1>3. DocType'
    BY DEF DocType, DiscardCheck, docVars
  <1>4. CallType'
    <2>1. CASE Return(p)
      BY <2>1, ReturnType
    <2>2. CASE Goto(p, "discardAcquire") /\ UNCHANGED locals
      BY <2>2, GotoType DEF PCs
    <2>. QED BY <2>1, <2>2 DEF DiscardCheck
  <1>5. HistType'
    BY <1>s DEF HistType, EditType, DiscardCheck, Goto, Return, locals, editVars, statVars, docVars, history
  <1>6. CallInv(p)'
    BY <1>s DEF CallInv, ApplyPCs, CallType, EditType, BaselineOK, DocType, DiscardCheck, Goto, Return, locals, editVars, statVars, docVars, history
  <1>7. ASSUME NEW q \in Proc, q # p PROVE CallInv(q)'
    <2>1. /\ pc'[q] = pc[q] /\ sid'[q] = sid[q] /\ rest'[q] = rest[q]
          /\ todo'[q] = todo[q] /\ item'[q] = item[q]
      BY <1>7 DEF CallType, DiscardCheck, Goto, Return, locals, editVars, statVars, docVars, history
    <2>. QED BY <1>7, <2>1 DEF CallInv, DiscardCheck, editVars
  <1>8. BaselineOK'
    BY <1>s DEF BaselineOK, EditType, DocType, DiscardCheck, Goto, Return, locals, editVars, statVars, docVars, history
  <1>. QED BY <1>1, <1>2, <1>3, <1>4, <1>5, <1>6, <1>7, <1>8

LEMMA DiscardAcquireType ==
  ASSUME IInv, NEW p \in Proc, DiscardAcquire(p)
  PROVE  IInv'
  <1> USE TextAssumption, IdAssumption DEF IInv, TypeOK
  <1>s. sid[p] \in SessionId
    BY DEF CallInv, DiscardAcquire
  <1>1. StatType'
    BY <1>s DEF StatType, Statuses, DiscardAcquire, Goto, Acquire, editVars, statVars, docVars, history, Touched
  <1>2. EditType'
    BY DEF EditType, DiscardAcquire, editVars
  <1>3. DocType'
    BY DEF DocType, DiscardAcquire, docVars
  <1>4. CallType'
    BY <1>s DEF CallType, PCs, EditType, CallInv, DiscardAcquire, Goto, Acquire, editVars, statVars, docVars, history, Touched
  <1>5. HistType'
    BY <1>s DEF HistType, EditType, DiscardAcquire, Goto, Acquire, editVars, statVars, docVars, history, Touched
  <1>6. CallInv(p)'
    BY <1>s DEF CallInv, ApplyPCs, CallType, EditType, BaselineOK, DocType, DiscardAcquire, Goto, Acquire, editVars, statVars, docVars, history, Touched
  <1>7. ASSUME NEW q \in Proc, q # p PROVE CallInv(q)'
    BY <1>7, <1>s DEF CallInv, CallType, EditType, DocType, DiscardAcquire, Goto, Acquire, editVars, statVars, docVars, history, Touched
  <1>8. BaselineOK'
    BY <1>s DEF BaselineOK, EditType, DocType, DiscardAcquire, Goto, Acquire, editVars, statVars, docVars, history, Touched
  <1>. QED BY <1>1, <1>2, <1>3, <1>4, <1>5, <1>6, <1>7, <1>8

LEMMA DiscardRevertType ==
  ASSUME IInv, NEW p \in Proc, DiscardRevert(p)
  PROVE  IInv'
  <1> USE TextAssumption, IdAssumption DEF IInv, TypeOK
  <1>s. sid[p] \in SessionId
    BY DEF CallInv, DiscardRevert
  <1>1. StatType'
    BY <1>s DEF StatType, Statuses, DiscardRevert, OpenDocument, editVars, statVars, history
  <1>2. EditType'
    BY DEF EditType, DiscardRevert, editVars
  <1>3. DocType'
    <2>1. PICK f \in todo[p] : OpenDocument(sid[p], f, originalContents[sid[p]][f], TRUE)
      BY DEF DiscardRevert
    <2>2. f \in URI /\ originalContents[sid[p]][f] \in Text \cup {NoText}
      BY <1>s, <2>1 DEF CallType, EditType
    <2>3. /\ buffer' = [buffer EXCEPT ![f] = originalContents[sid[p]][f]]
          /\ sentBy' = [sentBy EXCEPT ![f] = @ \cup {sid[p]}]
      BY <2>1 DEF OpenDocument
    <2>. QED BY <1>s, <2>2, <2>3 DEF DocType, DiscardRevert
  <1>4. CallType'
    BY <1>s DEF CallType, PCs, EditType, CallInv, DiscardRevert, OpenDocument, editVars, statVars, history
  <1>5. HistType'
    BY <1>s DEF HistType, EditType, DiscardRevert, OpenDocument, editVars, statVars, history
  <1>6. CallInv(p)'
    BY <1>s DEF CallInv, ApplyPCs, CallType, EditType, BaselineOK, DocType, DiscardRevert, OpenDocument, editVars, statVars, history
  <1>7. ASSUME NEW q \in Proc, q # p PROVE CallInv(q)'
    BY <1>7, <1>s DEF CallInv, CallType, EditType, DocType, DiscardRevert, OpenDocument, editVars, statVars, history
  <1>8. BaselineOK'
    BY <1>s DEF BaselineOK, EditType, DocType, DiscardRevert, OpenDocument, editVars, statVars, history
  <1>. QED BY <1>1, <1>2, <1>3, <1>4, <1>5, <1>6, <1>7, <1>8

LEMMA DiscardRevertFailsType ==
  ASSUME IInv, NEW p \in Proc, DiscardRevertFails(p)
  PROVE  IInv'
  <1> USE TextAssumption, IdAssumption DEF IInv, TypeOK
  <1>s. sid[p] \in SessionId
    BY DEF CallInv, DiscardRevertFails
  <1>1. StatType'
    BY <1>s DEF StatType, Statuses, DiscardRevertFails, Return, MarkDirty, Release, FailDirty, editVars, docVars, history
  <1>2. EditType'
    BY DEF EditType, DiscardRevertFails, FailDirty, editVars
  <1>3. DocType'
    BY DEF DocType, DiscardRevertFails, FailDirty, docVars
  <1>4. CallType'
    BY ReturnType DEF DiscardRevertFails, FailDirty
  <1>5. HistType'
    BY <1>s DEF HistType, EditType, DiscardRevertFails, Return, MarkDirty, Release, FailDirty, editVars, docVars, history
  <1>6. CallInv(p)'
    BY <1>s DEF CallInv, ApplyPCs, CallType, EditType, BaselineOK, DocType, DiscardRevertFails, Return, MarkDirty, Release, FailDirty, editVars, docVars, history
  <1>7. ASSUME NEW q \in Proc, q # p PROVE CallInv(q)'
    BY <1>7, <1>s DEF CallInv, CallType, EditType, DocType, DiscardRevertFails, Return, MarkDirty, Release, FailDirty, editVars, docVars, history
  <1>8. BaselineOK'
    BY <1>s DEF BaselineOK, EditType, DocType, DiscardRevertFails, Return, MarkDirty, Release, FailDirty, editVars, docVars, history
  <1>. QED BY <1>1, <1>2, <1>3, <1>4, <1>5, <1>6, <1>7, <1>8

LEMMA DiscardDoneType ==
  ASSUME IInv, NEW p \in Proc, DiscardDone(p)
  PROVE  IInv'
  <1> USE TextAssumption, IdAssumption DEF IInv, TypeOK
  <1>s. sid[p] \in SessionId
    BY DEF CallInv, DiscardDone
  <1>1. StatType'
    BY <1>s DEF StatType, Statuses, DiscardDone, Return, SetStatus, Release, editVars, docVars
  <1>2. EditType'
    BY DEF EditType, DiscardDone, editVars
  <1>3. DocType'
    BY DEF DocType, DiscardDone, docVars
  <1>4. CallType'
    BY ReturnType DEF DiscardDone
  <1>5. HistType'
    BY <1>s DEF HistType, EditType, DiscardDone, Return, SetStatus, Release, editVars, docVars
  <1>6. CallInv(p)'
    BY <1>s DEF CallInv, ApplyPCs, CallType, EditType, BaselineOK, DocType, DiscardDone, Return, SetStatus, Release, editVars, docVars
  <1>7. ASSUME NEW q \in Proc, q # p PROVE CallInv(q)'
    BY <1>7, <1>s DEF CallInv, CallType, EditType, DocType, DiscardDone, Return, SetStatus, Release, editVars, docVars
  <1>8. BaselineOK'
    BY <1>s DEF BaselineOK, EditType, DocType, DiscardDone, Return, SetStatus, Release, editVars, docVars
  <1>. QED BY <1>1, <1>2, <1>3, <1>4, <1>5, <1>6, <1>7, <1>8

LEMMA DestroyType ==
  ASSUME IInv, NEW p \in Proc, Destroy(p)
  PROVE  IInv'
  <1> USE TextAssumption, IdAssumption DEF IInv, TypeOK
  <1>s. sid[p] \in SessionId
    BY DEF CallInv, Destroy
  <1>1. StatType'
    BY <1>s DEF StatType, Statuses, Destroy, Return, SetStatus, editVars, docVars, history
  <1>2. EditType'
    BY DEF EditType, Destroy, editVars
  <1>3. DocType'
    BY DEF DocType, Destroy, docVars
  <1>4. CallType'
    BY ReturnType DEF Destroy
  <1>5. HistType'
    BY <1>s DEF HistType, EditType, Destroy, Return, SetStatus, editVars, docVars, history
  <1>6. CallInv(p)'
    BY <1>s DEF CallInv, ApplyPCs, CallType, EditType, BaselineOK, DocType, Destroy, Return, SetStatus, editVars, docVars, history
  <1>7. ASSUME NEW q \in Proc, q # p PROVE CallInv(q)'
    BY <1>7, <1>s DEF CallInv, CallType, EditType, DocType, Destroy, Return, SetStatus, editVars, docVars, history
  <1>8. BaselineOK'
    BY <1>s DEF BaselineOK, EditType, DocType, Destroy, Return, SetStatus, editVars, docVars, history
  <1>. QED BY <1>1, <1>2, <1>3, <1>4, <1>5, <1>6, <1>7, <1>8

LEMMA CreateSessionType ==
  ASSUME IInv, NEW s \in SessionId, CreateSession(s)
  PROVE  IInv'
  BY DEF IInv, TypeOK, StatType, EditType, DocType, CallType, HistType, BaselineOK,
         CallInv, CreateSession, editVars, docVars, callVars, history

LEMMA ExternalWriteType ==
  ASSUME IInv, NEW f \in URI, ExternalWrite(f)
  PROVE  IInv'
  <1>1. PICK t \in ExternalText : disk' = [disk EXCEPT ![f] = t]
    BY DEF ExternalWrite
  <1>2. DocType'
    BY <1>1, TextAssumption DEF IInv, TypeOK, DocType, ExternalWrite
  <1>. QED BY <1>2 DEF IInv, TypeOK, StatType, EditType, CallType, HistType, BaselineOK,
       CallInv, ExternalWrite, statVars, editVars, callVars, history

LEMMA CallKeepsType ==
  ASSUME IInv, NEW p \in Proc, NEW s \in SessionId, NEW o \in Ops,
         NEW l \in {"apply", "evaluate", "commit", "discard", "destroying"},
         NEW reqs \in Seq(EditReq), l = "apply" => reqs # <<>>,
         Call(p, s, o, l, reqs)
  PROVE  IInv'
  <1> USE DEF IInv, TypeOK, Call
  <1>1. StatType' /\ EditType' /\ DocType'
    BY DEF StatType, EditType, DocType, statVars, editVars, docVars
  <1>2. CallType'
    BY DEF CallType, PCs
  <1>3. HistType'
    BY DEF HistType, history
  <1>4. CallInv(p)'
    BY DEF CallInv, CallType, ApplyPCs
  <1>5. ASSUME NEW q \in Proc, q # p PROVE CallInv(q)'
    BY <1>5 DEF CallInv, CallType, editVars
  <1>6. BaselineOK'
    BY DEF BaselineOK, editVars
  <1>. QED BY <1>1, <1>2, <1>3, <1>4, <1>5, <1>6

LEMMA NewCallType ==
  ASSUME IInv, NEW p \in Proc, NewCall(p)
  PROVE  IInv'
  <1>1. CASE CallApplyEdit(p)
    <2>1. PICK s \in SessionId, r \in EditReq : Call(p, s, "ApplyEdit", "apply", <<r>>)
      BY <1>1 DEF CallApplyEdit
    <2>2. <<r>> \in Seq(EditReq) /\ <<r>> # <<>>
      OBVIOUS
    <2>. QED BY <2>1, <2>2, CallKeepsType DEF Ops
  <1>2. CASE CallSimulateChain(p)
    <2>1. PICK s \in SessionId, reqs \in [1..ChainLen -> EditReq] :
            Call(p, s, "SimulateChain", "apply", reqs)
      BY <1>2 DEF CallSimulateChain
    <2>2. reqs \in Seq(EditReq) /\ reqs # <<>>
      BY BoundAssumption, SeqDef
    <2>. QED BY <2>1, <2>2, CallKeepsType DEF Ops
  <1>3. <<>> \in Seq(EditReq)
    OBVIOUS
  <1>4. CASE CallEvaluate(p) \/ CallCommit(p) \/ CallDiscard(p) \/ CallDestroy(p)
    BY <1>3, <1>4, CallKeepsType
    DEF CallEvaluate, CallCommit, CallDiscard, CallDestroy, Ops
  <1>. QED BY <1>1, <1>2, <1>4 DEF NewCall

LEMMA InitType == Init => IInv
  BY TextAssumption, IdAssumption
  DEF Init, IInv, TypeOK, StatType, EditType, DocType, CallType, HistType,
      CallInv, BaselineOK, ApplyPCs, Statuses, PCs, Ops

LEMMA NextType == IInv /\ [Next]_vars => IInv'
  <1> SUFFICES ASSUME IInv, [Next]_vars PROVE IInv'
    OBVIOUS
  <1>1. ASSUME NEW s \in SessionId, CreateSession(s) PROVE IInv'
    BY <1>1, CreateSessionType
  <1>2. ASSUME NEW f \in URI, ExternalWrite(f) PROVE IInv'
    BY <1>2, ExternalWriteType
  <1>3. ASSUME NEW p \in Proc, NewCall(p) PROVE IInv'
    BY <1>3, NewCallType
  <1>4. ASSUME NEW p \in Proc, Step(p) \/ AcquireStep(p) \/ AcquireCancelled(p)
        PROVE  IInv'
    BY <1>4, ApplyCheckType, ApplyAcquireType, SnapshotType, SnapshotFailsType, BaselineOpenType, BaselineOpenFailsType, MutateType,
       SendChangeType, SendChangeFailsType, RecordType, EvaluateCheckType, EvaluateAcquireType, EvaluateDoneType, AcquireCancelledType,
       CommitCheckType, CommitWriteType, CommitWriteFailsType, CommitNotifyType, CommitDoneType,
       DiscardCheckType, DiscardAcquireType, DiscardRevertType, DiscardRevertFailsType, DiscardDoneType, DestroyType
    DEF Step, AcquireStep
  <1>5. CASE UNCHANGED vars
    BY <1>5 DEF vars, IInv, TypeOK, StatType, EditType, DocType, CallType, HistType,
       CallInv, BaselineOK, statVars, editVars, docVars, callVars, history
  <1>. QED BY <1>1, <1>2, <1>3, <1>4, <1>5 DEF Next

\* Every variable keeps the type its Go field has, and IInv holds: in particular
\* Commit only writes texts the session holds.
THEOREM TypeCorrect == Spec => [](TypeOK /\ IInv)
  <1>1. IInv => TypeOK
    BY DEF IInv
  <1>. QED BY InitType, NextType, <1>1, PTL DEF Spec

-----------------------------------------------------------------------------
(* Mutual exclusion *)

\* a step that neither takes nor gives back a semaphore, and moves p only
\* between positions on the same side of Acquire
LEMMA LockFrame ==
  ASSUME IInv, ExecutorMutex, NEW p \in Proc,
         sessionLocks' = sessionLocks,
         \A q \in Proc \ {p} : pc'[q] = pc[q] /\ sid'[q] = sid[q],
         pc[p] \in Critical <=> pc'[p] \in Critical,
         pc[p] \in Critical => sid'[p] = sid[p]
  PROVE  ExecutorMutex'
  BY DEF ExecutorMutex, Holds

\* a step that takes the semaphore of p's session
LEMMA LockTaken ==
  ASSUME IInv, ExecutorMutex, NEW p \in Proc, pc[p] \notin Critical,
         sid[p] \in SessionId, Acquire(sid[p], p),
         \A q \in Proc \ {p} : pc'[q] = pc[q] /\ sid'[q] = sid[q],
         pc'[p] \in Critical, sid'[p] = sid[p]
  PROVE  ExecutorMutex'
  BY IdAssumption DEF ExecutorMutex, Holds, Acquire, IInv, TypeOK, StatType

\* a step that gives it back
LEMMA LockGiven ==
  ASSUME IInv, ExecutorMutex, NEW p \in Proc, pc[p] \in Critical,
         sid[p] \in SessionId, Release(sid[p]),
         \A q \in Proc \ {p} : pc'[q] = pc[q] /\ sid'[q] = sid[q],
         pc'[p] \notin Critical
  PROVE  ExecutorMutex'
  BY IdAssumption DEF ExecutorMutex, Holds, Release, IInv, TypeOK, StatType

\* a call's step moves no other call
LEMMA OthersStay ==
  ASSUME IInv, NEW p \in Proc,
         NewCall(p) \/ Step(p) \/ AcquireStep(p) \/ AcquireCancelled(p)
  PROVE  \A q \in Proc \ {p} : pc'[q] = pc[q] /\ sid'[q] = sid[q]
  <1> USE DEF IInv, TypeOK, CallType, Goto, Return, locals, FailDirty
  <1>1. CASE NewCall(p)
    BY <1>1 DEF NewCall, CallApplyEdit, CallSimulateChain, CallEvaluate, CallCommit,
       CallDiscard, CallDestroy, Call
  <1>2. CASE AcquireStep(p) \/ AcquireCancelled(p)
    BY <1>2 DEF AcquireStep, ApplyAcquire, EvaluateAcquire, DiscardAcquire,
       AcquireCancelled
  <1>3. CASE ApplyCheck(p) \/ Snapshot(p) \/ SnapshotFails(p) \/ BaselineOpen(p)
             \/ BaselineOpenFails(p) \/ Mutate(p) \/ SendChange(p)
             \/ SendChangeFails(p) \/ Record(p)
    BY <1>3 DEF ApplyCheck, Snapshot, SnapshotFails, BaselineOpen, BaselineOpenFails,
       Mutate, SendChange, SendChangeFails, Record
  <1>4. CASE EvaluateCheck(p) \/ EvaluateDone(p) \/ CommitCheck(p) \/ CommitWrite(p)
             \/ CommitWriteFails(p) \/ CommitNotify(p) \/ CommitDone(p)
    BY <1>4 DEF EvaluateCheck, EvaluateDone, CommitCheck, CommitWrite,
       CommitWriteFails, CommitNotify, CommitDone
  <1>5. CASE DiscardCheck(p) \/ DiscardRevert(p) \/ DiscardRevertFails(p)
             \/ DiscardDone(p) \/ Destroy(p)
    BY <1>5 DEF DiscardCheck, DiscardRevert, DiscardRevertFails, DiscardDone, Destroy
  <1>. QED BY <1>1, <1>2, <1>3, <1>4, <1>5 DEF Step

LEMMA NextMutex == IInv /\ ExecutorMutex /\ [Next]_vars => ExecutorMutex'
  <1> SUFFICES ASSUME IInv, ExecutorMutex, [Next]_vars PROVE ExecutorMutex'
    OBVIOUS
  <1>1. ASSUME NEW s \in SessionId, CreateSession(s) PROVE ExecutorMutex'
    BY <1>1 DEF CreateSession, callVars, ExecutorMutex, Holds
  <1>2. ASSUME NEW f \in URI, ExternalWrite(f) PROVE ExecutorMutex'
    BY <1>2 DEF ExternalWrite, callVars, ExecutorMutex, Holds
  <1>3. ASSUME NEW p \in Proc, AcquireStep(p) PROVE ExecutorMutex'
    <2>1. \A q \in Proc \ {p} : pc'[q] = pc[q] /\ sid'[q] = sid[q]
      BY <1>3, OthersStay
    <2>2. /\ sid[p] \in SessionId /\ Acquire(sid[p], p)
          /\ pc[p] \notin Critical /\ pc'[p] \in Critical /\ sid'[p] = sid[p]
      BY <1>3 DEF AcquireStep, ApplyAcquire, EvaluateAcquire, DiscardAcquire, Goto,
         locals, Critical, IInv, CallInv, TypeOK, CallType
    <2>. QED BY <2>1, <2>2, LockTaken
  <1>4. ASSUME NEW p \in Proc, NewCall(p) \/ AcquireCancelled(p) PROVE ExecutorMutex'
    <2>1. \A q \in Proc \ {p} : pc'[q] = pc[q] /\ sid'[q] = sid[q]
      BY <1>4, OthersStay
    <2>2. /\ sessionLocks' = sessionLocks
          /\ pc[p] \notin Critical /\ pc'[p] \notin Critical
      BY <1>4 DEF NewCall, CallApplyEdit, CallSimulateChain, CallEvaluate, CallCommit,
         CallDiscard, CallDestroy, Call, AcquireCancelled, Return, Critical, IInv,
         TypeOK, CallType
    <2>. QED BY <2>1, <2>2, LockFrame
  <1>5. ASSUME NEW p \in Proc, Step(p) PROVE ExecutorMutex'
    <2> USE DEF IInv, TypeOK, CallType, Critical, Goto, Return, locals
    <2>1. \A q \in Proc \ {p} : pc'[q] = pc[q] /\ sid'[q] = sid[q]
      BY <1>5, OthersStay
    <2>2. CASE ApplyCheck(p) \/ EvaluateCheck(p) \/ CommitCheck(p) \/ CommitWrite(p)
               \/ CommitWriteFails(p) \/ CommitNotify(p) \/ CommitDone(p)
               \/ DiscardCheck(p) \/ Destroy(p)
      <3>1. /\ sessionLocks' = sessionLocks
            /\ pc[p] \notin Critical /\ pc'[p] \notin Critical
        BY <2>2 DEF ApplyCheck, EvaluateCheck, CommitCheck, CommitWrite,
           CommitWriteFails, CommitNotify, CommitDone, DiscardCheck, Destroy
      <3>. QED BY <2>1, <3>1, LockFrame
    <2>3. CASE Snapshot(p) \/ BaselineOpen(p) \/ Mutate(p) \/ SendChange(p)
               \/ DiscardRevert(p)
      <3>1. /\ sessionLocks' = sessionLocks /\ sid'[p] = sid[p]
            /\ pc[p] \in Critical /\ pc'[p] \in Critical
        BY <2>3 DEF Snapshot, BaselineOpen, Mutate, SendChange, DiscardRevert
      <3>. QED BY <2>1, <3>1, LockFrame
    <2>4. CASE SnapshotFails(p) \/ BaselineOpenFails(p) \/ SendChangeFails(p)
               \/ Record(p) \/ EvaluateDone(p) \/ DiscardRevertFails(p) \/ DiscardDone(p)
      <3>1. /\ Release(sid[p]) /\ sid[p] \in SessionId
            /\ pc[p] \in Critical /\ pc'[p] \notin Critical
        BY <2>4 DEF SnapshotFails, BaselineOpenFails, SendChangeFails, Record,
           EvaluateDone, DiscardRevertFails, DiscardDone, FailDirty, CallInv
      <3>. QED BY <2>1, <3>1, LockGiven
    <2>. QED BY <1>5, <2>2, <2>3, <2>4 DEF Step
  <1>6. CASE UNCHANGED vars
    BY <1>6 DEF vars, callVars, ExecutorMutex, Holds
  <1>. QED BY <1>1, <1>2, <1>3, <1>4, <1>5, <1>6 DEF Next

\* Two calls are never between Acquire and Release of one session, for any
\* number of calls and sessions.
THEOREM MutualExclusion == Spec => []ExecutorMutex
  <1>1. Init => ExecutorMutex
    BY IdAssumption DEF Init, ExecutorMutex, Holds, Critical
  <1>2. IInv /\ ExecutorMutex /\ [Next]_vars => ExecutorMutex'
    BY NextMutex
  <1>. QED BY <1>1, <1>2, InitType, NextType, PTL DEF Spec

-----------------------------------------------------------------------------
(* Snapshots, and the owner of an evaluation *)

\* The content first read of a file is never replaced, in any session.
THEOREM SnapshotsStay == Spec => SnapshotImmutable
  <1>1. ASSUME IInv, [Next]_vars, NEW s \in SessionId, NEW f \in URI,
               originalContents[s][f] # NoText
        PROVE  originalContents'[s][f] = originalContents[s][f]
    <2>1. CASE UNCHANGED originalContents
      BY <2>1
    <2>2. ASSUME NEW p \in Proc, Snapshot(p)
          PROVE  originalContents'[s][f] = originalContents[s][f]
      BY <1>1, <2>2 DEF Snapshot, IInv, TypeOK, EditType
    <2>3. ASSUME NEW p \in Proc, NewCall(p) \/ AcquireStep(p) \/ AcquireCancelled(p)
          PROVE  UNCHANGED originalContents
      BY <2>3 DEF NewCall, CallApplyEdit, CallSimulateChain, CallEvaluate, CallCommit,
         CallDiscard, CallDestroy, Call, AcquireStep, ApplyAcquire, EvaluateAcquire,
         DiscardAcquire, AcquireCancelled, editVars
    <2>4. ASSUME NEW p \in Proc, Step(p), ~Snapshot(p)
          PROVE  UNCHANGED originalContents
      BY <2>4 DEF Step, editVars, ApplyCheck, SnapshotFails, BaselineOpen,
         BaselineOpenFails, Mutate, SendChange, SendChangeFails, Record, EvaluateCheck,
         EvaluateDone, CommitCheck, CommitWrite, CommitWriteFails, CommitNotify,
         CommitDone, DiscardCheck, DiscardRevert, DiscardRevertFails, DiscardDone, Destroy
    <2>5. CASE (\E t \in SessionId : CreateSession(t)) \/ (\E g \in URI : ExternalWrite(g))
               \/ UNCHANGED vars
      BY <2>5 DEF CreateSession, ExternalWrite, vars, editVars
    <2>. QED BY <1>1, <2>1, <2>2, <2>3, <2>4, <2>5 DEF Next
  <1>2. IInv /\ [Next]_vars =>
          [\A s \in SessionId, f \in URI :
             originalContents[s][f] # NoText =>
               originalContents'[s][f] = originalContents[s][f]]_vars
    BY <1>1
  <1>. QED BY <1>2, InitType, NextType, PTL DEF Spec, SnapshotImmutable

\* what a step of p may do to "evaluating"
LEMMA EvaluatingStep ==
  ASSUME IInv, NEW p \in Proc,
         NewCall(p) \/ Step(p) \/ AcquireStep(p) \/ AcquireCancelled(p)
  PROVE  /\ pc[p] = "evaluating" => status' = [status EXCEPT ![sid[p]] = "evaluated"]
         /\ \A s \in SessionId : status'[s] = "evaluating" =>
              \/ status[s] = "evaluating"
              \/ pc'[p] = "evaluating" /\ sid'[p] = s
  <1>. USE DEF IInv, TypeOK, StatType, CallType, Goto, Return, SetStatus, MarkDirty,
               FailDirty, statVars, locals
  <1>1. CASE NewCall(p)
    BY <1>1 DEF NewCall, CallApplyEdit, CallSimulateChain, CallEvaluate, CallCommit,
       CallDiscard, CallDestroy, Call
  <1>2. CASE AcquireStep(p) \/ AcquireCancelled(p)
    BY <1>2 DEF AcquireStep, ApplyAcquire, EvaluateAcquire, DiscardAcquire,
       AcquireCancelled
  <1>3. CASE ApplyCheck(p) \/ Snapshot(p) \/ SnapshotFails(p) \/ BaselineOpen(p)
             \/ BaselineOpenFails(p) \/ Mutate(p) \/ SendChange(p)
             \/ SendChangeFails(p) \/ Record(p)
    BY <1>3 DEF ApplyCheck, Snapshot, SnapshotFails, BaselineOpen, BaselineOpenFails,
       Mutate, SendChange, SendChangeFails, Record
  <1>4. CASE EvaluateCheck(p) \/ EvaluateDone(p) \/ CommitCheck(p) \/ CommitWrite(p)
             \/ CommitWriteFails(p) \/ CommitNotify(p) \/ CommitDone(p)
    BY <1>4 DEF EvaluateCheck, EvaluateDone, CommitCheck, CommitWrite,
       CommitWriteFails, CommitNotify, CommitDone
  <1>5. CASE DiscardCheck(p) \/ DiscardRevert(p) \/ DiscardRevertFails(p)
             \/ DiscardDone(p) \/ Destroy(p)
    BY <1>5 DEF DiscardCheck, DiscardRevert, DiscardRevertFails, DiscardDone, Destroy
  <1>. QED BY <1>1, <1>2, <1>3, <1>4, <1>5 DEF Step

\* A session that is "evaluating" is being evaluated, in every interleaving.
THEOREM EvaluationsAreOwned == Spec => []EvaluatingHasOwner
  <1>1. Init => EvaluatingHasOwner
    BY DEF Init, EvaluatingHasOwner
  <1>2. ASSUME IInv, EvaluatingHasOwner, [Next]_vars PROVE EvaluatingHasOwner'
    <2>1. CASE (\E s \in SessionId : CreateSession(s)) \/ (\E f \in URI : ExternalWrite(f))
               \/ UNCHANGED vars
      BY <1>2, <2>1 DEF CreateSession, ExternalWrite, EvaluatingHasOwner, vars, statVars,
         callVars
    <2>2. ASSUME NEW p \in Proc,
                 NewCall(p) \/ Step(p) \/ AcquireStep(p) \/ AcquireCancelled(p)
          PROVE  EvaluatingHasOwner'
      <3>1. \A q \in Proc \ {p} : pc'[q] = pc[q] /\ sid'[q] = sid[q]
        BY <1>2, <2>2, OthersStay
      <3>2. /\ pc[p] = "evaluating" => status' = [status EXCEPT ![sid[p]] = "evaluated"]
            /\ \A s \in SessionId : status'[s] = "evaluating" =>
                 \/ status[s] = "evaluating"
                 \/ pc'[p] = "evaluating" /\ sid'[p] = s
        BY <1>2, <2>2, EvaluatingStep
      <3>3. ASSUME NEW s \in SessionId, status'[s] = "evaluating"
            PROVE  \E q \in Proc : pc'[q] = "evaluating" /\ sid'[q] = s
        BY <1>2, <3>1, <3>2, <3>3 DEF EvaluatingHasOwner, IInv, TypeOK, StatType
      <3>. QED BY <3>3 DEF EvaluatingHasOwner
    <2>. QED BY <1>2, <2>1, <2>2 DEF Next
  <1>. QED BY <1>1, <1>2, InitType, NextType, PTL DEF Spec

-----------------------------------------------------------------------------
(* What the server holds *)

Editing == {"baseline", "open", "mutate", "send", "record"}
Opened == {"open", "mutate", "send", "record"}

\* A session has a file's text exactly when it keeps the file's first content;
\* what it sent it has, unless a Commit sent it.
SentIsKnown ==
  \A s \in SessionId, f \in URI :
    /\ contents[s][f] # NoText <=> originalContents[s][f] # NoText
    /\ s \in sentBy[f] /\ ~committing[s] => contents[s][f] # NoText

\* A session that failed nowhere and has a text has an edit, or is getting one; so
\* has one whose edits were dropped.
TextHasEdit ==
  \A s \in SessionId :
    /\ dropped[s] # 0 => edits[s] # <<>>
    /\ ~dirtyErr[s] => \A f \in URI : contents[s][f] # NoText =>
         edits[s] # <<>> \/ \E p \in Proc : sid[p] = s /\ pc[p] \in Opened

\* Only a Commit that passed its check writes.
WriterCommits == \A p \in Proc : pc[p] \in {"write", "notify"} => committing[sid[p]]

\* A Discard has something to revert only after an edit, and what it is done with
\* is reverted.
RevertDone ==
  \A p \in Proc : pc[p] = "reverting" =>
    /\ \A f \in todo[p] : originalContents[sid[p]][f] # NoText
    /\ todo[p] # {} /\ ~dirtyErr[sid[p]] => edits[sid[p]] # <<>>
    /\ ~committing[sid[p]] =>
         \A f \in URI \ todo[p] :
           sentBy[f] = {sid[p]} => buffer[f] = originalContents[sid[p]][f]

\* The server holds the text of the session, but for the file a call has changed
\* and not sent yet, and while a Discard reverts.
TextIsSent ==
  \A s \in SessionId, f \in URI : OnlyEdited(s) /\ sentBy[f] = {s} =>
    \/ buffer[f] = contents[s][f]
    \/ \E p \in Proc : sid[p] = s /\ pc[p] \in {"open", "send"} /\ Head(rest[p]).uri = f
    \/ edits[s] # <<>> /\ \E p \in Proc : sid[p] = s /\ pc[p] = "reverting"

\* The server holds the first content of what a discarded session sent, but while a
\* late edit is being made.
DiscardHolds ==
  \A s \in SessionId, f \in URI :
    status[s] = "discarded" /\ ~committing[s] /\ sentBy[f] = {s} =>
      \/ buffer[f] = originalContents[s][f]
      \/ \E p \in Proc : sid[p] = s /\ pc[p] \in Editing

TextInv ==
  SentIsKnown /\ TextHasEdit /\ WriterCommits /\ RevertDone /\ TextIsSent /\ DiscardHolds

\* a step of p leaves the other calls where they are
Alone(p) == \A q \in Proc \ {p} :
  pc'[q] = pc[q] /\ sid'[q] = sid[q] /\ rest'[q] = rest[q] /\ todo'[q] = todo[q]

LEMMA StepIsAlone ==
  ASSUME IInv, NEW p \in Proc, ~Snapshot(p),
         NewCall(p) \/ Step(p) \/ AcquireStep(p) \/ AcquireCancelled(p)
  PROVE  Alone(p)
  <1> USE DEF IInv, TypeOK, CallType, Goto, Return, locals, FailDirty, Alone
  <1>1. CASE NewCall(p)
    BY <1>1 DEF NewCall, CallApplyEdit, CallSimulateChain, CallEvaluate, CallCommit,
       CallDiscard, CallDestroy, Call
  <1>2. CASE AcquireStep(p) \/ AcquireCancelled(p)
    BY <1>2 DEF AcquireStep, ApplyAcquire, EvaluateAcquire, DiscardAcquire,
       AcquireCancelled
  <1>3. CASE ApplyCheck(p) \/ SnapshotFails(p) \/ BaselineOpen(p)
             \/ BaselineOpenFails(p) \/ Mutate(p) \/ SendChange(p)
             \/ SendChangeFails(p) \/ Record(p)
    BY <1>3 DEF ApplyCheck, SnapshotFails, BaselineOpen, BaselineOpenFails,
       Mutate, SendChange, SendChangeFails, Record
  <1>4. CASE EvaluateCheck(p) \/ EvaluateDone(p) \/ CommitCheck(p) \/ CommitWrite(p)
             \/ CommitWriteFails(p) \/ CommitNotify(p) \/ CommitDone(p)
    BY <1>4 DEF EvaluateCheck, EvaluateDone, CommitCheck, CommitWrite,
       CommitWriteFails, CommitNotify, CommitDone
  <1>5. CASE DiscardCheck(p) \/ DiscardRevert(p) \/ DiscardRevertFails(p)
             \/ DiscardDone(p) \/ Destroy(p)
    BY <1>5 DEF DiscardCheck, DiscardRevert, DiscardRevertFails, DiscardDone, Destroy
  <1>. QED BY <1>1, <1>2, <1>3, <1>4, <1>5 DEF Step

\* a step that touches no text, and moves p between positions that hold none
LEMMA TextFrame ==
  ASSUME IInv, TextInv, NEW p \in Proc, Alone(p),
         UNCHANGED <<contents, originalContents, edits, buffer, sentBy>>,
         pc[p] \notin Editing \cup {"reverting"}, pc'[p] \notin {"open", "send", "reverting"},
         pc'[p] \in {"write", "notify"} => committing'[sid'[p]],
         \A s \in SessionId :
           /\ dirtyErr[s] => dirtyErr'[s]
           /\ committing[s] => committing'[s]
           /\ dropped'[s] = dropped[s]
           /\ status'[s] = "discarded" => status[s] = "discarded"
  PROVE  TextInv'
  <1>. USE DEF TextInv, Alone, Editing, Opened
  <1>0. \A q \in Proc : pc[q] # "idle" => sid[q] \in SessionId
    BY DEF IInv, CallInv
  <1>1. SentIsKnown'
    BY DEF SentIsKnown
  <1>2. TextHasEdit'
    BY DEF TextHasEdit
  <1>3. WriterCommits'
    BY <1>0 DEF WriterCommits
  <1>4. RevertDone'
    BY <1>0 DEF RevertDone
  <1>5. TextIsSent'
    BY DEF TextIsSent, OnlyEdited
  <1>6. DiscardHolds'
    BY DEF DiscardHolds
  <1>. QED BY <1>1, <1>2, <1>3, <1>4, <1>5, <1>6

\* a call that fails inside the semaphore
LEMMA TextFails ==
  ASSUME IInv, TextInv, NEW p \in Proc, Alone(p), FailDirty(p), pc[p] # "idle",
         UNCHANGED <<editVars, docVars, history>>
  PROVE  TextInv'
  <1>. USE DEF TextInv, Alone, Editing, Opened, editVars, docVars, history
  <1>0. \A q \in Proc : pc[q] # "idle" => sid[q] \in SessionId
    BY DEF IInv, CallInv
  <1>d. /\ pc'[p] = "idle"
        /\ status'[sid[p]] = "dirty" /\ dirtyErr'[sid[p]]
        /\ \A s \in SessionId \ {sid[p]} : status'[s] = status[s] /\ dirtyErr'[s] = dirtyErr[s]
    BY <1>0 DEF FailDirty, MarkDirty, Return, IInv, TypeOK, StatType, CallType
  <1>1. SentIsKnown'
    BY DEF SentIsKnown
  <1>2. TextHasEdit'
    BY <1>d DEF TextHasEdit
  <1>3. WriterCommits'
    BY <1>0, <1>d DEF WriterCommits
  <1>4. RevertDone'
    BY <1>0, <1>d DEF RevertDone
  <1>5. TextIsSent'
    BY <1>d DEF TextIsSent, OnlyEdited
  <1>6. DiscardHolds'
    BY <1>d DEF DiscardHolds
  <1>. QED BY <1>1, <1>2, <1>3, <1>4, <1>5, <1>6

LEMMA SnapshotText ==
  ASSUME IInv, ExecutorMutex, TextInv, NEW p \in Proc, Snapshot(p)
  PROVE  TextInv'
  <1>. DEFINE s0 == sid[p]
              f0 == Head(rest[p]).uri
  <1>. USE DEF TextInv, Editing, Opened
  <1>0. \A q \in Proc : pc[q] # "idle" => sid[q] \in SessionId
    BY DEF IInv, CallInv
  <1>e. s0 \in SessionId /\ f0 \in URI /\ disk[f0] \in Text /\ disk[f0] # NoText
    BY EditArgs, TextAssumption DEF Snapshot, ApplyPCs, IInv, TypeOK, DocType
  <1>a. /\ pc[p] = "baseline" /\ pc'[p] = "open"
        /\ \A q \in Proc \ {p} : pc'[q] = pc[q]
        /\ sid' = sid /\ rest' = rest
        /\ UNCHANGED <<edits, buffer, sentBy, status, dirtyErr, committing, dropped>>
    BY DEF Snapshot, Goto, docVars, statVars, history, IInv, TypeOK, CallType
  <1>b. /\ contents'[s0][f0] # NoText /\ originalContents'[s0][f0] # NoText
        /\ originalContents[s0][f0] # NoText =>
             originalContents'[s0][f0] = originalContents[s0][f0]
        /\ \A s \in SessionId, f \in URI : s # s0 \/ f # f0 =>
             contents'[s][f] = contents[s][f] /\ originalContents'[s][f] = originalContents[s][f]
    BY <1>e DEF Snapshot, IInv, TypeOK, EditType
  <1>c. \A q \in Proc :
          /\ todo[q] \subseteq todo'[q] /\ todo'[q] \subseteq todo[q] \cup {f0}
          /\ todo'[q] # todo[q] => sid[q] = s0 /\ (todo[q] # {} \/ pc[q] = "notify")
    BY DEF Snapshot, Looping
  <1>1. SentIsKnown'
    BY <1>a, <1>b DEF SentIsKnown
  <1>2. TextHasEdit'
    BY <1>a, <1>b DEF TextHasEdit
  <1>3. WriterCommits'
    BY <1>0, <1>a DEF WriterCommits
  <1>4. RevertDone'
    <2>1. ASSUME NEW q \in Proc, pc'[q] = "reverting"
          PROVE  /\ pc[q] = "reverting" /\ sid[q] \in SessionId /\ todo'[q] \subseteq URI
                 /\ \A f \in todo'[q] : originalContents'[sid[q]][f] # NoText
                 /\ todo'[q] # {} /\ ~dirtyErr[sid[q]] => edits[sid[q]] # <<>>
                 /\ ~committing[sid[q]] => \A f \in URI \ todo'[q] :
                      sentBy[f] = {sid[q]} => buffer[f] = originalContents'[sid[q]][f]
      <3>1. pc[q] = "reverting" /\ sid[q] \in SessionId /\ todo[q] \subseteq URI
        BY <1>0, <1>a, <2>1 DEF IInv, TypeOK, CallType
      <3>2. \A f \in todo'[q] : originalContents'[sid[q]][f] # NoText
        BY <3>1, <1>b, <1>c DEF RevertDone
      <3>3. todo'[q] # {} /\ ~dirtyErr[sid[q]] => edits[sid[q]] # <<>>
        BY <3>1, <1>c DEF RevertDone
      <3>4. ASSUME ~committing[sid[q]], NEW f \in URI \ todo'[q], sentBy[f] = {sid[q]}
            PROVE  buffer[f] = originalContents'[sid[q]][f]
        <4>1. originalContents[sid[q]][f] # NoText
          BY <3>1, <3>4 DEF SentIsKnown
        <4>2. originalContents'[sid[q]][f] = originalContents[sid[q]][f]
          BY <3>1, <4>1, <1>b
        <4>. QED BY <3>1, <3>4, <4>2, <1>c DEF RevertDone
      <3>. QED BY <1>e, <1>c, <3>1, <3>2, <3>3, <3>4
    <2>. QED BY <2>1, <1>a DEF RevertDone
  <1>5. TextIsSent'
    BY <1>a, <1>b DEF TextIsSent, OnlyEdited
  <1>6. DiscardHolds'
    BY <1>a, <1>b DEF DiscardHolds
  <1>. QED BY <1>1, <1>2, <1>3, <1>4, <1>5, <1>6

\* a step of an edit that sends the session's text of its file
LEMMA SendText ==
  ASSUME IInv, ExecutorMutex, TextInv, NEW p \in Proc, BaselineOpen(p) \/ SendChange(p)
  PROVE  TextInv'
  <1>. DEFINE s0 == sid[p]
              f0 == Head(rest[p]).uri
  <1>. USE DEF TextInv, Editing, Opened
  <1>0. \A q \in Proc : pc[q] # "idle" => sid[q] \in SessionId
    BY DEF IInv, CallInv
  <1>e. s0 \in SessionId /\ f0 \in URI /\ contents[s0][f0] # NoText
    BY EditArgs, TextAssumption DEF BaselineOpen, SendChange, ApplyPCs
  <1>a. /\ pc[p] \in {"open", "send"} /\ pc'[p] \in {"mutate", "record"}
        /\ \A q \in Proc \ {p} : pc'[q] = pc[q]
        /\ UNCHANGED <<sid, rest, todo, edits, contents, originalContents, status, dirtyErr,
                       committing, dropped>>
    BY DEF BaselineOpen, SendChange, Goto, locals, editVars, statVars, history, IInv, TypeOK,
       CallType
  <1>b. /\ buffer'[f0] = contents[s0][f0] /\ sentBy'[f0] = sentBy[f0] \cup {s0}
        /\ \A f \in URI \ {f0} : buffer'[f] = buffer[f] /\ sentBy'[f] = sentBy[f]
    BY <1>e DEF BaselineOpen, SendChange, OpenDocument, IInv, TypeOK, DocType
  <1>1. SentIsKnown'
    BY <1>a, <1>b, <1>e DEF SentIsKnown
  <1>2. TextHasEdit'
    BY <1>a DEF TextHasEdit
  <1>3. WriterCommits'
    BY <1>0, <1>a DEF WriterCommits
  <1>4. RevertDone'
    <2>1. ASSUME NEW q \in Proc, pc'[q] = "reverting", ~committing[sid[q]],
                 NEW f \in URI \ todo[q], sentBy'[f] = {sid[q]}
          PROVE  buffer'[f] = originalContents[sid[q]][f]
      <3>1. pc[q] = "reverting" /\ q # p /\ sid[q] \in SessionId
        BY <2>1, <1>0, <1>a
      <3>2. sid[q] # s0
        BY <3>1, <1>a, <1>e DEF ExecutorMutex, Holds, Critical
      <3>3. f # f0 /\ f \in URI
        BY <2>1, <3>2, <1>b, <1>e
      <3>. QED BY <2>1, <3>1, <3>3, <1>b DEF RevertDone
    <2>2. \A q \in Proc : pc'[q] = "reverting" => pc[q] = "reverting"
      BY <1>a
    <2>. QED BY <2>1, <2>2, <1>a DEF RevertDone
  <1>5. TextIsSent'
    BY <1>a, <1>b DEF TextIsSent, OnlyEdited
  <1>6. DiscardHolds'
    BY <1>a, <1>b DEF DiscardHolds
  <1>. QED BY <1>1, <1>2, <1>3, <1>4, <1>5, <1>6

LEMMA MutateText ==
  ASSUME IInv, TextInv, NEW p \in Proc, Mutate(p)
  PROVE  TextInv'
  <1>. DEFINE s0 == sid[p]
              f0 == Head(rest[p]).uri
  <1>. USE DEF TextInv, Editing, Opened
  <1>0. \A q \in Proc : pc[q] # "idle" => sid[q] \in SessionId
    BY DEF IInv, CallInv
  <1>e. /\ s0 \in SessionId /\ f0 \in URI /\ contents[s0][f0] # NoText
        /\ ApplyRangeEdit(contents[s0][f0], Head(rest[p]).edit) # NoText
    BY EditArgs, TextAssumption DEF Mutate, ApplyPCs
  <1>a. /\ pc[p] = "mutate" /\ pc'[p] = "send"
        /\ \A q \in Proc \ {p} : pc'[q] = pc[q]
        /\ UNCHANGED <<sid, rest, todo, edits, originalContents, buffer, sentBy, status, dirtyErr,
                       committing, dropped>>
    BY DEF Mutate, Goto, locals, docVars, statVars, history, IInv, TypeOK, CallType
  <1>b. /\ contents'[s0][f0] # NoText
        /\ \A s \in SessionId, f \in URI : s # s0 \/ f # f0 => contents'[s][f] = contents[s][f]
    BY <1>e DEF Mutate, IInv, TypeOK, EditType
  <1>1. SentIsKnown'
    BY <1>a, <1>b, <1>e DEF SentIsKnown
  <1>2. TextHasEdit'
    BY <1>a, <1>b DEF TextHasEdit
  <1>3. WriterCommits'
    BY <1>0, <1>a DEF WriterCommits
  <1>4. RevertDone'
    BY <1>0, <1>a DEF RevertDone
  <1>5. TextIsSent'
    BY <1>a, <1>b DEF TextIsSent, OnlyEdited
  <1>6. DiscardHolds'
    BY <1>a DEF DiscardHolds
  <1>. QED BY <1>1, <1>2, <1>3, <1>4, <1>5, <1>6

LEMMA RecordText ==
  ASSUME IInv, TextInv, NEW p \in Proc, Record(p), Alone(p)
  PROVE  TextInv'
  <1>. DEFINE s0 == sid[p]
  <1>. USE DEF TextInv, Editing, Opened, Alone
  <1>0. \A q \in Proc : pc[q] # "idle" => sid[q] \in SessionId
    BY DEF IInv, CallInv
  <1>a. /\ pc[p] = "record" /\ pc'[p] \in {"evaluate", "idle"}
        /\ UNCHANGED <<contents, originalContents, buffer, sentBy, dirtyErr, committing, dropped>>
    BY DEF Record, Goto, Return, docVars, statVars, history, IInv, TypeOK, CallType
  <1>b. /\ s0 \in SessionId /\ edits'[s0] # <<>> /\ status'[s0] = "mutated"
        /\ \A s \in SessionId \ {s0} : edits'[s] = edits[s] /\ status'[s] = status[s]
    <2>1. s0 \in SessionId /\ edits[s0] \in Seq([uri : URI, edit : Edit, version : Nat])
      BY <1>0, <1>a DEF IInv, TypeOK, EditType
    <2>2. PICK e \in [uri : URI, edit : Edit, version : Nat] :
            edits' = [edits EXCEPT ![s0] = Append(@, e)]
      <3>1. Head(rest[p]).uri \in URI /\ Head(rest[p]).edit \in Edit
        BY <1>a, EditArgs DEF ApplyPCs
      <3>2. versions[s0][Head(rest[p]).uri] \in Nat
        BY <2>1, <3>1 DEF IInv, TypeOK, EditType
      <3>. QED BY <3>1, <3>2 DEF Record
    <2>4. Append(edits[s0], e) # <<>>
      BY <2>1, AppendProperties
    <2>. QED BY <2>1, <2>2, <2>4 DEF Record, SetStatus, IInv, TypeOK, EditType, StatType
  <1>1. SentIsKnown'
    BY <1>a DEF SentIsKnown
  <1>2. TextHasEdit'
    BY <1>a, <1>b DEF TextHasEdit
  <1>3. WriterCommits'
    BY <1>0, <1>a DEF WriterCommits
  <1>4. RevertDone'
    BY <1>0, <1>a, <1>b DEF RevertDone
  <1>5. TextIsSent'
    BY <1>a, <1>b DEF TextIsSent, OnlyEdited
  <1>6. DiscardHolds'
    BY <1>a, <1>b DEF DiscardHolds
  <1>. QED BY <1>1, <1>2, <1>3, <1>4, <1>5, <1>6

\* A Commit is outside every promise about the texts of its session.
LEMMA CommitNotifyText ==
  ASSUME IInv, TextInv, NEW p \in Proc, CommitNotify(p), Alone(p)
  PROVE  TextInv'
  <1>. DEFINE s0 == sid[p]
  <1>. USE DEF TextInv, Editing, Opened, Alone
  <1>0. \A q \in Proc : pc[q] # "idle" => sid[q] \in SessionId
    BY DEF IInv, CallInv
  <1>a. /\ pc[p] = "notify" /\ pc'[p] = "write" /\ sid' = sid /\ todo' = todo
        /\ s0 \in SessionId /\ committing[s0]
        /\ UNCHANGED <<contents, originalContents, edits, committing, dropped>>
    BY <1>0 DEF CommitNotify, WriterCommits, Goto, editVars, history, IInv, TypeOK, CallType
  <1>b. /\ dirtyErr'[s0] \/ dirtyErr'[s0] = dirtyErr[s0]
        /\ \A s \in SessionId \ {s0} : status'[s] = status[s] /\ dirtyErr'[s] = dirtyErr[s]
    BY <1>a DEF CommitNotify, MarkDirty, IInv, TypeOK, StatType
  <1>c. \A f \in URI : \/ buffer'[f] = buffer[f] /\ sentBy'[f] = sentBy[f]
                       \/ sentBy'[f] = sentBy[f] \cup {s0}
    BY DEF CommitNotify, OpenDocument, IInv, TypeOK, DocType
  <1>1. SentIsKnown'
    BY <1>a, <1>c DEF SentIsKnown
  <1>2. TextHasEdit'
    BY <1>a, <1>b DEF TextHasEdit
  <1>3. WriterCommits'
    BY <1>0, <1>a DEF WriterCommits
  <1>4. RevertDone'
    <2>1. ASSUME NEW q \in Proc, pc'[q] = "reverting"
          PROVE  /\ pc[q] = "reverting" /\ sid[q] \in SessionId
                 /\ ~dirtyErr'[sid[q]] => ~dirtyErr[sid[q]]
                 /\ ~committing[sid[q]] => \A f \in URI : sentBy'[f] = {sid[q]} =>
                      sentBy[f] = {sid[q]} /\ buffer'[f] = buffer[f]
      <3>1. pc[q] = "reverting" /\ sid[q] \in SessionId
        BY <2>1, <1>0, <1>a
      <3>2. ~dirtyErr'[sid[q]] => ~dirtyErr[sid[q]]
        BY <3>1, <1>b
      <3>3. ~committing[sid[q]] => sid[q] # s0
        BY <1>a
      <3>. QED BY <3>1, <3>2, <3>3, <1>c
    <2>. QED BY <2>1, <1>a DEF RevertDone
  <1>5. TextIsSent'
    BY <1>a, <1>b, <1>c DEF TextIsSent, OnlyEdited
  <1>6. DiscardHolds'
    BY <1>a, <1>b, <1>c DEF DiscardHolds
  <1>. QED BY <1>1, <1>2, <1>3, <1>4, <1>5, <1>6

\* No edit is in progress when a Discard has the semaphore, so each text has one
\* that was recorded.
LEMMA DiscardAcquireText ==
  ASSUME IInv, ExecutorMutex, TextInv, NEW p \in Proc, DiscardAcquire(p), Alone(p)
  PROVE  TextInv'
  <1>. DEFINE s0 == sid[p]
  <1>. USE DEF TextInv, Editing, Opened, Alone
  <1>0. \A q \in Proc : pc[q] # "idle" => sid[q] \in SessionId
    BY DEF IInv, CallInv
  <1>a. /\ pc[p] = "discardAcquire" /\ pc'[p] = "reverting" /\ UNCHANGED <<sid, rest>>
        /\ s0 \in SessionId /\ sessionLocks[s0] = NoProc
        /\ UNCHANGED <<contents, originalContents, edits, buffer, sentBy, status, dirtyErr,
                       committing, dropped>>
    BY <1>0 DEF DiscardAcquire, Acquire, Goto, editVars, statVars, docVars, history, IInv, TypeOK,
       CallType
  <1>b. todo'[p] = {f \in URI : contents[s0][f] # NoText /\ originalContents[s0][f] # NoText}
    BY DEF DiscardAcquire, Touched, IInv, TypeOK, CallType
  <1>c. \A q \in Proc : sid[q] = s0 => pc[q] \notin Opened
    BY <1>a, IdAssumption DEF ExecutorMutex, Holds, Critical
  <1>1. SentIsKnown'
    BY <1>a DEF SentIsKnown
  <1>2. TextHasEdit'
    BY <1>a DEF TextHasEdit
  <1>3. WriterCommits'
    BY <1>0, <1>a DEF WriterCommits
  <1>4. RevertDone'
    <2>1. \A q \in Proc \ {p} : RevertDone =>
            (pc'[q] = "reverting" =>
              /\ \A f \in todo'[q] : originalContents'[sid'[q]][f] # NoText
              /\ todo'[q] # {} /\ ~dirtyErr'[sid'[q]] => edits'[sid'[q]] # <<>>
              /\ ~committing'[sid'[q]] => \A f \in URI \ todo'[q] :
                    sentBy'[f] = {sid'[q]} => buffer'[f] = originalContents'[sid'[q]][f])
      BY <1>a DEF RevertDone
    <2>2. todo'[p] # {} /\ ~dirtyErr[s0] => edits[s0] # <<>>
      BY <1>a, <1>b, <1>c DEF TextHasEdit
    <2>3. ~committing[s0] => \A f \in URI \ todo'[p] : sentBy[f] # {s0}
      BY <1>a, <1>b DEF SentIsKnown
    <2>. QED BY <2>1, <2>2, <2>3, <1>a, <1>b DEF RevertDone
  <1>5. TextIsSent'
    BY <1>a DEF TextIsSent, OnlyEdited
  <1>6. DiscardHolds'
    BY <1>a DEF DiscardHolds
  <1>. QED BY <1>1, <1>2, <1>3, <1>4, <1>5, <1>6

LEMMA DiscardRevertText ==
  ASSUME IInv, ExecutorMutex, TextInv, NEW p \in Proc, DiscardRevert(p), Alone(p)
  PROVE  TextInv'
  <1>. DEFINE s0 == sid[p]
  <1>. USE DEF TextInv, Editing, Opened, Alone
  <1>0. \A q \in Proc : pc[q] # "idle" => sid[q] \in SessionId
    BY DEF IInv, CallInv
  <1>a. /\ pc[p] = "reverting" /\ s0 \in SessionId
        /\ UNCHANGED <<pc, sid, rest, contents, originalContents, edits, status, dirtyErr, committing,
                       dropped>>
    BY <1>0 DEF DiscardRevert, editVars, statVars, history
  <1>b. PICK g \in todo[p] :
          /\ buffer' = [buffer EXCEPT ![g] = originalContents[s0][g]]
          /\ sentBy' = [sentBy EXCEPT ![g] = @ \cup {s0}]
          /\ todo' = [todo EXCEPT ![p] = @ \ {g}]
    BY DEF DiscardRevert, OpenDocument
  <1>c. /\ g \in URI /\ originalContents[s0][g] # NoText
        /\ buffer'[g] = originalContents[s0][g] /\ sentBy'[g] = sentBy[g] \cup {s0}
        /\ \A f \in URI \ {g} : buffer'[f] = buffer[f] /\ sentBy'[f] = sentBy[f]
        /\ todo'[p] = todo[p] \ {g}
    BY <1>a, <1>b DEF RevertDone, IInv, TypeOK, CallType, DocType
  <1>1. SentIsKnown'
    BY <1>a, <1>c DEF SentIsKnown
  <1>2. TextHasEdit'
    BY <1>a DEF TextHasEdit
  <1>3. WriterCommits'
    BY <1>a DEF WriterCommits
  <1>4. RevertDone'
    <2>1. ASSUME NEW q \in Proc, pc[q] = "reverting", ~committing[sid[q]],
                 NEW f \in URI \ todo'[q], sentBy'[f] = {sid[q]}
          PROVE  buffer'[f] = originalContents[sid[q]][f]
      <3>0. sid[q] \in SessionId
        BY <2>1, <1>0
      <3>1. CASE q = p
        BY <2>1, <3>1, <1>c DEF RevertDone
      <3>2. CASE q # p
        <4>1. sid[q] # s0
          BY <2>1, <3>2, <1>a DEF ExecutorMutex, Holds, Critical
        <4>. QED BY <2>1, <3>0, <3>2, <4>1, <1>c DEF RevertDone
      <3>. QED BY <3>1, <3>2
    <2>2. \A q \in Proc : todo'[q] \subseteq todo[q]
      BY <1>c
    <2>3. \A q \in Proc : pc[q] = "reverting" =>
            /\ \A f \in todo'[q] : originalContents[sid[q]][f] # NoText
            /\ todo'[q] # {} /\ ~dirtyErr[sid[q]] => edits[sid[q]] # <<>>
      BY <2>2 DEF RevertDone
    <2>. QED BY <2>1, <2>3, <1>a DEF RevertDone
  <1>5. TextIsSent'
    BY <1>a, <1>c DEF TextIsSent, OnlyEdited, RevertDone
  <1>6. DiscardHolds'
    BY <1>a, <1>c DEF DiscardHolds
  <1>. QED BY <1>1, <1>2, <1>3, <1>4, <1>5, <1>6

LEMMA DiscardDoneText ==
  ASSUME IInv, TextInv, NEW p \in Proc, DiscardDone(p), Alone(p)
  PROVE  TextInv'
  <1>. DEFINE s0 == sid[p]
  <1>. USE DEF TextInv, Editing, Opened, Alone
  <1>0. \A q \in Proc : pc[q] # "idle" => sid[q] \in SessionId
    BY DEF IInv, CallInv
  <1>a. /\ pc[p] = "reverting" /\ pc'[p] = "idle" /\ s0 \in SessionId /\ todo[p] = {}
        /\ UNCHANGED <<contents, originalContents, edits, buffer, sentBy, dirtyErr, committing>>
    BY <1>0 DEF DiscardDone, Return, editVars, docVars, IInv, TypeOK, CallType
  <1>b. /\ dropped'[s0] = Len(edits[s0])
        /\ \A s \in SessionId \ {s0} : status'[s] = status[s] /\ dropped'[s] = dropped[s]
    BY <1>a DEF DiscardDone, SetStatus, IInv, TypeOK, StatType, HistType
  <1>c. dropped'[s0] = 0 <=> edits[s0] = <<>>
    <2>1. edits[s0] \in Seq([uri : URI, edit : Edit, version : Nat])
      BY <1>a DEF IInv, TypeOK, EditType
    <2>. QED BY <2>1, <1>b, EmptySeq
  <1>1. SentIsKnown'
    BY <1>a DEF SentIsKnown
  <1>2. TextHasEdit'
    BY <1>a, <1>b, <1>c DEF TextHasEdit
  <1>3. WriterCommits'
    BY <1>0, <1>a DEF WriterCommits
  <1>4. RevertDone'
    BY <1>0, <1>a DEF RevertDone
  <1>5. TextIsSent'
    <2>1. ASSUME NEW s \in SessionId, NEW f \in URI, OnlyEdited(s)', sentBy[f] = {s}
          PROVE  \/ buffer[f] = contents[s][f]
                 \/ \E q \in Proc : sid'[q] = s /\ pc'[q] \in {"open", "send"} /\ Head(rest'[q]).uri = f
                 \/ edits[s] # <<>> /\ \E q \in Proc : sid'[q] = s /\ pc'[q] = "reverting"
      <3>1. CASE s # s0
        BY <2>1, <3>1, <1>a, <1>b DEF TextIsSent, OnlyEdited
      <3>2. CASE s = s0
        <4>1. edits[s0] = <<>>
          BY <2>1, <3>2, <1>c DEF OnlyEdited
        <4>2. dropped[s0] = 0
          BY <4>1, <1>a DEF TextHasEdit
        <4>3. \/ buffer[f] = contents[s0][f]
              \/ \E q \in Proc : sid[q] = s0 /\ pc[q] \in {"open", "send"} /\ Head(rest[q]).uri = f
          BY <2>1, <3>2, <4>1, <4>2, <1>a DEF TextIsSent, OnlyEdited
        <4>. QED BY <3>2, <4>3, <1>a
      <3>. QED BY <3>1, <3>2
    <2>. QED BY <2>1, <1>a DEF TextIsSent
  <1>6. DiscardHolds'
    BY <1>a, <1>b DEF DiscardHolds, RevertDone
  <1>. QED BY <1>1, <1>2, <1>3, <1>4, <1>5, <1>6

-----------------------------------------------------------------------------
(* The texts of a session and the server's, over every step *)

LEMMA InitText == Init => TextInv
  <1>. SUFFICES ASSUME Init PROVE TextInv
    OBVIOUS
  <1>1. \A p \in Proc : pc[p] = "idle"
    BY DEF Init
  <1>2. /\ \A s \in SessionId : dropped[s] = 0
        /\ \A s \in SessionId, f \in URI :
             contents[s][f] = NoText /\ originalContents[s][f] = NoText /\ sentBy[f] = {}
    BY DEF Init
  <1>. QED
    BY <1>1, <1>2 DEF TextInv, SentIsKnown, TextHasEdit, WriterCommits, RevertDone, TextIsSent,
       DiscardHolds

\* the steps that only move the call and its session's status
LEMMA QuietText ==
  ASSUME IInv, TextInv, NEW p \in Proc, Alone(p),
         \/ ApplyCheck(p) \/ ApplyAcquire(p) \/ EvaluateCheck(p) \/ EvaluateAcquire(p)
         \/ EvaluateDone(p) \/ AcquireCancelled(p) \/ CommitCheck(p) \/ CommitWrite(p)
         \/ CommitWriteFails(p) \/ CommitDone(p) \/ DiscardCheck(p) \/ Destroy(p)
         \/ NewCall(p)
  PROVE  TextInv'
  <1>. USE DEF Editing, editVars, statVars, docVars, history, locals
  <1>0. /\ pc[p] # "idle" => sid[p] \in SessionId
        /\ pc \in [Proc -> PCs] /\ sid \in [Proc -> SessionId \cup {NoSession}]
        /\ status \in [SessionId -> Statuses]
        /\ dirtyErr \in [SessionId -> BOOLEAN] /\ committing \in [SessionId -> BOOLEAN]
    BY DEF IInv, CallInv, TypeOK, CallType, StatType, HistType
  <1>1. CASE ApplyCheck(p) \/ EvaluateCheck(p) \/ DiscardCheck(p) \/ AcquireCancelled(p)
             \/ ApplyAcquire(p)
    <2>1. /\ UNCHANGED <<statVars, editVars, docVars, history>>
          /\ pc[p] \in {"apply", "evaluate", "discard", "applyAcquire", "evalAcquire",
                        "discardAcquire"}
          /\ pc'[p] \in {"applyAcquire", "evalAcquire", "discardAcquire", "idle", "mutate",
                         "baseline"}
      BY <1>0, <1>1 DEF ApplyCheck, EvaluateCheck, DiscardCheck, AcquireCancelled, ApplyAcquire,
         Goto, Return
    <2>. QED BY <2>1, TextFrame
  <1>2. CASE EvaluateAcquire(p) \/ EvaluateDone(p) \/ CommitDone(p) \/ Destroy(p)
    <2>1. /\ UNCHANGED <<dirtyErr, editVars, docVars, history>>
          /\ pc[p] \in {"evalAcquire", "evaluating", "write", "destroying"}
          /\ pc'[p] \in {"evaluating", "apply", "idle"}
          /\ \E st \in {"evaluating", "evaluated", "committed", "destroyed"} :
               status' = [status EXCEPT ![sid[p]] = st]
      BY <1>0, <1>2 DEF EvaluateAcquire, EvaluateDone, CommitDone, Destroy, SetStatus, Goto, Return
    <2>2. \A s \in SessionId : status'[s] = "discarded" => status[s] = "discarded"
      BY <1>0, <2>1
    <2>. QED BY <2>1, <2>2, TextFrame
  <1>3. CASE CommitCheck(p)
    <2>1. /\ UNCHANGED <<statVars, editVars, docVars, dropped, sid>> \/ pc'[p] = "idle"
          /\ UNCHANGED <<statVars, editVars, docVars, dropped>>
          /\ pc[p] = "commit" /\ pc'[p] \in {"write", "idle"}
          /\ pc'[p] = "write" => committing'[sid'[p]]
          /\ \A s \in SessionId : committing[s] => committing'[s]
      BY <1>0, <1>3 DEF CommitCheck, Goto, Return
    <2>. QED BY <2>1, TextFrame
  <1>4. CASE CommitWrite(p)
    <2>1. /\ UNCHANGED <<statVars, editVars, buffer, sentBy, history, sid>>
          /\ pc[p] = "write" /\ pc'[p] = "notify"
      BY <1>0, <1>4 DEF CommitWrite, Goto
    <2>2. committing'[sid'[p]]
      BY <2>1 DEF TextInv, WriterCommits
    <2>. QED BY <2>1, <2>2, TextFrame
  <1>5. CASE CommitWriteFails(p)
    <2>1. /\ UNCHANGED <<editVars, buffer, sentBy, history>>
          /\ pc[p] = "write" /\ pc'[p] = "idle"
          /\ \A s \in SessionId : dirtyErr[s] => dirtyErr'[s]
          /\ \A s \in SessionId : status'[s] = "discarded" => status[s] = "discarded"
      BY <1>0, <1>5 DEF CommitWriteFails, MarkDirty, Return
    <2>. QED BY <2>1, TextFrame
  <1>6. CASE NewCall(p)
    <2>1. /\ UNCHANGED <<statVars, editVars, docVars, history>>
          /\ pc[p] = "idle"
          /\ pc'[p] \in {"apply", "evaluate", "commit", "discard", "destroying"}
      BY <1>0, <1>6 DEF NewCall, CallApplyEdit, CallSimulateChain, CallEvaluate, CallCommit,
         CallDiscard, CallDestroy, Call
    <2>. QED BY <2>1, TextFrame
  <1>. QED BY <1>1, <1>2, <1>3, <1>4, <1>5, <1>6

LEMMA NextText == IInv /\ ExecutorMutex /\ TextInv /\ [Next]_vars => TextInv'
  <1>. SUFFICES ASSUME IInv, ExecutorMutex, TextInv, [Next]_vars PROVE TextInv'
    OBVIOUS
  <1>1. CASE (\E s \in SessionId : CreateSession(s)) \/ (\E f \in URI : ExternalWrite(f))
             \/ UNCHANGED vars
    <2>1. UNCHANGED <<contents, originalContents, edits, buffer, sentBy, pc, sid, rest, todo,
                      status, dirtyErr, committing, dropped>>
      BY <1>1 DEF CreateSession, ExternalWrite, vars, editVars, docVars, callVars, statVars, history
    <2>. QED BY <2>1 DEF TextInv, SentIsKnown, TextHasEdit, WriterCommits, RevertDone, TextIsSent,
             DiscardHolds, OnlyEdited
  <1>2. ASSUME NEW p \in Proc, NewCall(p) \/ Step(p) \/ AcquireStep(p) \/ AcquireCancelled(p)
        PROVE  TextInv'
    <2>1. CASE Snapshot(p)
      BY <2>1, SnapshotText
    <2>2. CASE ~Snapshot(p)
      <3>0. Alone(p)
        BY <1>2, <2>2, StepIsAlone
      <3>1. CASE SnapshotFails(p) \/ BaselineOpenFails(p) \/ SendChangeFails(p)
                 \/ DiscardRevertFails(p)
        BY <3>0, <3>1, TextFails DEF SnapshotFails, BaselineOpenFails, SendChangeFails,
           DiscardRevertFails
      <3>2. CASE BaselineOpen(p) \/ SendChange(p) \/ Mutate(p) \/ Record(p)
        BY <3>0, <3>2, SendText, MutateText, RecordText
      <3>3. CASE CommitNotify(p) \/ DiscardAcquire(p) \/ DiscardRevert(p) \/ DiscardDone(p)
        BY <3>0, <3>3, CommitNotifyText, DiscardAcquireText, DiscardRevertText, DiscardDoneText
      <3>. QED BY <1>2, <2>2, <3>0, <3>1, <3>2, <3>3, QuietText DEF Step, AcquireStep
    <2>. QED BY <2>1, <2>2
  <1>. QED BY <1>1, <1>2 DEF Next

LEMMA TextInvHolds == Spec => [](IInv /\ ExecutorMutex /\ TextInv)
  BY TypeCorrect, MutualExclusion, InitText, NextText, PTL DEF Spec

\* While a session was only edited and no call is changing its documents, the
\* language server holds the session's text of every file that no other session
\* sent: an evaluation sees all of the session's edits and nothing else, however
\* the calls interleave (manager.go:188-197).
THEOREM ServerHoldsText == Spec => []ServerHoldsSessionText
  <1>1. TextInv => ServerHoldsSessionText
    BY DEF TextInv, TextIsSent, ServerHoldsSessionText, Busy
  <1>. QED BY <1>1, TextInvHolds, PTL

\* A discarded session no Commit wrote, whose semaphore is free, has left the
\* server the text the session found, in every file no other session sent
\* (manager.go:510-526).
THEOREM DiscardsRevert == Spec => []DiscardReverts
  <1>1. ExecutorMutex /\ TextInv => DiscardReverts
    BY IdAssumption DEF TextInv, DiscardHolds, DiscardReverts, ExecutorMutex, Holds, Editing, Critical
  <1>. QED BY <1>1, TextInvHolds, PTL
-----------------------------------------------------------------------------
(* Counting and replaying edits *)

\* A set of natural numbers that is not empty has a least element: every induction
\* below takes the least counterexample.
LEMMA LeastElement ==
  ASSUME NEW T \in SUBSET Nat, T # {}
  PROVE  \E x \in T : \A y \in T : x =< y
  <1>1. PICK x \in T : \A y \in T : ~ (<<y, x>> \in OpToRel(<, Nat))
    BY WFMin, NatLessThanWellFounded
  <1>2. \A y \in T : ~ (y < x)
    BY <1>1, Zenon DEF OpToRel
  <1>3. \A y \in T : x =< y
    BY <1>2
  <1>. QED BY <1>3

EditRecord == [uri : URI, edit : Edit, version : Nat]

\* what an appended edit leaves and what it adds
LEMMA Appended ==
  ASSUME NEW es \in Seq(EditRecord), NEW e \in EditRecord
  PROVE  /\ Append(es, e) \in Seq(EditRecord)
         /\ Len(es) \in Nat /\ Len(Append(es, e)) = Len(es) + 1
         /\ DOMAIN es = 1..Len(es) /\ DOMAIN Append(es, e) = 1..(Len(es) + 1)
         /\ \A i \in 1..Len(es) : Append(es, e)[i] = es[i]
         /\ Append(es, e)[Len(es) + 1] = e
  OBVIOUS

LEMMA CountAppended ==
  ASSUME NEW es \in Seq(EditRecord), NEW e \in EditRecord, NEW f
  PROVE  /\ Count(es, f, Len(es)) \in Nat
         /\ \A i \in 1..Len(es) : Count(Append(es, e), f, i) = Count(es, f, i)
         /\ Count(Append(es, e), f, Len(es) + 1)
              = IF e.uri = f THEN Count(es, f, Len(es)) + 1 ELSE Count(es, f, Len(es))
  <1> DEFINE n == Len(es)
             new == Append(es, e)
             Of(s, m) == {j \in 1..m : s[j].uri = f}
  <1>1. \A i \in 0..n : Of(new, i) = Of(es, i)
    BY Appended
  <1>2. IsFiniteSet(Of(es, n)) /\ Cardinality(Of(es, n)) \in Nat /\ n + 1 \notin Of(es, n)
    <2>1. n \in Nat
      BY Appended
    <2>2. IsFiniteSet(1..n) /\ Of(es, n) \subseteq 1..n
      BY <2>1, FS_Interval
    <2>3. n + 1 \notin 1..n
      BY <2>1
    <2>. QED BY <2>2, <2>3, FS_Subset, FS_CardinalityType
  <1>3. e.uri = f => Of(new, n + 1) = Of(es, n) \cup {n + 1}
    BY Appended
  <1>4. e.uri # f => Of(new, n + 1) = Of(es, n)
    BY Appended
  <1>5. Cardinality(Of(es, n) \cup {n + 1}) = Cardinality(Of(es, n)) + 1
    BY <1>2, FS_AddElement
  <1>6. \A s, m : Count(s, f, m) = Cardinality(Of(s, m))
    BY DEF Count
  <1>7. n \in 0..n /\ \A i \in 1..n : i \in 0..n
    BY Appended
  <1> HIDE DEF Of, n, new
  <1>8. \A i \in 1..n : Count(new, f, i) = Count(es, f, i)
    BY <1>1, <1>6, <1>7
  <1>9. Count(es, f, n) \in Nat
    BY <1>2, <1>6
  <1>10. Count(new, f, n + 1) = IF e.uri = f THEN Count(es, f, n) + 1 ELSE Count(es, f, n)
    <2>1. CASE e.uri = f
      <3>1. Cardinality(Of(new, n + 1)) = Cardinality(Of(es, n)) + 1
        BY <1>3, <1>5, <2>1, Zenon
      <3>. QED BY <1>6, <2>1, <3>1, Zenon
    <2>2. CASE e.uri # f
      BY <1>4, <1>6, <2>2
    <2>. QED BY <2>1, <2>2
  <1>. QED BY <1>8, <1>9, <1>10 DEF n, new

\* The texts of f after each of the edits of es.
Texts(es, f, t, x) ==
  x = [i \in 0..Len(es) |->
         IF i = 0 THEN t
         ELSE IF es[i].uri = f THEN ApplyRangeEdit(x[i - 1], es[i].edit) ELSE x[i - 1]]

\* The edits determine the texts.
LEMMA OneText ==
  ASSUME NEW es \in Seq(EditRecord), NEW f, NEW t, NEW x, NEW y,
         Texts(es, f, t, x), Texts(es, f, t, y)
  PROVE  x = y
  <1> DEFINE D == {i \in 0..Len(es) : x[i] # y[i]}
             After(z, i) == IF i = 0 THEN t
               ELSE IF es[i].uri = f THEN ApplyRangeEdit(z[i - 1], es[i].edit) ELSE z[i - 1]
  <1>1. /\ \A i \in 0..Len(es) : x[i] = After(x, i) /\ y[i] = After(y, i)
        /\ x = [i \in 0..Len(es) |-> x[i]]
        /\ y = [i \in 0..Len(es) |-> y[i]]
    BY DEF Texts
  <1>2. D = {}
    <2> SUFFICES ASSUME D # {} PROVE FALSE
      OBVIOUS
    <2>1. PICK n \in D : \A m \in D : n =< m
      <3>1. D \in SUBSET Nat
        OBVIOUS
      <3>. QED BY <3>1, LeastElement
    <2>2. n \in 0..Len(es) /\ n # 0
      BY <1>1
    <2>3. n - 1 \in 0..Len(es) /\ n - 1 \notin D
      BY <2>1, <2>2
    <2>4. x[n - 1] = y[n - 1]
      BY <2>3
    <2>. QED BY <1>1, <2>2, <2>4
  <1>. QED BY <1>1, <1>2

LEMMA ReplayedTexts ==
  ASSUME NEW es \in Seq(EditRecord), NEW f, NEW t, NEW x, Texts(es, f, t, x)
  PROVE  Replayed(es, f, t) = x[Len(es)]
  <1> DEFINE text == CHOOSE z : Texts(es, f, t, z)
  <1>1. text = x
    BY OneText
  <1>2. Replayed(es, f, t) = text[Len(es)]
    BY DEF Replayed, Texts
  <1>. QED BY <1>1, <1>2

LEMMA MoreTexts ==
  ASSUME NEW es \in Seq(EditRecord), NEW e \in EditRecord, NEW f, NEW t, NEW x,
         Texts(es, f, t, x)
  PROVE  \E y : /\ Texts(Append(es, e), f, t, y)
                /\ y[Len(es) + 1] = IF e.uri = f THEN ApplyRangeEdit(x[Len(es)], e.edit)
                                    ELSE x[Len(es)]
  <1> DEFINE n == Len(es) + 1
             new == Append(es, e)
             last == IF e.uri = f THEN ApplyRangeEdit(x[Len(es)], e.edit) ELSE x[Len(es)]
             y == [i \in 0..n |-> IF i = n THEN last ELSE x[i]]
  <1>1. Len(es) \in Nat /\ Len(new) = n /\ new[n] = e /\ \A i \in 1..Len(es) : new[i] = es[i]
    BY Appended
  <1>2. \A i \in 0..Len(es) : x[i] =
          IF i = 0 THEN t
          ELSE IF es[i].uri = f THEN ApplyRangeEdit(x[i - 1], es[i].edit) ELSE x[i - 1]
    BY DEF Texts
  <1>3. ASSUME NEW i \in 0..n
        PROVE  y[i] = IF i = 0 THEN t
                      ELSE IF new[i].uri = f THEN ApplyRangeEdit(y[i - 1], new[i].edit)
                      ELSE y[i - 1]
    <2>1. CASE i = n
      <3>1. i # 0 /\ i - 1 = Len(es) /\ y[i - 1] = x[Len(es)] /\ new[i] = e
        BY <1>1, <2>1
      <3>2. y[i] = last
        BY <2>1
      <3>. QED BY <3>1, <3>2
    <2>2. CASE i # n
      <3>1. i \in 0..Len(es) /\ y[i] = x[i]
        BY <1>1, <2>2
      <3>2. i # 0 => i - 1 \in 0..n /\ y[i - 1] = x[i - 1] /\ new[i] = es[i]
        BY <1>1, <3>1
      <3>. QED BY <1>2, <3>1, <3>2
    <2>. QED BY <2>1, <2>2
  <1>4. Texts(new, f, t, y)
    BY <1>1, <1>3 DEF Texts
  <1>5. y[n] = last
    BY <1>1
  <1>. QED BY <1>4, <1>5

LEMMA NoTexts == \A f, t : Texts(<<>>, f, t, [i \in 0..0 |-> t])
  BY DEF Texts

LEMMA TextsExist ==
  ASSUME NEW es \in Seq(EditRecord), NEW f, NEW t
  PROVE  \E x : Texts(es, f, t, x)
  <1> DEFINE Upto(n) == SubSeq(es, 1, n)
             D == {n \in 0..Len(es) : ~ \E x : Texts(Upto(n), f, t, x)}
  <1>1. D = {}
    <2> SUFFICES ASSUME D # {} PROVE FALSE
      OBVIOUS
    <2>1. PICK n \in D : \A m \in D : n =< m
      <3>1. D \in SUBSET Nat
        OBVIOUS
      <3>. QED BY <3>1, LeastElement
    <2>2. n # 0
      <3>1. Upto(0) = <<>>
        OBVIOUS
      <3>. QED BY <2>1, <3>1, NoTexts
    <2>3. n - 1 \in 0..Len(es) /\ n - 1 \notin D /\ n \in 1..Len(es)
      BY <2>1, <2>2
    <2>4. PICK x : Texts(Upto(n - 1), f, t, x)
      BY <2>3
    <2>5. /\ Upto(n - 1) \in Seq(EditRecord) /\ es[n] \in EditRecord
          /\ Upto(n) = Append(Upto(n - 1), es[n])
      BY <2>3
    <2>6. \E y : Texts(Upto(n), f, t, y)
      <3> HIDE DEF Upto
      <3>1. \E y : Texts(Append(Upto(n - 1), es[n]), f, t, y)
        BY <2>4, <2>5, MoreTexts
      <3>. QED BY <2>5, <3>1
    <2>. QED BY <2>1, <2>6
  <1>2. Len(es) \in 0..Len(es) /\ Upto(Len(es)) = es
    OBVIOUS
  <1>. QED BY <1>1, <1>2

\* What an appended edit does to the replay.
LEMMA ReplayedAppended ==
  ASSUME NEW es \in Seq(EditRecord), NEW e \in EditRecord, NEW f, NEW t
  PROVE  Replayed(Append(es, e), f, t)
           = IF e.uri = f THEN ApplyRangeEdit(Replayed(es, f, t), e.edit) ELSE Replayed(es, f, t)
  <1>1. PICK x : Texts(es, f, t, x)
    BY TextsExist
  <1>2. PICK y : /\ Texts(Append(es, e), f, t, y)
                 /\ y[Len(es) + 1] = IF e.uri = f THEN ApplyRangeEdit(x[Len(es)], e.edit)
                                     ELSE x[Len(es)]
    BY <1>1, MoreTexts
  <1>3. Replayed(es, f, t) = x[Len(es)]
    BY <1>1, ReplayedTexts
  <1>4. Append(es, e) \in Seq(EditRecord) /\ Len(Append(es, e)) = Len(es) + 1
    BY Appended
  <1>5. Replayed(Append(es, e), f, t) = y[Len(es) + 1]
    BY <1>2, <1>4, ReplayedTexts
  <1>. QED BY <1>2, <1>3, <1>5

\* Edits of other files change nothing.
LEMMA ReplayedOthers ==
  ASSUME NEW es \in Seq(EditRecord), NEW f, NEW t, \A i \in DOMAIN es : es[i].uri # f
  PROVE  Replayed(es, f, t) = t /\ Count(es, f, Len(es)) = 0
  <1>1. Texts(es, f, t, [i \in 0..Len(es) |-> t])
    <2> DEFINE x == [i \in 0..Len(es) |-> t]
    <2>1. ASSUME NEW i \in 0..Len(es)
          PROVE  t = IF i = 0 THEN t
                     ELSE IF es[i].uri = f THEN ApplyRangeEdit(x[i - 1], es[i].edit) ELSE x[i - 1]
      <3>1. CASE i = 0
        BY <3>1
      <3>2. CASE i # 0
        <4>1. i \in DOMAIN es /\ i - 1 \in 0..Len(es)
          BY <3>2
        <4>. QED BY <3>2, <4>1
      <3>. QED BY <3>1, <3>2
    <2>. QED BY <2>1 DEF Texts
  <1>2. Replayed(es, f, t) = t
    <2>1. Len(es) \in 0..Len(es)
      OBVIOUS
    <2>. QED BY <1>1, <2>1, ReplayedTexts
  <1>3. {j \in 1..Len(es) : es[j].uri = f} = {}
    OBVIOUS
  <1>. QED BY <1>2, <1>3, FS_EmptySet DEF Count

-----------------------------------------------------------------------------
(* What the recorded edits explain *)

\* p has changed the session's text of f and not recorded the edit yet.
Pending(p, s, f) == sid[p] = s /\ pc[p] \in {"send", "record"} /\ Head(rest[p]).uri = f
Reopening(p, s, f) == sid[p] = s /\ pc[p] = "open" /\ Head(rest[p]).uri = f

\* A file read before is read again only by a call that has no baseline for it.
RereadsUnopened == \A p \in Proc : pc[p] = "baseline" => Head(rest[p]).uri \notin baselines[sid[p]]

\* What the edits recorded so far say of the versions and the text of f, and what
\* the edit in progress adds to them.
Explained(s, f) ==
  LET es == edits[s]
      text == Replayed(es, f, originalContents[s][f])
      known == originalContents[s][f] # NoText IN
  /\ \A i \in DOMAIN es : es[i].uri = f => known /\ es[i].version = Count(es, f, i)
  /\ known => f \in baselines[s] \/ \E p \in Proc : Reopening(p, s, f)
  /\ \A p \in Proc : Pending(p, s, f) =>
       /\ versions[s][f] = Count(es, f, Len(es)) + 1
       /\ known => contents[s][f] = ApplyRangeEdit(text, Head(rest[p]).edit)
  /\ (\A p \in Proc : ~Pending(p, s, f)) =>
       /\ versions[s][f] = Count(es, f, Len(es))
       /\ known => contents[s][f] = text

ReplayInv ==
  RereadsUnopened /\ \A s \in SessionId : ~dirtyErr[s] => \A f \in URI : Explained(s, f)

\* two calls are not inside the semaphore of one session
LEMMA OneHolder ==
  ASSUME IInv, ExecutorMutex, NEW p \in Proc, NEW q \in Proc,
         pc[p] \in Critical, pc[q] \in Critical, sid[p] = sid[q]
  PROVE  p = q /\ sid[p] \in SessionId
  <1>1. sid[p] \in SessionId
    BY DEF IInv, CallInv, Critical
  <1>. QED BY <1>1 DEF ExecutorMutex, Holds

\* a step that touches no text, and moves p between positions that hold none
LEMMA ReplayFrame ==
  ASSUME ReplayInv, NEW p \in Proc, Alone(p), UNCHANGED editVars,
         pc[p] \notin {"open", "send", "record"}, pc'[p] \notin {"send", "record"},
         pc'[p] = "baseline" => Head(rest'[p]).uri \notin baselines[sid'[p]],
         \A s \in SessionId : dirtyErr[s] => dirtyErr'[s]
  PROVE  ReplayInv'
  <1>. USE DEF Alone, editVars
  <1>1. RereadsUnopened'
    BY DEF ReplayInv, RereadsUnopened
  <1>2. ASSUME NEW s \in SessionId, ~dirtyErr'[s], NEW f \in URI PROVE Explained(s, f)'
    <2>1. Explained(s, f)
      BY <1>2 DEF ReplayInv
    <2>2. \A q \in Proc : /\ Reopening(q, s, f) => Reopening(q, s, f)'
                          /\ Pending(q, s, f)' <=> Pending(q, s, f)
      BY DEF Reopening, Pending
    <2>3. \A q \in Proc : Pending(q, s, f) => rest'[q] = rest[q]
      BY DEF Pending
    <2>. QED BY <2>1, <2>2, <2>3 DEF Explained
  <1>. QED BY <1>1, <1>2 DEF ReplayInv

\* a call that fails inside the semaphore
LEMMA ReplayFails ==
  ASSUME IInv, ReplayInv, NEW p \in Proc, Alone(p), FailDirty(p), pc[p] # "idle",
         UNCHANGED editVars
  PROVE  ReplayInv'
  <1>. USE DEF Alone, editVars
  <1>1. /\ sid[p] \in SessionId /\ pc'[p] = "idle" /\ dirtyErr'[sid[p]]
        /\ \A s \in SessionId \ {sid[p]} : dirtyErr'[s] = dirtyErr[s]
    BY DEF FailDirty, MarkDirty, Return, IInv, CallInv, TypeOK, StatType, CallType
  <1>2. RereadsUnopened'
    BY <1>1 DEF ReplayInv, RereadsUnopened
  <1>3. ASSUME NEW s \in SessionId, ~dirtyErr'[s], NEW f \in URI PROVE Explained(s, f)'
    <2>1. s # sid[p] /\ ~dirtyErr[s]
      BY <1>1, <1>3
    <2>2. Explained(s, f)
      BY <2>1 DEF ReplayInv
    <2>3. \A q \in Proc : /\ Reopening(q, s, f) => Reopening(q, s, f)'
                          /\ Pending(q, s, f)' <=> Pending(q, s, f)
      BY <1>1, <2>1 DEF Reopening, Pending
    <2>4. \A q \in Proc : Pending(q, s, f) => rest'[q] = rest[q]
      BY <2>1 DEF Pending
    <2>. QED BY <2>2, <2>3, <2>4 DEF Explained
  <1>. QED BY <1>2, <1>3 DEF ReplayInv

\* The first read of a file finds no edit of it; one that was read is not read again
\* while its session has failed nowhere.
LEMMA SnapshotReplay ==
  ASSUME IInv, ExecutorMutex, ReplayInv, NEW p \in Proc, Snapshot(p)
  PROVE  ReplayInv'
  <1>. DEFINE s0 == sid[p]
              f0 == Head(rest[p]).uri
  <1>e. s0 \in SessionId /\ f0 \in URI /\ disk[f0] \in Text /\ disk[f0] # NoText
    BY EditArgs, TextAssumption DEF Snapshot, ApplyPCs, IInv, TypeOK, DocType
  <1>a. /\ pc[p] = "baseline" /\ pc'[p] = "open"
        /\ \A q \in Proc \ {p} : pc'[q] = pc[q]
        /\ sid' = sid /\ rest' = rest
        /\ UNCHANGED <<edits, baselines, versions, dirtyErr>>
    BY DEF Snapshot, Goto, statVars, IInv, TypeOK, CallType
  <1>b. /\ contents'[s0][f0] = disk[f0]
        /\ originalContents[s0][f0] = NoText => originalContents'[s0][f0] = disk[f0]
        /\ \A s \in SessionId, f \in URI : s # s0 \/ f # f0 =>
             contents'[s][f] = contents[s][f] /\ originalContents'[s][f] = originalContents[s][f]
    BY <1>e DEF Snapshot, IInv, TypeOK, EditType
  <1>1. RereadsUnopened'
    BY <1>a DEF ReplayInv, RereadsUnopened
  <1>2. ASSUME NEW s \in SessionId, ~dirtyErr'[s], NEW f \in URI PROVE Explained(s, f)'
    <2>1. Explained(s, f)
      BY <1>a, <1>2 DEF ReplayInv
    <2>2. \A q \in Proc : /\ Reopening(q, s, f) => Reopening(q, s, f)'
                          /\ Pending(q, s, f)' <=> Pending(q, s, f)
      BY <1>a DEF Reopening, Pending
    <2>3. CASE s # s0 \/ f # f0
      <3>1. /\ edits'[s] = edits[s] /\ versions'[s][f] = versions[s][f]
            /\ contents'[s][f] = contents[s][f]
            /\ originalContents'[s][f] = originalContents[s][f]
            /\ baselines'[s] = baselines[s] /\ rest' = rest
        BY <1>a, <1>b, <2>3
      <3>. QED BY <2>1, <2>2, <3>1 DEF Explained
    <2>4. CASE s = s0 /\ f = f0
      <3>1. \A q \in Proc : ~Pending(q, s, f) /\ ~Reopening(q, s, f)
        BY <1>a, <2>4, OneHolder DEF Pending, Reopening, Critical
      <3>2. f \notin baselines[s]
        BY <1>a, <2>4 DEF ReplayInv, RereadsUnopened
      <3>3. originalContents[s][f] = NoText
        BY <2>1, <3>1, <3>2 DEF Explained
      <3>4. /\ edits[s] \in Seq(EditRecord)
            /\ \A i \in DOMAIN edits[s] : edits[s][i].uri # f
            /\ versions[s][f] = Count(edits[s], f, Len(edits[s]))
        BY <2>1, <3>1, <3>3 DEF Explained, IInv, TypeOK, EditType, EditRecord
      <3>5. /\ originalContents'[s][f] = disk[f] /\ contents'[s][f] = disk[f]
            /\ edits' = edits /\ versions' = versions
        BY <1>a, <1>b, <2>4, <3>3
      <3>6. Replayed(edits[s], f, disk[f]) = disk[f]
        BY <3>4, ReplayedOthers
      <3>7. Reopening(p, s, f)'
        BY <1>a, <2>4 DEF Reopening
      <3>. QED BY <2>2, <3>1, <3>4, <3>5, <3>6, <3>7 DEF Explained
    <2>. QED BY <2>3, <2>4
  <1>. QED BY <1>1, <1>2 DEF ReplayInv

\* a step of an edit that sends the session's text of its file
LEMMA SendReplay ==
  ASSUME IInv, ExecutorMutex, ReplayInv, NEW p \in Proc, BaselineOpen(p) \/ SendChange(p)
  PROVE  ReplayInv'
  <1>. DEFINE s0 == sid[p]
              f0 == Head(rest[p]).uri
  <1>e. s0 \in SessionId /\ f0 \in URI
    BY EditArgs DEF BaselineOpen, SendChange, ApplyPCs
  <1>a. /\ UNCHANGED <<sid, rest, edits, contents, originalContents, versions, dirtyErr>>
        /\ \A q \in Proc \ {p} : pc'[q] = pc[q]
    BY DEF BaselineOpen, SendChange, Goto, locals, editVars, statVars, IInv, TypeOK, CallType
  <1>b. \/ /\ pc[p] = "send" /\ pc'[p] = "record" /\ baselines' = baselines
        \/ /\ pc[p] = "open" /\ pc'[p] = "mutate"
           /\ baselines' = [baselines EXCEPT ![s0] = @ \cup {f0}]
    BY DEF BaselineOpen, SendChange, Goto, editVars, IInv, TypeOK, CallType
  <1>c. /\ f0 \in baselines'[s0] \/ pc[p] # "open"
        /\ \A s \in SessionId : baselines[s] \subseteq baselines'[s]
        /\ \A s \in SessionId \ {s0} : baselines'[s] = baselines[s]
    <2>1. baselines \in [SessionId -> SUBSET URI]
      BY DEF IInv, TypeOK, EditType
    <2>2. CASE baselines' = baselines /\ pc[p] # "open"
      BY <2>2
    <2>3. CASE baselines' = [baselines EXCEPT ![s0] = @ \cup {f0}]
      BY <1>e, <2>1, <2>3
    <2>. QED BY <1>b, <2>2, <2>3
  <1>1. ASSUME NEW q \in Proc, pc'[q] = "baseline"
        PROVE  Head(rest'[q]).uri \notin baselines'[sid'[q]]
    <2>1. q # p /\ pc[q] = "baseline" /\ sid[q] \in SessionId
      BY <1>1, <1>a, <1>b DEF IInv, CallInv
    <2>2. sid[q] # s0
      BY <1>b, <2>1, OneHolder DEF Critical
    <2>. QED BY <1>a, <1>c, <2>1, <2>2 DEF ReplayInv, RereadsUnopened
  <1>2. ASSUME NEW s \in SessionId, ~dirtyErr'[s], NEW f \in URI PROVE Explained(s, f)'
    <2>1. Explained(s, f)
      BY <1>a, <1>2 DEF ReplayInv
    <2>2. \A q \in Proc : /\ Pending(q, s, f)' <=> Pending(q, s, f)
                          /\ Reopening(q, s, f) => Reopening(q, s, f)' \/ f \in baselines'[s]
      BY <1>a, <1>b, <1>c DEF Pending, Reopening
    <2>. QED BY <1>a, <1>c, <2>1, <2>2 DEF Explained
  <1>. QED BY <1>1, <1>2 DEF ReplayInv, RereadsUnopened

\* the text changes before the edit is recorded
LEMMA MutateReplay ==
  ASSUME IInv, ExecutorMutex, ReplayInv, NEW p \in Proc, Mutate(p)
  PROVE  ReplayInv'
  <1>. DEFINE s0 == sid[p]
              f0 == Head(rest[p]).uri
  <1>e. s0 \in SessionId /\ f0 \in URI
    BY EditArgs DEF Mutate, ApplyPCs
  <1>a. /\ pc[p] = "mutate" /\ pc'[p] = "send"
        /\ \A q \in Proc \ {p} : pc'[q] = pc[q]
        /\ UNCHANGED <<sid, rest, edits, originalContents, baselines, dirtyErr>>
    BY DEF Mutate, Goto, locals, statVars, IInv, TypeOK, CallType
  <1>b. /\ contents'[s0][f0] = ApplyRangeEdit(contents[s0][f0], Head(rest[p]).edit)
        /\ versions'[s0][f0] = versions[s0][f0] + 1
        /\ \A s \in SessionId, f \in URI : s # s0 \/ f # f0 =>
             contents'[s][f] = contents[s][f] /\ versions'[s][f] = versions[s][f]
    BY <1>e DEF Mutate, IInv, TypeOK, EditType
  <1>1. RereadsUnopened'
    BY <1>a DEF ReplayInv, RereadsUnopened
  <1>2. ASSUME NEW s \in SessionId, ~dirtyErr'[s], NEW f \in URI PROVE Explained(s, f)'
    <2>1. Explained(s, f)
      BY <1>a, <1>2 DEF ReplayInv
    <2>2. \A q \in Proc : Reopening(q, s, f) => Reopening(q, s, f)'
      BY <1>a DEF Reopening
    <2>3. CASE s # s0 \/ f # f0
      <3>1. \A q \in Proc : Pending(q, s, f)' <=> Pending(q, s, f)
        BY <1>a, <2>3 DEF Pending
      <3>2. /\ edits'[s] = edits[s] /\ versions'[s][f] = versions[s][f]
            /\ contents'[s][f] = contents[s][f]
            /\ originalContents'[s][f] = originalContents[s][f]
            /\ baselines'[s] = baselines[s] /\ rest' = rest
        BY <1>a, <1>b, <2>3
      <3>. QED BY <2>1, <2>2, <3>1, <3>2 DEF Explained
    <2>4. CASE s = s0 /\ f = f0
      <3>1. \A q \in Proc : ~Pending(q, s, f)
        BY <1>a, <2>4, OneHolder DEF Pending, Critical
      <3>2. \A q \in Proc : Pending(q, s, f)' <=> q = p
        BY <1>a, <2>4, <3>1 DEF Pending
      <3>3. /\ versions[s][f] = Count(edits[s], f, Len(edits[s]))
            /\ originalContents[s][f] # NoText =>
                 contents[s][f] = Replayed(edits[s], f, originalContents[s][f])
        BY <2>1, <3>1 DEF Explained
      <3>4. /\ contents'[s][f] = ApplyRangeEdit(contents[s][f], Head(rest[p]).edit)
            /\ versions'[s][f] = versions[s][f] + 1
        BY <1>b, <2>4
      <3>. QED BY <1>a, <2>1, <2>2, <3>2, <3>3, <3>4 DEF Explained
    <2>. QED BY <2>3, <2>4
  <1>. QED BY <1>1, <1>2 DEF ReplayInv

LEMMA RecordReplay ==
  ASSUME IInv, ExecutorMutex, SentIsKnown, ReplayInv, NEW p \in Proc, Record(p), Alone(p)
  PROVE  ReplayInv'
  <1>. DEFINE s0 == sid[p]
              f0 == Head(rest[p]).uri
              e0 == [uri |-> f0, edit |-> Head(rest[p]).edit, version |-> versions[s0][f0]]
  <1>. USE DEF Alone
  <1>e. /\ s0 \in SessionId /\ f0 \in URI /\ e0 \in EditRecord
        /\ originalContents[s0][f0] # NoText
    <2>1. s0 \in SessionId /\ Head(rest[p]).edit \in Edit /\ f0 \in URI
      BY EditArgs DEF Record, ApplyPCs
    <2>2. contents[s0][f0] # NoText
      BY <2>1, EditArgs, TextAssumption DEF Record, ApplyPCs
    <2>3. versions[s0][f0] \in Nat
      BY <2>1 DEF IInv, TypeOK, EditType
    <2>. QED BY <2>1, <2>2, <2>3 DEF EditRecord, SentIsKnown
  <1>a. /\ pc[p] = "record" /\ pc'[p] \in {"evaluate", "idle"}
        /\ UNCHANGED <<contents, originalContents, baselines, versions, dirtyErr>>
    BY DEF Record, Goto, Return, IInv, TypeOK, CallType
  <1>b. /\ edits'[s0] = Append(edits[s0], e0) /\ edits[s0] \in Seq(EditRecord)
        /\ \A s \in SessionId \ {s0} : edits'[s] = edits[s]
    BY <1>e DEF Record, IInv, TypeOK, EditType, EditRecord
  <1>1. RereadsUnopened'
    BY <1>a DEF ReplayInv, RereadsUnopened
  <1>2. ASSUME NEW s \in SessionId, ~dirtyErr'[s], NEW f \in URI PROVE Explained(s, f)'
    <2>1. Explained(s, f)
      BY <1>a, <1>2 DEF ReplayInv
    <2>2. \A q \in Proc : /\ Reopening(q, s, f) => Reopening(q, s, f)'
                          /\ Pending(q, s, f) => rest'[q] = rest[q] \/ q = p
      BY <1>a DEF Reopening, Pending
    <2>3. CASE s # s0
      <3>1. \A q \in Proc : /\ Pending(q, s, f)' <=> Pending(q, s, f)
                            /\ Pending(q, s, f) => rest'[q] = rest[q]
        BY <1>a, <2>3 DEF Pending
      <3>. QED BY <1>a, <1>b, <2>1, <2>2, <2>3, <3>1 DEF Explained
    <2>4. CASE s = s0
      <3> DEFINE es == edits[s]
                 t == originalContents[s][f]
      <3>1. \A q \in Proc : Pending(q, s, f) <=> q = p /\ f = f0
        BY <1>a, <2>4, OneHolder DEF Pending, Critical
      <3>2. \A q \in Proc : ~Pending(q, s, f)'
        BY <1>a, <3>1 DEF Pending
      <3>3. /\ Count(es, f, Len(es)) \in Nat
            /\ \A i \in 1..Len(es) : Count(edits'[s], f, i) = Count(es, f, i)
            /\ Count(edits'[s], f, Len(es) + 1)
                 = IF f0 = f THEN Count(es, f, Len(es)) + 1 ELSE Count(es, f, Len(es))
        <4>1. edits'[s] = Append(es, e0) /\ es \in Seq(EditRecord) /\ e0.uri = f0
          BY <1>b, <2>4
        <4>2. e0 \in EditRecord
          BY <1>e
        <4> HIDE DEF e0, f0, es
        <4>. QED BY <4>1, <4>2, CountAppended
      <3>4. /\ Len(edits'[s]) = Len(es) + 1 /\ DOMAIN edits'[s] = 1..(Len(es) + 1)
            /\ DOMAIN es = 1..Len(es) /\ Len(es) \in Nat
            /\ \A i \in 1..Len(es) : edits'[s][i] = es[i]
            /\ edits'[s][Len(es) + 1] = e0
        BY <1>b, <1>e, <2>4, Appended
      <3>5. Replayed(edits'[s], f, t)
              = IF f0 = f THEN ApplyRangeEdit(Replayed(es, f, t), Head(rest[p]).edit)
                ELSE Replayed(es, f, t)
        <4>1. /\ edits'[s] = Append(es, e0) /\ es \in Seq(EditRecord)
              /\ e0.uri = f0 /\ e0.edit = Head(rest[p]).edit
          BY <1>b, <2>4
        <4>2. e0 \in EditRecord
          BY <1>e
        <4> HIDE DEF e0, f0, es
        <4>. QED BY <4>1, <4>2, ReplayedAppended
      <3>6. /\ versions[s][f] = IF f0 = f THEN Count(es, f, Len(es)) + 1
                                ELSE Count(es, f, Len(es))
            /\ t # NoText => contents[s][f] =
                 IF f0 = f THEN ApplyRangeEdit(Replayed(es, f, t), Head(rest[p]).edit)
                 ELSE Replayed(es, f, t)
        BY <2>1, <3>1 DEF Explained
      <3>7. ASSUME NEW i \in DOMAIN edits'[s], edits'[s][i].uri = f
            PROVE  t # NoText /\ edits'[s][i].version = Count(edits'[s], f, i)
        <4>1. CASE i = Len(es) + 1
          <5>1. edits'[s][i] = e0 /\ f0 = f
            BY <3>4, <3>7, <4>1
          <5>2. t # NoText /\ e0.version = versions[s][f]
            BY <1>e, <2>4, <5>1
          <5>3. versions[s][f] = Count(edits'[s], f, i)
            BY <3>3, <3>6, <4>1, <5>1
          <5>. QED BY <5>1, <5>2, <5>3
        <4>2. CASE i # Len(es) + 1
          <5>1. i \in 1..Len(es) /\ edits'[s][i] = es[i]
            BY <3>4, <3>7, <4>2
          <5>. QED BY <2>1, <3>3, <3>4, <3>7, <5>1 DEF Explained
        <4>. QED BY <4>1, <4>2
      <3>8. t # NoText => f \in baselines[s] \/ \E q \in Proc : Reopening(q, s, f)'
        BY <2>1, <2>2 DEF Explained
      <3>. QED BY <1>a, <3>2, <3>3, <3>4, <3>5, <3>6, <3>7, <3>8 DEF Explained
    <2>. QED BY <2>3, <2>4
  <1>. QED BY <1>1, <1>2 DEF ReplayInv

\* the steps that change no edit and no text
LEMMA QuietReplay ==
  ASSUME IInv, ReplayInv, NEW p \in Proc, Alone(p),
         \/ ApplyCheck(p) \/ ApplyAcquire(p) \/ EvaluateCheck(p) \/ EvaluateAcquire(p)
         \/ EvaluateDone(p) \/ AcquireCancelled(p) \/ CommitCheck(p) \/ CommitWrite(p)
         \/ CommitWriteFails(p) \/ CommitNotify(p) \/ CommitDone(p) \/ DiscardCheck(p)
         \/ DiscardAcquire(p) \/ DiscardRevert(p) \/ DiscardDone(p) \/ Destroy(p) \/ NewCall(p)
  PROVE  ReplayInv'
  <1>. USE DEF statVars, locals
  <1>0. /\ pc \in [Proc -> PCs] /\ dirtyErr \in [SessionId -> BOOLEAN]
        /\ pc[p] # "idle" => sid[p] \in SessionId
    BY DEF IInv, CallInv, TypeOK, CallType, StatType
  <1>1. /\ UNCHANGED editVars
        /\ pc[p] \notin {"open", "send", "record"}
        /\ pc'[p] \in {"baseline"} => ApplyAcquire(p)
        /\ pc'[p] \notin {"send", "record"}
        /\ \A s \in SessionId : dirtyErr[s] => dirtyErr'[s]
    <2>1. CASE ApplyCheck(p) \/ EvaluateCheck(p) \/ DiscardCheck(p) \/ AcquireCancelled(p)
               \/ ApplyAcquire(p) \/ EvaluateAcquire(p) \/ EvaluateDone(p)
      BY <1>0, <2>1 DEF ApplyCheck, EvaluateCheck, DiscardCheck, AcquireCancelled, ApplyAcquire,
         EvaluateAcquire, EvaluateDone, Goto, Return
    <2>2. CASE CommitCheck(p) \/ CommitWrite(p) \/ CommitWriteFails(p) \/ CommitNotify(p)
               \/ CommitDone(p)
      BY <1>0, <2>2 DEF CommitCheck, CommitWrite, CommitWriteFails, CommitNotify, CommitDone,
         MarkDirty, Goto, Return
    <2>3. CASE DiscardAcquire(p) \/ DiscardRevert(p) \/ DiscardDone(p) \/ Destroy(p)
      BY <1>0, <2>3 DEF DiscardAcquire, DiscardRevert, DiscardDone, Destroy, Goto, Return
    <2>4. CASE NewCall(p)
      BY <1>0, <2>4 DEF NewCall, CallApplyEdit, CallSimulateChain, CallEvaluate, CallCommit,
         CallDiscard, CallDestroy, Call
    <2>. QED BY <2>1, <2>2, <2>3, <2>4
  <1>2. ApplyAcquire(p) /\ pc'[p] = "baseline" => Head(rest'[p]).uri \notin baselines[sid'[p]]
    BY <1>0 DEF ApplyAcquire, Goto
  <1>. QED BY <1>1, <1>2, ReplayFrame

LEMMA NextReplay ==
  IInv /\ ExecutorMutex /\ TextInv /\ ReplayInv /\ [Next]_vars => ReplayInv'
  <1>. SUFFICES ASSUME IInv, ExecutorMutex, TextInv, ReplayInv, [Next]_vars PROVE ReplayInv'
    OBVIOUS
  <1>1. CASE (\E s \in SessionId : CreateSession(s)) \/ (\E f \in URI : ExternalWrite(f))
             \/ UNCHANGED vars
    <2>1. UNCHANGED <<contents, originalContents, edits, versions, baselines, pc, sid, rest,
                      dirtyErr>>
      BY <1>1 DEF CreateSession, ExternalWrite, vars, editVars, callVars, statVars
    <2>. QED BY <2>1 DEF ReplayInv, RereadsUnopened, Explained, Pending, Reopening
  <1>2. ASSUME NEW p \in Proc, NewCall(p) \/ Step(p) \/ AcquireStep(p) \/ AcquireCancelled(p)
        PROVE  ReplayInv'
    <2>1. CASE Snapshot(p)
      BY <2>1, SnapshotReplay
    <2>2. CASE ~Snapshot(p)
      <3>0. Alone(p)
        BY <1>2, <2>2, StepIsAlone
      <3>1. CASE SnapshotFails(p) \/ BaselineOpenFails(p) \/ SendChangeFails(p)
                 \/ DiscardRevertFails(p)
        BY <3>0, <3>1, ReplayFails DEF SnapshotFails, BaselineOpenFails, SendChangeFails,
           DiscardRevertFails
      <3>2. CASE BaselineOpen(p) \/ SendChange(p) \/ Mutate(p) \/ Record(p)
        BY <3>0, <3>2, SendReplay, MutateReplay, RecordReplay DEF TextInv
      <3>. QED BY <1>2, <2>2, <3>0, <3>1, <3>2, QuietReplay DEF Step, AcquireStep
    <2>. QED BY <2>1, <2>2
  <1>. QED BY <1>1, <1>2 DEF Next

LEMMA InitReplay == Init => ReplayInv
  <1>. SUFFICES ASSUME Init PROVE ReplayInv
    OBVIOUS
  <1>1. \A p \in Proc : pc[p] = "idle"
    BY DEF Init
  <1>2. ASSUME NEW s \in SessionId, NEW f \in URI PROVE Explained(s, f)
    <2>1. /\ edits[s] = <<>> /\ versions[s][f] = 0 /\ originalContents[s][f] = NoText
      BY <1>2 DEF Init
    <2>2. Count(<<>>, f, Len(<<>>)) = 0
      <3>1. <<>> \in Seq(EditRecord) /\ DOMAIN (<<>>) = {}
        OBVIOUS
      <3>. QED BY <3>1, ReplayedOthers
    <2>. QED BY <1>1, <2>1, <2>2 DEF Explained, Pending
  <1>. QED BY <1>1, <1>2 DEF ReplayInv, RereadsUnopened

\* While no call is changing the documents of a session that failed nowhere, its
\* recorded edits number each file's versions without a gap, and replayed on the
\* content first read give the text the session holds: whatever the edits, and
\* however many calls make them at once, none is lost, doubled or out of order.
THEOREM EditsExplain == Spec => []EditsExplainContents
  <1>1. ASSUME ReplayInv, NEW s \in SessionId, ~dirtyErr[s], ~Busy(s), NEW f \in URI
        PROVE  /\ versions[s][f] = Count(edits[s], f, Len(edits[s]))
               /\ \A i \in DOMAIN edits[s] :
                    edits[s][i].uri = f => edits[s][i].version = Count(edits[s], f, i)
               /\ originalContents[s][f] # NoText =>
                    contents[s][f] = Replayed(edits[s], f, originalContents[s][f])
    <2>1. Explained(s, f) /\ \A p \in Proc : ~Pending(p, s, f)
      BY <1>1 DEF ReplayInv, Busy, Pending
    <2>. QED BY <2>1 DEF Explained
  <1>2. ReplayInv => EditsExplainContents
    BY <1>1 DEF EditsExplainContents
  <1>3. Spec => []ReplayInv
    BY TextInvHolds, InitReplay, NextReplay, PTL DEF Spec
  <1>. QED BY <1>2, <1>3, PTL
=============================================================================
