-------------------------- MODULE DiagnosticsProofs --------------------------
(***************************************************************************)
(* Theorems about Diagnostics, for any number of callers, documents,        *)
(* contents and notifications and for every kind of server.                 *)
(*                                                                         *)
(* A change travels to the server, is read, analysed and published, and     *)
(* travels back.  While c's edit of u is the last change, Stage says where  *)
(* it is, OnlyLast that nothing else carries its version, AtMostOne that    *)
(* nothing else is under way when nothing was at the mark.  Either is how a *)
(* wait tells the publication of the edit from an older one.  A server that *)
(* leaves out what it published before is right about the client's cache    *)
(* while documents are closed and opened in order (InOrder).                *)
(***************************************************************************)
EXTENDS Diagnostics, TLAPS

(***************************************************************************)
(* The streams, the server and the cache, of one document                  *)
(***************************************************************************)

Has(q, u) == \E i \in DOMAIN q : q[i].uri = u

LastOn(q, u, i) ==
  i \in DOMAIN q /\ q[i].uri = u /\ \A j \in DOMAIN q : j > i => q[j].uri # u

\* a message of kind k
Is(i, u, k) == toServer[i].uri = u /\ toServer[i].kind = k

\* once it has read what it was sent, the server has the document open
OpenAtEnd(u) ==
  \/ \E i \in DOMAIN toServer :
       Is(i, u, "open") /\ \A j \in DOMAIN toServer : j > i => ~Is(j, u, "close")
  \/ srvDoc[u] # NoDoc /\ \A j \in DOMAIN toServer : ~Is(j, u, "close")

\* once it has read what was published, the client has t cached
Shows(u, t) ==
  \/ \E i \in DOMAIN toClient : LastOn(toClient, u, i) /\ toClient[i].text = t
  \/ ~Has(toClient, u) /\ diags[u] = t

Closing(u) == \E i \in DOMAIN toServer : Is(i, u, "close")

\* a server that leaves out unchanged diagnostics is right about what the client has
Remembered(u) ==
  \/ lastPub[u] = NoText
  \/ Shows(u, lastPub[u])
  \/ \E i \in DOMAIN toServer : Is(i, u, "open")

InOrder(u) == (Closing(u) => OpenAtEnd(u)) /\ Remembered(u)

\* every version of the document that is about is lower than v
Below(u, v) ==
  /\ \A i \in DOMAIN toServer : toServer[i].uri = u => toServer[i].version < v
  /\ srvDoc[u] # NoDoc => srvDoc[u].version < v
  /\ analysing[u] # NoDoc => analysing[u].version < v
  /\ \A i \in DOMAIN toClient : toClient[i].uri = u => toClient[i].version < v
  /\ diagVersion[u] < v

\* the last change, version v with text t, is on its way, read or published
Queued(u, v, t) ==
  \E i \in DOMAIN toServer :
    /\ LastOn(toServer, u, i) /\ toServer[i].kind # "close"
    /\ toServer[i].version = v /\ toServer[i].text = t

Read(u, v, t) ==
  /\ ~Has(toServer, u)
  /\ srvDoc[u] = [version |-> v, text |-> t]
  /\ u \in stale \/ analysing[u] = srvDoc[u]

Published(u, t) ==
  ~Has(toServer, u) /\ u \notin stale /\ analysing[u] = NoDoc /\ lastPub[u] = t

Stage(u, v, t) == Queued(u, v, t) \/ Read(u, v, t) \/ Published(u, t)

\* only the last change has version v, and what follows from it
OnlyLast(u, v, t) ==
  /\ \A i \in DOMAIN toServer :
       toServer[i].uri = u /\ toServer[i].version >= v =>
         LastOn(toServer, u, i) /\ toServer[i].text = t
  /\ srvDoc[u] # NoDoc /\ srvDoc[u].version >= v =>
       srvDoc[u].text = t /\ ~Has(toServer, u)
  /\ analysing[u] # NoDoc /\ analysing[u].version >= v =>
       analysing[u].text = t /\ u \notin stale /\ ~Has(toServer, u)
  /\ \A i \in DOMAIN toClient :
       toClient[i].uri = u /\ toClient[i].version >= v =>
         LastOn(toClient, u, i) /\ Published(u, t)
  /\ diagVersion[u] >= v => ~Has(toClient, u) /\ Published(u, t)

\* at most one thing about the document is under way
AtMostOne(u) ==
  /\ \A i, j \in DOMAIN toServer : toServer[i].uri = u /\ toServer[j].uri = u => i = j
  /\ \A i, j \in DOMAIN toClient : toClient[i].uri = u /\ toClient[j].uri = u => i = j
  /\ Has(toServer, u) => u \notin stale /\ analysing[u] = NoDoc /\ ~Has(toClient, u)
  /\ u \in stale => analysing[u] = NoDoc /\ ~Has(toClient, u)
  /\ analysing[u] # NoDoc => ~Has(toClient, u)

(***************************************************************************)
(* The invariant                                                           *)
(***************************************************************************)

On(c, u) == call[c] # NoCall /\ call[c].uri = u

\* c's edit of u has not been sent yet
Editing(c, u) == On(c, u) /\ pc[c] \in {"lookupEdit", "assignEdit", "sendEdit"}

\* what travels and what is analysed are texts with a version
Texts ==
  /\ \A i \in DOMAIN toServer :
       toServer[i].kind # "close" => toServer[i].version > 0 /\ toServer[i].text \in Text
  /\ \A u \in URI : srvDoc[u] # NoDoc => srvDoc[u].version > 0
  /\ \A u \in URI : analysing[u] # NoDoc => analysing[u].version > 0

\* what a call knows at its step
Steps ==
  \A c \in Caller :
    /\ call[c] = NoCall <=> pc[c] \in {"idle", "waiting", "settled", "unsettled"}
    /\ pc[c] \in {"send", "sendEdit"} => call[c].version > 0
    /\ pc[c] = "close" => past[call[c].uri] = "restarted"
    /\ pc[c] \in {"lookupEdit", "assignEdit", "sendEdit", "markVersion"} =>
         call[c].text = sent[c][call[c].uri] /\ marks[c][call[c].uri] # NoMark

\* what a call on u knows of its version
CallVersion(c, u) ==
  /\ call[c].version <= openDocs[u]
  /\ call[c].fresh \/ openDocs[u] > 0
  /\ pc[c] \in {"send", "sendEdit", "markVersion"} => openDocs[u] > 0

Versions ==
  \A u \in URI : past[u] # "restarted" =>
    /\ Below(u, openDocs[u] + 1)
    /\ \A c \in Caller : On(c, u) => CallVersion(c, u)

NeverClosed ==
  \A u \in URI : past[u] = "never" =>
    /\ \A i \in DOMAIN toServer : ~Is(i, u, "close")
    /\ server.versioned =>
         \A i \in DOMAIN toClient : toClient[i].uri = u => toClient[i].version > 0

\* c is about to open u
Opener(c, u) ==
  /\ On(c, u)
  /\ \/ pc[c] \in {"lookupReopen", "reopen"}
     \/ call[c].fresh /\ pc[c] \in {"assign", "send", "assignEdit", "sendEdit"}

Ordered(u) == InOrder(u) /\ (openDocs[u] > 0 => OpenAtEnd(u))

Opens ==
  \A u \in URI : past[u] # "restarted" =>
    (\E c \in Caller : Opener(c, u)) \/ Ordered(u)

\* while c's edit of u is the last change
OwnBefore(c, u) ==
  /\ InOrder(u)
  /\ openDocs[u] > 0 =>
       OpenAtEnd(u) \/ (On(c, u) /\ pc[c] = "sendEdit" /\ call[c].fresh)
  /\ On(c, u) /\ pc[c] = "assignEdit" =>
       call[c].version = openDocs[u] /\ (call[c].fresh <=> openDocs[u] = 0)
  /\ On(c, u) /\ pc[c] = "sendEdit" =>
       call[c].version = openDocs[u] /\ Below(u, openDocs[u])

OwnAfter(c, u) ==
  ~Editing(c, u) =>
    /\ openDocs[u] > 0
    /\ Stage(u, openDocs[u], sent[c][u])
    /\ OnlyLast(u, openDocs[u], sent[c][u])
    /\ marks[c][u].version = openDocs[u] \/ (On(c, u) /\ pc[c] = "markVersion")

\* what has been published since the mark
OwnCalm(c, u) ==
  calm[c][u] =>
    /\ AtMostOne(u)
    /\ UnderWay(u) => diagGen[u] = marks[c][u].gen
    /\ Editing(c, u) => ~UnderWay(u) /\ diagGen[u] = marks[c][u].gen

OwnVersioned(c, u) ==
  server.versioned /\ past[u] = "never" /\ diagGen[u] # marks[c][u].gen =>
    diagVersion[u] > 0

OwnAll(c, u) ==
  /\ marks[c][u] # NoMark /\ sent[c][u] \in Text
  /\ OwnBefore(c, u) /\ OwnAfter(c, u) /\ OwnCalm(c, u) /\ OwnVersioned(c, u)

Own ==
  \A c \in Caller, u \in URI : alone[c][u] /\ past[u] # "restarted" => OwnAll(c, u)

Settled ==
  \A c \in Caller, u \in URI :
    pc[c] = "settled" /\ u \in Marked(c) /\ OwnEdit(c, u) /\ Identified(c, u) =>
      Published(u, sent[c][u]) /\ ~Has(toClient, u)

DiagInv ==
  /\ TypeOK /\ Texts /\ Steps
  /\ Versions /\ NeverClosed /\ Opens
  /\ Own /\ Settled

(***************************************************************************)
(* Sequences, and steps that do not concern a document                     *)
(***************************************************************************)

LEMMA AppendFacts ==
  ASSUME NEW S, NEW q \in Seq(S), NEW m \in S
  PROVE  /\ Append(q, m) \in Seq(S)
         /\ Len(q) \in Nat /\ DOMAIN q = 1..Len(q)
         /\ DOMAIN Append(q, m) = 1..(Len(q) + 1)
         /\ \A i \in 1..Len(q) : Append(q, m)[i] = q[i] /\ q[i] \in S
         /\ Append(q, m)[Len(q) + 1] = m
  OBVIOUS

LEMMA TailFacts ==
  ASSUME NEW S, NEW q \in Seq(S), q # <<>>
  PROVE  /\ Tail(q) \in Seq(S)
         /\ Len(q) \in Nat /\ Len(q) > 0 /\ DOMAIN q = 1..Len(q)
         /\ DOMAIN Tail(q) = 1..(Len(q) - 1)
         /\ \A i \in 1..(Len(q) - 1) : Tail(q)[i] = q[i + 1]
         /\ \A i \in 1..Len(q) : q[i] \in S
         /\ Head(q) = q[1] /\ Head(q) \in S
  OBVIOUS

\* r carries the elements of q about u, in their order
Same(q, r, u) ==
  \E k \in {0, 1} :
    /\ \A i \in DOMAIN r : r[i].uri = u => i + k \in DOMAIN q /\ q[i + k] = r[i]
    /\ \A i \in DOMAIN q : q[i].uri = u => i - k \in DOMAIN r /\ r[i - k] = q[i]

LEMMA SameSelf ==
  ASSUME NEW S, NEW q \in Seq(S), NEW u
  PROVE  Same(q, q, u)
<1>1. \A i \in DOMAIN q : i \in Int
  OBVIOUS
<1> QED
  BY <1>1 DEF Same

LEMMA SameAppend ==
  ASSUME NEW S, NEW q \in Seq(S), NEW m \in S, NEW u, m.uri # u
  PROVE  Same(q, Append(q, m), u)
<1>1. \A i \in DOMAIN Append(q, m) :
        Append(q, m)[i].uri = u => i + 0 \in DOMAIN q /\ q[i + 0] = Append(q, m)[i]
  BY AppendFacts
<1>2. \A i \in DOMAIN q :
        q[i].uri = u => i - 0 \in DOMAIN Append(q, m) /\ Append(q, m)[i - 0] = q[i]
  BY AppendFacts
<1> QED
  BY <1>1, <1>2 DEF Same

LEMMA SameTail ==
  ASSUME NEW S, NEW q \in Seq(S), q # <<>>, NEW u, Head(q).uri # u
  PROVE  Same(q, Tail(q), u)
<1>1. \A i \in DOMAIN Tail(q) :
        Tail(q)[i].uri = u => i + 1 \in DOMAIN q /\ q[i + 1] = Tail(q)[i]
  BY TailFacts
<1>2. \A i \in DOMAIN q :
        q[i].uri = u => i - 1 \in DOMAIN Tail(q) /\ Tail(q)[i - 1] = q[i]
  BY TailFacts
<1> QED
  BY <1>1, <1>2 DEF Same

\* k is the shift of one such pair of sequences
Shifted(q, r, u, k) ==
  /\ k \in {0, 1}
  /\ \A i \in DOMAIN r : r[i].uri = u => i + k \in DOMAIN q /\ q[i + k] = r[i]
  /\ \A i \in DOMAIN q : q[i].uri = u => i - k \in DOMAIN r /\ r[i - k] = q[i]

LEMMA ShiftedFacts ==
  ASSUME NEW S, NEW q \in Seq(S), NEW r \in Seq(S), NEW u, NEW k, Shifted(q, r, u, k)
  PROVE  /\ Has(q, u) <=> Has(r, u)
         /\ \A i \in DOMAIN r : LastOn(r, u, i) => LastOn(q, u, i + k)
         /\ \A i \in DOMAIN q : LastOn(q, u, i) => LastOn(r, u, i - k)
<1>1. DOMAIN q = 1..Len(q) /\ DOMAIN r = 1..Len(r) /\ Len(q) \in Nat /\ Len(r) \in Nat
  OBVIOUS
<1>2. \A i \in DOMAIN r : r[i].uri = u => i + k \in DOMAIN q /\ q[i + k] = r[i]
  BY DEF Shifted
<1>3. \A i \in DOMAIN q : q[i].uri = u => i - k \in DOMAIN r /\ r[i - k] = q[i]
  BY DEF Shifted
<1>4. k = 0 \/ k = 1
  BY DEF Shifted
<1>5. Has(q, u) <=> Has(r, u)
  BY <1>2, <1>3 DEF Has
<1>6. ASSUME NEW i \in DOMAIN r, LastOn(r, u, i) PROVE LastOn(q, u, i + k)
  <2>1. i + k \in DOMAIN q /\ q[i + k].uri = u
    BY <1>2, <1>6 DEF LastOn
  <2>2. ASSUME NEW j \in DOMAIN q, j > i + k, q[j].uri = u PROVE FALSE
    <3>1. j - k \in DOMAIN r /\ r[j - k].uri = u
      BY <1>3, <2>2
    <3>2. j - k > i
      BY <1>1, <1>4, <2>2
    <3> QED
      BY <1>6, <3>1, <3>2 DEF LastOn
  <2> QED
    BY <2>1, <2>2 DEF LastOn
<1>7. ASSUME NEW i \in DOMAIN q, LastOn(q, u, i) PROVE LastOn(r, u, i - k)
  <2>1. i - k \in DOMAIN r /\ r[i - k].uri = u
    BY <1>3, <1>7 DEF LastOn
  <2>2. ASSUME NEW j \in DOMAIN r, j > i - k, r[j].uri = u PROVE FALSE
    <3>1. j + k \in DOMAIN q /\ q[j + k].uri = u
      BY <1>2, <2>2
    <3>2. j + k > i
      BY <1>1, <1>4, <2>2
    <3> QED
      BY <1>7, <3>1, <3>2 DEF LastOn
  <2> QED
    BY <2>1, <2>2 DEF LastOn
<1> QED
  BY <1>5, <1>6, <1>7

\* the step leaves the server's and the client's view of u alone
SameDoc(u) ==
  /\ Same(toServer, toServer', u) /\ Same(toClient, toClient', u)
  /\ srvDoc'[u] = srvDoc[u] /\ (u \in stale' <=> u \in stale)
  /\ analysing'[u] = analysing[u] /\ lastPub'[u] = lastPub[u]
  /\ diags'[u] = diags[u] /\ diagGen'[u] = diagGen[u] /\ diagVersion'[u] = diagVersion[u]

Streams == toServer \in Seq(Msg) /\ toClient \in Seq(Publication)

LEMMA SameDocKeeps ==
  ASSUME Streams, Streams', NEW u \in URI, SameDoc(u)
  PROVE  /\ OpenAtEnd(u) => OpenAtEnd(u)'
         /\ Has(toServer', u) <=> Has(toServer, u)
         /\ Has(toClient', u) <=> Has(toClient, u)
         /\ \A t : Published(u, t) => Published(u, t)'
         /\ InOrder(u) => InOrder(u)'
         /\ \A v : Below(u, v) => Below(u, v)'
         /\ \A v, t : Stage(u, v, t) => Stage(u, v, t)'
         /\ \A v, t : OnlyLast(u, v, t) => OnlyLast(u, v, t)'
         /\ AtMostOne(u) => AtMostOne(u)'
         /\ UnderWay(u)' => UnderWay(u)
<1>1. PICK k : Shifted(toServer, toServer', u, k)
  BY DEF SameDoc, Same, Shifted
<1>2. PICK l : Shifted(toClient, toClient', u, l)
  BY DEF SameDoc, Same, Shifted
<1>3. /\ toServer \in Seq(Msg) /\ toServer' \in Seq(Msg)
      /\ toClient \in Seq(Publication) /\ toClient' \in Seq(Publication)
  BY DEF Streams
<1>s. /\ \A i \in DOMAIN toServer' :
           toServer'[i].uri = u => i + k \in DOMAIN toServer /\ toServer[i + k] = toServer'[i]
      /\ \A i \in DOMAIN toServer :
           toServer[i].uri = u => i - k \in DOMAIN toServer' /\ toServer'[i - k] = toServer[i]
      /\ k \in {0, 1}
      /\ DOMAIN toServer \subseteq Int /\ DOMAIN toServer' \subseteq Int
      /\ Has(toServer, u) <=> Has(toServer', u)
      /\ \A i \in DOMAIN toServer' : LastOn(toServer', u, i) => LastOn(toServer, u, i + k)
      /\ \A i \in DOMAIN toServer : LastOn(toServer, u, i) => LastOn(toServer', u, i - k)
  <2>1. DOMAIN toServer \subseteq Int /\ DOMAIN toServer' \subseteq Int
    BY <1>3
  <2>2. /\ Has(toServer, u) <=> Has(toServer', u)
        /\ \A i \in DOMAIN toServer' : LastOn(toServer', u, i) => LastOn(toServer, u, i + k)
        /\ \A i \in DOMAIN toServer : LastOn(toServer, u, i) => LastOn(toServer', u, i - k)
    BY <1>1, <1>3, ShiftedFacts
  <2> QED
    BY <1>1, <2>1, <2>2 DEF Shifted
<1>c. /\ \A i \in DOMAIN toClient' :
           toClient'[i].uri = u => i + l \in DOMAIN toClient /\ toClient[i + l] = toClient'[i]
      /\ \A i \in DOMAIN toClient :
           toClient[i].uri = u => i - l \in DOMAIN toClient' /\ toClient'[i - l] = toClient[i]
      /\ l \in {0, 1}
      /\ DOMAIN toClient \subseteq Int /\ DOMAIN toClient' \subseteq Int
      /\ Has(toClient, u) <=> Has(toClient', u)
      /\ \A i \in DOMAIN toClient' : LastOn(toClient', u, i) => LastOn(toClient, u, i + l)
      /\ \A i \in DOMAIN toClient : LastOn(toClient, u, i) => LastOn(toClient', u, i - l)
  <2>1. DOMAIN toClient \subseteq Int /\ DOMAIN toClient' \subseteq Int
    BY <1>3
  <2>2. /\ Has(toClient, u) <=> Has(toClient', u)
        /\ \A i \in DOMAIN toClient' : LastOn(toClient', u, i) => LastOn(toClient, u, i + l)
        /\ \A i \in DOMAIN toClient : LastOn(toClient, u, i) => LastOn(toClient', u, i - l)
    BY <1>2, <1>3, ShiftedFacts
  <2> QED
    BY <1>2, <2>1, <2>2 DEF Shifted
<1>4. /\ srvDoc'[u] = srvDoc[u] /\ (u \in stale' <=> u \in stale)
      /\ analysing'[u] = analysing[u] /\ lastPub'[u] = lastPub[u]
      /\ diags'[u] = diags[u] /\ diagVersion'[u] = diagVersion[u]
  BY DEF SameDoc
<1>5. Closing(u)' => Closing(u)
  BY <1>s DEF Closing, Is
<1>6. ASSUME OpenAtEnd(u) PROVE OpenAtEnd(u)'
  <2>1. CASE srvDoc[u] # NoDoc /\ \A j \in DOMAIN toServer : ~Is(j, u, "close")
    BY <2>1, <1>s, <1>4 DEF OpenAtEnd, Is
  <2>2. CASE \E i \in DOMAIN toServer :
               Is(i, u, "open") /\ \A j \in DOMAIN toServer : j > i => ~Is(j, u, "close")
    <3>1. PICK i \in DOMAIN toServer :
            Is(i, u, "open") /\ \A j \in DOMAIN toServer : j > i => ~Is(j, u, "close")
      BY <2>2
    <3>2. i - k \in DOMAIN toServer' /\ Is(i - k, u, "open")'
      BY <3>1, <1>s DEF Is
    <3>3. ASSUME NEW j \in DOMAIN toServer', j > i - k, Is(j, u, "close")' PROVE FALSE
      <4>1. j + k \in DOMAIN toServer /\ Is(j + k, u, "close")
        BY <3>3, <1>s DEF Is
      <4>2. j + k > i
        BY <3>3, <1>s, i \in Int, j \in Int
      <4> QED
        BY <3>1, <4>1, <4>2
    <3> QED
      BY <3>2, <3>3 DEF OpenAtEnd
  <2> QED
    BY <1>6, <2>1, <2>2 DEF OpenAtEnd
<1>7. \A t : Shows(u, t) => Shows(u, t)'
  BY <1>c, <1>4 DEF Shows, LastOn
<1>8. Remembered(u) => Remembered(u)'
  BY <1>7, <1>s, <1>4 DEF Remembered, Is
<1>9. InOrder(u) => InOrder(u)'
  BY <1>5, <1>6, <1>8 DEF InOrder
<1>10. \A v : Below(u, v) => Below(u, v)'
  BY <1>s, <1>c, <1>4 DEF Below
<1>11. \A t : Published(u, t) => Published(u, t)'
  BY <1>s, <1>4 DEF Published
<1>12. ASSUME NEW v, NEW t PROVE Stage(u, v, t) => Stage(u, v, t)'
  <2>1. Read(u, v, t) => Read(u, v, t)'
    BY <1>s, <1>4 DEF Read
  <2>2. Queued(u, v, t) => Queued(u, v, t)'
    BY <1>s DEF Queued, LastOn
  <2> QED
    BY <2>1, <2>2, <1>11 DEF Stage
<1>13. ASSUME NEW v, NEW t, OnlyLast(u, v, t) PROVE OnlyLast(u, v, t)'
  <2>1. ASSUME NEW i \in DOMAIN toServer', toServer'[i].uri = u, toServer'[i].version >= v
        PROVE  LastOn(toServer', u, i) /\ toServer'[i].text = t
    <3>1. i + k \in DOMAIN toServer /\ toServer[i + k] = toServer'[i]
      BY <2>1, <1>s
    <3>2. LastOn(toServer, u, i + k) /\ toServer[i + k].text = t
      BY <3>1, <2>1, <1>13 DEF OnlyLast
    <3>3. (i + k) - k = i
      BY <1>s, i \in Int
    <3> QED
      BY <3>1, <3>2, <3>3, <1>s
  <2>2. ASSUME NEW i \in DOMAIN toClient', toClient'[i].uri = u, toClient'[i].version >= v
        PROVE  LastOn(toClient', u, i) /\ Published(u, t)'
    <3>1. i + l \in DOMAIN toClient /\ toClient[i + l] = toClient'[i]
      BY <2>2, <1>c
    <3>2. LastOn(toClient, u, i + l) /\ Published(u, t)
      BY <3>1, <2>2, <1>13 DEF OnlyLast
    <3>3. (i + l) - l = i
      BY <1>c, i \in Int
    <3> QED
      BY <3>1, <3>2, <3>3, <1>c, <1>11
  <2>3. /\ srvDoc'[u] # NoDoc /\ srvDoc'[u].version >= v =>
             srvDoc'[u].text = t /\ ~Has(toServer', u)
        /\ analysing'[u] # NoDoc /\ analysing'[u].version >= v =>
             analysing'[u].text = t /\ u \notin stale' /\ ~Has(toServer', u)
        /\ diagVersion'[u] >= v => ~Has(toClient', u) /\ Published(u, t)'
    BY <1>13, <1>s, <1>c, <1>4, <1>11 DEF OnlyLast
  <2> QED
    BY <2>1, <2>2, <2>3 DEF OnlyLast
<1>14. AtMostOne(u) => AtMostOne(u)'
  <2> SUFFICES ASSUME AtMostOne(u) PROVE AtMostOne(u)'
    OBVIOUS
  <2>1. ASSUME NEW i \in DOMAIN toServer', NEW j \in DOMAIN toServer',
               toServer'[i].uri = u, toServer'[j].uri = u
        PROVE  i = j
    <3>1. i + k = j + k
      BY <2>1, <1>s DEF AtMostOne
    <3>2. i \in Int /\ j \in Int /\ k \in Int
      BY <2>1, <1>s
    <3> QED
      BY <3>1, <3>2
  <2>2. ASSUME NEW i \in DOMAIN toClient', NEW j \in DOMAIN toClient',
               toClient'[i].uri = u, toClient'[j].uri = u
        PROVE  i = j
    <3>1. i + l = j + l
      BY <2>2, <1>c DEF AtMostOne
    <3>2. i \in Int /\ j \in Int /\ l \in Int
      BY <2>2, <1>c
    <3> QED
      BY <3>1, <3>2
  <2> QED
    BY <2>1, <2>2, <1>s, <1>c, <1>4 DEF AtMostOne
<1>15. UnderWay(u)' => UnderWay(u)
  BY <1>s, <1>c, <1>4 DEF UnderWay
<1> QED
  BY <1>s, <1>c, <1>6, <1>9, <1>10, <1>11, <1>12, <1>13, <1>14, <1>15

(***************************************************************************)
(* Steps of the streams about one document                                 *)
(***************************************************************************)

USE DEF Streams

LEMMA HasTail ==
  ASSUME NEW S, NEW q \in Seq(S), q # <<>>, NEW u
  PROVE  /\ Has(Tail(q), u) => Has(q, u)
         /\ \A i \in DOMAIN q : q[i].uri = u => i = 1 \/ Has(Tail(q), u)
         /\ \A i \in DOMAIN Tail(q) : LastOn(Tail(q), u, i) <=> LastOn(q, u, i + 1)
         /\ LastOn(q, u, 1) => ~Has(Tail(q), u)
<1> DEFINE r == Tail(q)
<1>1. /\ Len(q) \in Nat /\ Len(q) > 0 /\ DOMAIN q = 1..Len(q)
      /\ DOMAIN r = 1..(Len(q) - 1)
      /\ \A i \in 1..(Len(q) - 1) : r[i] = q[i + 1]
  BY TailFacts
<1>2. \A i \in DOMAIN q : q[i].uri = u => i = 1 \/ Has(r, u)
  <2> SUFFICES ASSUME NEW i \in DOMAIN q, q[i].uri = u, i # 1 PROVE Has(r, u)
    OBVIOUS
  <2>1. i - 1 \in DOMAIN r /\ r[i - 1] = q[i]
    BY <1>1
  <2> QED
    BY <2>1 DEF Has
<1>3. Has(r, u) => Has(q, u)
  BY <1>1 DEF Has
<1>4. ASSUME NEW i \in DOMAIN r PROVE LastOn(r, u, i) <=> LastOn(q, u, i + 1)
  <2>1. i + 1 \in DOMAIN q /\ r[i] = q[i + 1]
    BY <1>1
  <2>2. ASSUME LastOn(r, u, i), NEW j \in DOMAIN q, j > i + 1 PROVE q[j].uri # u
    <3>1. j - 1 \in DOMAIN r /\ r[j - 1] = q[j] /\ j - 1 > i
      BY <2>2, <1>1
    <3> QED
      BY <2>2, <3>1 DEF LastOn
  <2>3. ASSUME LastOn(q, u, i + 1), NEW j \in DOMAIN r, j > i PROVE r[j].uri # u
    <3>1. j + 1 \in DOMAIN q /\ r[j] = q[j + 1] /\ j + 1 > i + 1
      BY <2>3, <1>1
    <3> QED
      BY <2>3, <3>1 DEF LastOn
  <2> QED
    BY <2>1, <2>2, <2>3 DEF LastOn
<1>5. LastOn(q, u, 1) => ~Has(r, u)
  <2> SUFFICES ASSUME LastOn(q, u, 1), NEW i \in DOMAIN r PROVE r[i].uri # u
    BY DEF Has
  <2>1. i + 1 \in DOMAIN q /\ r[i] = q[i + 1] /\ i + 1 > 1
    BY <1>1
  <2> QED
    BY <2>1 DEF LastOn
<1> QED
  BY <1>2, <1>3, <1>4, <1>5

LEMMA HasAppend ==
  ASSUME NEW S, NEW q \in Seq(S), NEW m \in S, NEW u
  PROVE  /\ Has(Append(q, m), u) <=> Has(q, u) \/ m.uri = u
         /\ m.uri = u => LastOn(Append(q, m), u, Len(q) + 1)
<1>1. /\ Len(q) \in Nat /\ DOMAIN q = 1..Len(q)
      /\ DOMAIN Append(q, m) = 1..(Len(q) + 1)
      /\ \A i \in 1..Len(q) : Append(q, m)[i] = q[i]
      /\ Append(q, m)[Len(q) + 1] = m
  BY AppendFacts
<1> QED
  BY <1>1 DEF Has, LastOn

\* what a step of the server, or one that delivers a publication, does to u
Kept(u) ==
  /\ InOrder(u) => InOrder(u)'
  /\ OpenAtEnd(u) => OpenAtEnd(u)'
  /\ \A v \in Nat \ {0} : Below(u, v) => Below(u, v)'
  /\ \A v \in Nat \ {0}, t \in Text :
       InOrder(u) /\ OpenAtEnd(u) /\ Stage(u, v, t) => Stage(u, v, t)'
  /\ \A v \in Nat \ {0}, t \in Text :
       OpenAtEnd(u) /\ OnlyLast(u, v, t) => OnlyLast(u, v, t)'
  /\ AtMostOne(u) => AtMostOne(u)'
  /\ UnderWay(u)' => UnderWay(u)
  /\ \A t \in Text : ~Has(toClient, u) /\ Published(u, t) =>
       ~Has(toClient', u) /\ Published(u, t)'
  /\ ~UnderWay(u) => diagGen'[u] = diagGen[u]
  /\ AtMostOne(u) /\ diagGen'[u] # diagGen[u] => ~UnderWay(u)'

LEMMA SameDocKept ==
  ASSUME Streams, Streams', NEW u \in URI, SameDoc(u)
  PROVE  Kept(u)
BY SameDocKeeps DEF Kept, SameDoc

LEMMA DeliverKeeps ==
  ASSUME TypeOK, Deliver, NEW u \in URI
  PROVE  Kept(u)
<1> DEFINE p == Head(toClient)
<1>1. /\ toClient # <<>> /\ toClient' = Tail(toClient)
      /\ diags' = [diags EXCEPT ![p.uri] = p.text]
      /\ diagGen' = [diagGen EXCEPT ![p.uri] = @ + 1]
      /\ diagVersion' = [diagVersion EXCEPT ![p.uri] = p.version]
      /\ toServer' = toServer
      /\ srvDoc' = srvDoc /\ stale' = stale /\ analysing' = analysing /\ lastPub' = lastPub
  BY DEF Deliver, serverVars
<1>2. /\ toServer \in Seq(Msg) /\ toClient \in Seq(Publication)
      /\ diags \in [URI -> Text \cup {NoText}]
      /\ diagGen \in [URI -> Nat] /\ diagVersion \in [URI -> Nat]
  BY DEF TypeOK
<1>3. /\ toClient' \in Seq(Publication)
      /\ Len(toClient) \in Nat /\ Len(toClient) > 0 /\ DOMAIN toClient = 1..Len(toClient)
      /\ DOMAIN toClient' = 1..(Len(toClient) - 1)
      /\ \A i \in 1..(Len(toClient) - 1) : toClient'[i] = toClient[i + 1]
      /\ p = toClient[1] /\ p \in Publication
  BY <1>1, <1>2, TailFacts
<1>4. p.uri \in URI /\ p.version \in Nat
  BY <1>3 DEF Publication
<1>5. CASE p.uri # u
  <2>1. SameDoc(u)
    BY <1>1, <1>2, <1>4, <1>5, SameSelf, SameTail DEF SameDoc
  <2> QED
    BY <1>1, <1>2, <1>3, <2>1, SameDocKept
<1>6. CASE p.uri = u
  <2>1. /\ diags'[u] = p.text /\ diagGen'[u] = diagGen[u] + 1
        /\ diagVersion'[u] = p.version
    BY <1>1, <1>2, <1>6
  <2>2. /\ Has(toClient', u) => Has(toClient, u)
        /\ \A i \in DOMAIN toClient : toClient[i].uri = u => i = 1 \/ Has(toClient', u)
        /\ \A i \in DOMAIN toClient' : LastOn(toClient', u, i) <=> LastOn(toClient, u, i + 1)
        /\ LastOn(toClient, u, 1) => ~Has(toClient', u)
    BY <1>1, <1>2, HasTail
  <2>3. Has(toClient, u) /\ UnderWay(u)
    BY <1>3, <1>6 DEF Has, UnderWay
  <2>4. OpenAtEnd(u)' <=> OpenAtEnd(u)
    BY <1>1 DEF OpenAtEnd, Is
  <2>5. Closing(u)' <=> Closing(u)
    BY <1>1 DEF Closing, Is
  <2>6. \A t : Published(u, t)' <=> Published(u, t)
    BY <1>1 DEF Published, Has
  <2>7. \A v, t : Stage(u, v, t)' <=> Stage(u, v, t)
    BY <1>1 DEF Stage, Queued, Read, Published, Has, LastOn
  <2>8. ASSUME NEW t, Shows(u, t) PROVE Shows(u, t)'
    <3>1. PICK i \in DOMAIN toClient : LastOn(toClient, u, i) /\ toClient[i].text = t
      BY <2>3, <2>8 DEF Shows
    <3>2. CASE i = 1
      BY <3>1, <3>2, <2>1, <2>2, <1>3 DEF Shows
    <3>3. CASE i # 1
      <4>1. /\ i - 1 \in DOMAIN toClient' /\ toClient'[i - 1] = toClient[i]
            /\ (i - 1) + 1 = i
        BY <3>1, <3>3, <1>3
      <4> QED
        BY <3>1, <4>1, <2>2 DEF Shows
    <3> QED
      BY <3>2, <3>3
  <2>9. InOrder(u) => InOrder(u)'
    BY <1>1, <2>4, <2>5, <2>8 DEF InOrder, Remembered, Is
  <2>10. \A v \in Nat \ {0} : Below(u, v) => Below(u, v)'
    BY <1>1, <1>3, <1>6, <2>1 DEF Below
  <2>11. ASSUME NEW v \in Nat \ {0}, NEW t \in Text, OnlyLast(u, v, t)
         PROVE  OnlyLast(u, v, t)'
    <3>1. ASSUME NEW i \in DOMAIN toClient', toClient'[i].uri = u, toClient'[i].version >= v
          PROVE  LastOn(toClient', u, i) /\ Published(u, t)'
      <4>1. i + 1 \in DOMAIN toClient /\ toClient'[i] = toClient[i + 1]
        BY <1>3
      <4>2. LastOn(toClient, u, i + 1) /\ Published(u, t)
        BY <4>1, <3>1, <2>11 DEF OnlyLast
      <4> QED
        BY <4>2, <2>2, <2>6
    <3>2. diagVersion'[u] >= v => ~Has(toClient', u) /\ Published(u, t)'
      BY <2>1, <1>3, <1>6, <2>11, <2>2, <2>6 DEF OnlyLast
    <3> QED
      BY <3>1, <3>2, <2>11, <1>1 DEF OnlyLast, LastOn, Has
  <2>12. ASSUME AtMostOne(u) PROVE AtMostOne(u)' /\ ~UnderWay(u)'
    <3>1. ~Has(toClient', u)
      <4> SUFFICES ASSUME NEW i \in DOMAIN toClient', toClient'[i].uri = u PROVE FALSE
        BY DEF Has
      <4>1. i + 1 \in DOMAIN toClient /\ toClient[i + 1].uri = u /\ i + 1 # 1
        BY <1>3
      <4>2. 1 \in DOMAIN toClient /\ toClient[1].uri = u
        BY <1>3, <1>6
      <4> QED
        BY <4>1, <4>2, <2>12 DEF AtMostOne
    <3> QED
      BY <3>1, <2>12, <2>3, <1>1 DEF AtMostOne, UnderWay, Has
  <2>13. UnderWay(u)' => UnderWay(u)
    BY <2>3
  <2> QED
    BY <2>3, <2>4, <2>7, <2>9, <2>10, <2>11, <2>12 DEF Kept
<1> QED
  BY <1>5, <1>6

LEMMA AnalysesKeeps ==
  ASSUME TypeOK, NEW w \in URI, ServerAnalyses(w), NEW u \in URI
  PROVE  Kept(u)
<1>1. /\ w \in stale /\ analysing[w] = NoDoc
      /\ analysing' = [analysing EXCEPT ![w] = srvDoc[w]]
      /\ stale' = stale \ {w}
      /\ toServer' = toServer /\ toClient' = toClient
      /\ srvDoc' = srvDoc /\ lastPub' = lastPub
      /\ diags' = diags /\ diagGen' = diagGen /\ diagVersion' = diagVersion
  BY DEF ServerAnalyses, clientVars
<1>2. /\ toServer \in Seq(Msg) /\ toClient \in Seq(Publication)
      /\ analysing \in [URI -> Doc \cup {NoDoc}] /\ srvDoc \in [URI -> Doc \cup {NoDoc}]
      /\ NoDoc \notin Doc
  BY NoneAssumption DEF TypeOK
<1>3. CASE w # u
  <2>1. SameDoc(u)
    BY <1>1, <1>2, <1>3, SameSelf DEF SameDoc
  <2> QED
    BY <1>1, <1>2, <2>1, SameDocKept
<1>4. CASE w = u
  <2>1. analysing'[u] = srvDoc[u] /\ u \notin stale' /\ u \in stale /\ analysing[u] = NoDoc
    BY <1>1, <1>2, <1>4
  <2>2. /\ OpenAtEnd(u)' <=> OpenAtEnd(u)
        /\ InOrder(u)' <=> InOrder(u)
    BY <1>1 DEF OpenAtEnd, InOrder, Closing, Remembered, Shows, Has, LastOn, Is
  <2>3. \A v \in Nat \ {0} : Below(u, v) => Below(u, v)'
    BY <1>1, <2>1 DEF Below
  <2>4. ~Published(u, NoText) /\ \A t : ~Published(u, t)
    BY <2>1 DEF Published
  <2>5. \A v, t : Stage(u, v, t) => Stage(u, v, t)'
    BY <1>1, <2>1, <2>4 DEF Stage, Queued, Read, Has, LastOn
  <2>6. \A v, t : OnlyLast(u, v, t) => OnlyLast(u, v, t)'
    BY <1>1, <2>1, <2>4 DEF OnlyLast, Has, LastOn
  <2>7. AtMostOne(u) => AtMostOne(u)'
    BY <1>1, <2>1 DEF AtMostOne, Has
  <2>8. UnderWay(u) /\ diagGen'[u] = diagGen[u]
    BY <1>1, <2>1 DEF UnderWay
  <2> QED
    BY <2>2, <2>3, <2>4, <2>5, <2>6, <2>7, <2>8 DEF Kept
<1> QED
  BY <1>3, <1>4

LEMMA ShowsAppended ==
  ASSUME toClient \in Seq(Publication), NEW m \in Publication,
         toClient' = Append(toClient, m)
  PROVE  Shows(m.uri, m.text)'
<1>1. LastOn(toClient', m.uri, Len(toClient) + 1)
  BY HasAppend
<1>2. Len(toClient) + 1 \in DOMAIN toClient' /\ toClient'[Len(toClient) + 1] = m
  BY AppendFacts
<1> QED
  BY <1>1, <1>2 DEF Shows

LEMMA PublishesKeeps ==
  ASSUME TypeOK, Texts, NEW w \in URI, ServerPublishes(w), NEW u \in URI
  PROVE  Kept(u)
<1> DEFINE d == analysing[w]
           n == [uri |-> w, version |-> IF server.versioned THEN d.version ELSE 0,
                 text |-> d.text]
<1>1. /\ d # NoDoc
      /\ analysing' = [analysing EXCEPT ![w] = NoDoc]
      /\ lastPub' = [lastPub EXCEPT ![w] = d.text]
      /\ toClient' = Append(toClient, n) \/ (lastPub[w] = d.text /\ toClient' = toClient)
      /\ toServer' = toServer /\ srvDoc' = srvDoc /\ stale' = stale
      /\ diags' = diags /\ diagGen' = diagGen /\ diagVersion' = diagVersion
  BY DEF ServerPublishes, clientVars
<1>2. /\ toServer \in Seq(Msg) /\ toClient \in Seq(Publication)
      /\ analysing \in [URI -> Doc \cup {NoDoc}]
      /\ lastPub \in [URI -> Text \cup {NoText}]
      /\ diagVersion \in [URI -> Nat]
  BY DEF TypeOK
<1>3. d \in Doc /\ d.version \in Nat /\ d.text \in Text /\ d.version > 0
  BY <1>1, <1>2 DEF Doc, Texts
<1>n. n \in Publication
  BY <1>3 DEF Publication
<1>m. PICK m \in Publication : m = n
  BY <1>n
<1>4. /\ m.uri = w /\ m.version <= d.version /\ m.version \in Nat /\ m.text = d.text
      /\ toClient' = Append(toClient, m) \/ (lastPub[w] = d.text /\ toClient' = toClient)
  BY <1>1, <1>3, <1>m
<1>a. /\ Append(toClient, m) \in Seq(Publication)
      /\ DOMAIN toClient = 1..Len(toClient) /\ Len(toClient) \in Nat
      /\ DOMAIN Append(toClient, m) = 1..(Len(toClient) + 1)
      /\ \A i \in 1..Len(toClient) : Append(toClient, m)[i] = toClient[i]
      /\ Append(toClient, m)[Len(toClient) + 1] = m
      /\ LastOn(Append(toClient, m), w, Len(toClient) + 1)
  <2> HIDE DEF d, n
  <2>1. toClient \in Seq(Publication) /\ m \in Publication /\ m.uri = w
    BY <1>2, <1>4
  <2>2. LastOn(Append(toClient, m), w, Len(toClient) + 1)
    BY <2>1, HasAppend
  <2> QED
    BY <2>1, <2>2, AppendFacts
<1>5. toClient' \in Seq(Publication)
  BY <1>2, <1>4, <1>a
<1>6. CASE w # u
  <2>1. SameDoc(u)
    BY <1>1, <1>2, <1>4, <1>6, SameSelf, SameAppend DEF SameDoc
  <2> QED
    BY <1>1, <1>2, <1>5, <2>1, SameDocKept
<1>7. CASE w = u
  <2>1. /\ analysing[u] # NoDoc /\ analysing'[u] = NoDoc /\ lastPub'[u] = d.text
        /\ analysing[u] = d /\ UnderWay(u)
    BY <1>1, <1>2, <1>7 DEF UnderWay
  <2>2. /\ DOMAIN toClient = 1..Len(toClient) /\ Len(toClient) \in Nat
        /\ \/ toClient' = toClient
           \/ /\ DOMAIN toClient' = 1..(Len(toClient) + 1)
              /\ \A i \in 1..Len(toClient) : toClient'[i] = toClient[i]
              /\ toClient'[Len(toClient) + 1] = m
              /\ LastOn(toClient', u, Len(toClient) + 1)
    BY <1>4, <1>7, <1>a
  <2>3. \A t : ~Published(u, t)
    BY <2>1 DEF Published
  <2>4. OpenAtEnd(u)' <=> OpenAtEnd(u)
    BY <1>1 DEF OpenAtEnd, Is
  <2>5. Remembered(u) => Remembered(u)'
    <3>1. CASE toClient' = Append(toClient, m)
      <4>1. Shows(u, m.text)'
        BY <3>1, <1>2, <1>4, <1>7, ShowsAppended
      <4>2. lastPub'[u] = m.text
        BY <1>4, <2>1
      <4> QED
        BY <4>1, <4>2 DEF Remembered
    <3>2. CASE lastPub[w] = d.text /\ toClient' = toClient
      BY <3>2, <1>1, <1>7, <2>1 DEF Remembered, Shows, Has, LastOn, Is
    <3> QED
      BY <1>4, <3>1, <3>2
  <2>6. InOrder(u) => InOrder(u)'
    BY <2>4, <2>5, <1>1 DEF InOrder, Closing, Is
  <2>7. ASSUME NEW v \in Nat \ {0}, Below(u, v) PROVE Below(u, v)'
    <3>1. \A i \in DOMAIN toClient' : toClient'[i].uri = u => toClient'[i].version < v
      <4>1. d.version < v
        BY <2>1, <2>7 DEF Below
      <4>2. m.version < v
        BY <4>1, <1>3, <1>4
      <4> QED
        BY <4>2, <2>2, <2>7 DEF Below
    <3> QED
      BY <3>1, <2>7, <2>1, <1>1 DEF Below
  <2>8. ASSUME NEW v \in Nat \ {0}, NEW t \in Text, InOrder(u), Stage(u, v, t)
        PROVE  Stage(u, v, t)'
    <3>1. CASE Queued(u, v, t)
      BY <3>1, <1>1 DEF Stage, Queued, LastOn
    <3>2. CASE Read(u, v, t) /\ u \in stale
      BY <3>2, <1>1 DEF Stage, Read, Has
    <3>3. CASE Read(u, v, t) /\ u \notin stale
      <4>1. d.text = t
        BY <3>3, <2>1 DEF Read
      <4> QED
        BY <4>1, <3>3, <2>1, <1>1 DEF Stage, Read, Published, Has
    <3> QED
      BY <2>3, <2>8, <3>1, <3>2, <3>3 DEF Stage
  <2>9. ASSUME NEW v \in Nat \ {0}, NEW t \in Text, OnlyLast(u, v, t)
        PROVE  OnlyLast(u, v, t)'
    <3>1. /\ \A i \in DOMAIN toClient : toClient[i].uri = u => ~(toClient[i].version >= v)
          /\ ~(diagVersion[u] >= v)
      BY <2>3, <2>9 DEF OnlyLast
    <3>2. d.version >= v => Published(u, t)'
      BY <2>9, <2>1, <1>1 DEF OnlyLast, Published, Has
    <3>3. m.version >= v => d.version >= v
      BY <1>3, <1>4
    <3>4. ASSUME NEW i \in DOMAIN toClient', toClient'[i].uri = u, toClient'[i].version >= v
          PROVE  LastOn(toClient', u, i) /\ Published(u, t)'
      BY <3>4, <3>1, <3>2, <3>3, <2>2
    <3> QED
      BY <3>1, <3>4, <2>9, <1>1, <2>1 DEF OnlyLast, Has, LastOn
  <2>10. ASSUME AtMostOne(u) PROVE AtMostOne(u)'
    <3>1. ~Has(toClient, u) /\ u \notin stale /\ ~Has(toServer, u)
      BY <2>10, <2>1 DEF AtMostOne
    <3>2. \A i, j \in DOMAIN toClient' : toClient'[i].uri = u /\ toClient'[j].uri = u => i = j
      BY <3>1, <2>2 DEF Has
    <3> QED
      BY <3>1, <3>2, <2>10, <2>1, <1>1 DEF AtMostOne, Has
  <2> QED
    BY <2>1, <2>3, <2>4, <2>6, <2>7, <2>8, <2>9, <2>10, <1>1 DEF Kept
<1> QED
  BY <1>6, <1>7

LEMMA ReadsKeeps ==
  ASSUME TypeOK, Texts, ServerReads, NEW u \in URI
  PROVE  Kept(u)
<1> DEFINE h == Head(toServer)
<1>1. PICK m \in Msg : m = h
  BY TailFacts DEF TypeOK, ServerReads
<1>2. /\ toServer \in Seq(Msg) /\ toServer # <<>> /\ toClient \in Seq(Publication)
      /\ srvDoc \in [URI -> Doc \cup {NoDoc}] /\ analysing \in [URI -> Doc \cup {NoDoc}]
      /\ lastPub \in [URI -> Text \cup {NoText}] /\ stale \subseteq URI
      /\ diagVersion \in [URI -> Nat] /\ NoDoc \notin Doc
  BY NoneAssumption DEF TypeOK, ServerReads
<1>3. /\ Tail(toServer) \in Seq(Msg)
      /\ Len(toServer) \in Nat /\ Len(toServer) > 0 /\ DOMAIN toServer = 1..Len(toServer)
      /\ DOMAIN Tail(toServer) = 1..(Len(toServer) - 1)
      /\ \A i \in 1..(Len(toServer) - 1) : Tail(toServer)[i] = toServer[i + 1]
      /\ m = toServer[1]
  BY <1>1, <1>2, TailFacts
<1>4. /\ m.uri \in URI /\ m.version \in Nat /\ m.kind \in {"open", "change", "close"}
      /\ m.kind # "close" => m.version > 0 /\ m.text \in Text
  BY <1>3 DEF Msg, Texts
<1> DEFINE w == m.uri
           new == [version |-> m.version, text |-> m.text]
           Opened == /\ m.kind = "open" \/ (m.kind = "change" /\ srvDoc[w] # NoDoc)
                     /\ srvDoc' = [srvDoc EXCEPT ![w] = new]
                     /\ stale' = stale \cup {w}
                     /\ lastPub' = [lastPub EXCEPT ![w] = IF m.kind = "open" THEN NoText ELSE @]
                     /\ analysing' = analysing /\ toClient' = toClient
           Ignored == /\ m.kind = "change" /\ srvDoc[w] = NoDoc
                      /\ srvDoc' = srvDoc /\ stale' = stale /\ analysing' = analysing
                      /\ lastPub' = lastPub /\ toClient' = toClient
           Closed == /\ m.kind = "close"
                     /\ srvDoc' = [srvDoc EXCEPT ![w] = NoDoc]
                     /\ stale' = stale \ {w}
                     /\ analysing' = [analysing EXCEPT ![w] = NoDoc]
                     /\ lastPub' = lastPub
<1> DEFINE e == [uri |-> w, version |-> 0, text |-> NoText]
<1>5. /\ toServer' = Tail(toServer)
      /\ diags' = diags /\ diagGen' = diagGen /\ diagVersion' = diagVersion
      /\ \/ Opened
         \/ Ignored
         \/ Closed /\ (toClient' = Append(toClient, e) \/ toClient' = toClient)
  BY <1>1 DEF ServerReads, clientVars, serverVars
<1>n. e \in Publication
  BY <1>4 DEF Publication
<1>p. PICK p \in Publication : p = e
  BY <1>n
<1>6. p.uri = w /\ p.version = 0 /\ p.text = NoText
  BY <1>p
<1>7. /\ Append(toClient, p) \in Seq(Publication)
      /\ DOMAIN toClient = 1..Len(toClient) /\ Len(toClient) \in Nat
      /\ DOMAIN Append(toClient, p) = 1..(Len(toClient) + 1)
      /\ \A i \in 1..Len(toClient) : Append(toClient, p)[i] = toClient[i]
      /\ Append(toClient, p)[Len(toClient) + 1] = p
  BY <1>2, AppendFacts
<1>8. Closed => toClient' = Append(toClient, p) \/ toClient' = toClient
  BY <1>5, <1>p
<1>9. Streams'
  BY <1>2, <1>3, <1>5, <1>7, <1>8
<1>10. Opened \/ Ignored \/ Closed
  BY <1>5
<1> HIDE DEF h, e, new
<1>11. CASE w # u
  <2>1. Same(toServer, toServer', u) /\ Same(toClient, toClient', u)
    <3>1. Same(toServer, Tail(toServer), u)
      BY <1>1, <1>2, <1>11, SameTail DEF h
    <3>2. Same(toClient, toClient, u)
      BY <1>2, SameSelf
    <3>3. Same(toClient, Append(toClient, p), u)
      BY <1>2, <1>6, <1>11, SameAppend
    <3> QED
      BY <3>1, <3>2, <3>3, <1>5, <1>8, <1>10
  <2>2. SameDoc(u)
    BY <2>1, <1>2, <1>4, <1>5, <1>10, <1>11 DEF SameDoc
  <2> QED
    BY <2>2, <1>2, <1>9, SameDocKept
<1>12. CASE w = u
  <2>1. /\ Has(toServer', u) => Has(toServer, u)
        /\ \A i \in DOMAIN toServer : toServer[i].uri = u => i = 1 \/ Has(toServer', u)
        /\ \A i \in DOMAIN toServer' : LastOn(toServer', u, i) <=> LastOn(toServer, u, i + 1)
        /\ LastOn(toServer, u, 1) => ~Has(toServer', u)
    <3>1. /\ Has(Tail(toServer), u) => Has(toServer, u)
          /\ \A i \in DOMAIN toServer :
               toServer[i].uri = u => i = 1 \/ Has(Tail(toServer), u)
          /\ \A i \in DOMAIN Tail(toServer) :
               LastOn(Tail(toServer), u, i) <=> LastOn(toServer, u, i + 1)
          /\ LastOn(toServer, u, 1) => ~Has(Tail(toServer), u)
      BY <1>2, HasTail
    <3> QED
      BY <3>1, <1>5
  <2>2. /\ DOMAIN toServer' = 1..(Len(toServer) - 1)
        /\ \A i \in DOMAIN toServer' : toServer'[i] = toServer[i + 1] /\ i + 1 \in DOMAIN toServer
        /\ \A i \in DOMAIN toServer : i # 1 =>
             i - 1 \in DOMAIN toServer' /\ toServer'[i - 1] = toServer[i] /\ (i - 1) + 1 = i
        /\ 1 \in DOMAIN toServer /\ toServer[1].uri = u
    BY <1>3, <1>5, <1>12
  <2>3. Has(toServer, u) /\ UnderWay(u)
    BY <2>2 DEF Has, UnderWay
  <2>4. \A t : ~Published(u, t)
    BY <2>3 DEF Published
  <2>5. /\ Opened => srvDoc'[u] = new /\ new # NoDoc /\ u \in stale'
                     /\ analysing'[u] = analysing[u]
                     /\ lastPub'[u] = IF m.kind = "open" THEN NoText ELSE lastPub[u]
        /\ Closed => srvDoc'[u] = NoDoc /\ u \notin stale' /\ analysing'[u] = NoDoc
    <3>1. Opened => new \in Doc
      BY <1>4 DEF Doc, new
    <3> QED
      BY <3>1, <1>2, <1>4, <1>12
  <2>6. Is(1, u, m.kind) /\ \A i \in DOMAIN toServer' : \A k : Is(i, u, k)' <=> Is(i + 1, u, k)
    BY <2>2, <1>3, <1>12 DEF Is
  <2>7. Closing(u)' => Closing(u)
    BY <2>2, <2>6 DEF Closing
  <2>8. ASSUME OpenAtEnd(u) PROVE OpenAtEnd(u)'
    <3>1. CASE srvDoc[u] # NoDoc /\ \A j \in DOMAIN toServer : ~Is(j, u, "close")
      <4>1. m.kind # "close" /\ srvDoc'[u] # NoDoc
        BY <3>1, <2>2, <2>5, <2>6, <1>10, <1>12
      <4>2. \A j \in DOMAIN toServer' : ~Is(j, u, "close")'
        BY <3>1, <2>2, <2>6
      <4> QED
        BY <4>1, <4>2 DEF OpenAtEnd
    <3>2. CASE \E i \in DOMAIN toServer :
                 Is(i, u, "open") /\ \A j \in DOMAIN toServer : j > i => ~Is(j, u, "close")
      <4>1. PICK i \in DOMAIN toServer :
              Is(i, u, "open") /\ \A j \in DOMAIN toServer : j > i => ~Is(j, u, "close")
        BY <3>2
      <4>2. \A j \in DOMAIN toServer' : j > i - 1 => ~Is(j, u, "close")'
        <5> SUFFICES ASSUME NEW j \in DOMAIN toServer', j > i - 1, Is(j, u, "close")'
                     PROVE  FALSE
          OBVIOUS
        <5>1. j + 1 \in DOMAIN toServer /\ Is(j + 1, u, "close") /\ j + 1 > i
          BY <2>2, <2>6, <1>3
        <5> QED
          BY <5>1, <4>1
      <4>3. CASE i = 1
        <5>1. m.kind = "open" /\ srvDoc'[u] # NoDoc
          BY <4>1, <4>3, <2>5, <2>6, <1>10 DEF Is
        <5>2. \A j \in DOMAIN toServer' : ~Is(j, u, "close")'
          BY <4>2, <4>3, <2>2, <1>3
        <5> QED
          BY <5>1, <5>2 DEF OpenAtEnd
      <4>4. CASE i # 1
        <5>1. i - 1 \in DOMAIN toServer' /\ Is(i - 1, u, "open")'
          BY <4>1, <4>4, <2>2 DEF Is
        <5> QED
          BY <5>1, <4>2 DEF OpenAtEnd
      <4> QED
        BY <4>3, <4>4
    <3> QED
      BY <2>8, <3>1, <3>2 DEF OpenAtEnd
  <2>9. toClient' = toClient => \A t : Shows(u, t) => Shows(u, t)'
    BY <1>5 DEF Shows, Has, LastOn
  <2>10. ASSUME InOrder(u) PROVE InOrder(u)'
    <3>1. \A i \in DOMAIN toServer :
            Is(i, u, "open") => m.kind = "open" \/ \E j \in DOMAIN toServer' : Is(j, u, "open")'
      BY <2>2, <2>6 DEF Is
    <3>2. CASE Closed
      <4>1. OpenAtEnd(u)'
        BY <3>2, <2>2, <2>6, <2>8, <2>10 DEF InOrder, Closing
      <4>2. \E i \in DOMAIN toServer' : Is(i, u, "open")'
        BY <3>2, <4>1, <2>5 DEF OpenAtEnd
      <4> QED
        BY <4>1, <4>2 DEF InOrder, Remembered
    <3>3. CASE Opened /\ m.kind = "open"
      <4>1. lastPub'[u] = NoText
        BY <3>3, <2>5
      <4> QED
        BY <4>1, <2>7, <2>8, <2>10 DEF InOrder, Remembered
    <3>4. CASE (Opened /\ m.kind # "open") \/ Ignored
      <4>1. lastPub'[u] = lastPub[u] /\ toClient' = toClient /\ m.kind # "open"
        BY <3>4, <2>5
      <4> QED
        BY <4>1, <3>1, <2>7, <2>8, <2>9, <2>10 DEF InOrder, Remembered
    <3> QED
      BY <1>10, <3>2, <3>3, <3>4
  <2>11. \A i \in DOMAIN toServer' : toServer'[i] = toServer[i + 1] /\ i + 1 \in DOMAIN toServer
    BY <2>2
  <2>12. \/ toClient' = toClient
         \/ /\ Closed
            /\ DOMAIN toClient' = 1..(Len(toClient) + 1)
            /\ \A i \in 1..Len(toClient) : toClient'[i] = toClient[i]
            /\ toClient'[Len(toClient) + 1] = p
    BY <1>7, <1>8, <1>10
  <2>13. ASSUME NEW v \in Nat \ {0}, Below(u, v) PROVE Below(u, v)'
    <3>1. m.version < v
      BY <2>2, <2>13, <1>3 DEF Below
    <3>2. srvDoc'[u] # NoDoc => srvDoc'[u].version < v
      BY <3>1, <2>5, <2>13, <1>10 DEF Below, new
    <3>3. analysing'[u] # NoDoc => analysing'[u].version < v
      BY <2>5, <2>13, <1>10 DEF Below
    <3>4. \A i \in DOMAIN toClient' : toClient'[i].uri = u => toClient'[i].version < v
      BY <2>12, <2>13, <1>6, <1>7 DEF Below
    <3> QED
      BY <3>2, <3>3, <3>4, <2>11, <2>13, <1>5 DEF Below
  <2>14. ASSUME NEW v \in Nat \ {0}, NEW t \in Text, OpenAtEnd(u), Stage(u, v, t)
         PROVE  Stage(u, v, t)'
    <3>1. PICK i \in DOMAIN toServer :
            /\ LastOn(toServer, u, i) /\ toServer[i].kind # "close"
            /\ toServer[i].version = v /\ toServer[i].text = t
      BY <2>3, <2>4, <2>14 DEF Stage, Queued, Read
    <3>2. CASE i # 1
      <4>1. i - 1 \in DOMAIN toServer' /\ toServer'[i - 1] = toServer[i] /\ (i - 1) + 1 = i
        BY <2>2, <3>2
      <4> QED
        BY <3>1, <4>1, <2>1 DEF Stage, Queued
    <3>3. CASE i = 1
      <4>1. m.kind # "close" /\ m.version = v /\ m.text = t /\ ~Has(toServer', u)
        BY <3>1, <3>3, <1>3, <2>1
      <4>2. m.kind = "open" \/ srvDoc[u] # NoDoc
        <5> SUFFICES ASSUME srvDoc[u] = NoDoc PROVE m.kind = "open"
          OBVIOUS
        <5>1. PICK j \in DOMAIN toServer : Is(j, u, "open")
          BY <2>14 DEF OpenAtEnd
        <5>2. j = 1
          BY <5>1, <3>1, <3>3, <1>3 DEF LastOn, Is
        <5> QED
          BY <5>1, <5>2, <1>3 DEF Is
      <4>3. Opened
        BY <4>1, <4>2, <1>10, <1>12
      <4> QED
        BY <4>1, <4>3, <2>5 DEF Stage, Read, new
    <3> QED
      BY <3>2, <3>3
  <2>15. ASSUME NEW v \in Nat \ {0}, NEW t \in Text, OnlyLast(u, v, t)
         PROVE  OnlyLast(u, v, t)'
    <3>1. /\ \A i \in DOMAIN toClient : toClient[i].uri = u => ~(toClient[i].version >= v)
          /\ ~(diagVersion[u] >= v)
          /\ analysing[u] # NoDoc => ~(analysing[u].version >= v)
          /\ srvDoc[u] # NoDoc => ~(srvDoc[u].version >= v)
      BY <2>3, <2>4, <2>15 DEF OnlyLast
    <3>2. \A i \in DOMAIN toClient' : toClient'[i].uri = u => ~(toClient'[i].version >= v)
      <4>1. \A i \in DOMAIN toClient' : i \in DOMAIN toClient \/ toClient'[i] = p
        BY <2>12, <1>7
      <4>2. ~(p.version >= v)
        BY <1>6
      <4>3. \A i \in DOMAIN toClient : toClient'[i] = toClient[i]
        BY <2>12, <1>7
      <4> QED
        BY <3>1, <4>1, <4>2, <4>3
    <3>3. ASSUME NEW i \in DOMAIN toServer', toServer'[i].uri = u, toServer'[i].version >= v
          PROVE  LastOn(toServer', u, i) /\ toServer'[i].text = t
      BY <3>3, <2>1, <2>11, <2>15 DEF OnlyLast
    <3>4. m.version >= v => m.text = t /\ ~Has(toServer', u)
      BY <2>1, <2>2, <2>15, <1>3 DEF OnlyLast
    <3>5. srvDoc'[u] # NoDoc /\ srvDoc'[u].version >= v =>
            srvDoc'[u].text = t /\ ~Has(toServer', u)
      BY <3>1, <3>4, <2>5, <1>10 DEF new
    <3>6. analysing'[u] # NoDoc => ~(analysing'[u].version >= v)
      BY <3>1, <2>5, <1>10
    <3> QED
      BY <3>1, <3>2, <3>3, <3>5, <3>6, <1>5 DEF OnlyLast
  <2>16. ASSUME AtMostOne(u) PROVE AtMostOne(u)'
    <3>1. u \notin stale /\ analysing[u] = NoDoc /\ ~Has(toClient, u)
      BY <2>3, <2>16 DEF AtMostOne
    <3>2. ~Has(toServer', u)
      <4> SUFFICES ASSUME NEW i \in DOMAIN toServer', toServer'[i].uri = u PROVE FALSE
        BY DEF Has
      <4>1. i + 1 \in DOMAIN toServer /\ toServer[i + 1].uri = u /\ i + 1 # 1
        BY <2>2, <1>3
      <4> QED
        BY <4>1, <2>2, <2>16 DEF AtMostOne
    <3>3. \A i, j \in DOMAIN toClient' : toClient'[i].uri = u /\ toClient'[j].uri = u => i = j
      <4>1. \A i \in DOMAIN toClient' :
              (i \in DOMAIN toClient /\ toClient'[i] = toClient[i]) \/ i = Len(toClient) + 1
        BY <2>12, <1>7
      <4> QED
        BY <3>1, <4>1 DEF Has
    <3>4. toClient' = toClient => ~Has(toClient', u)
      BY <3>1
    <3> QED
      BY <3>1, <3>2, <3>3, <3>4, <2>5, <2>12, <1>10 DEF AtMostOne, Has
  <2> QED
    BY <2>3, <2>4, <2>8, <2>10, <2>13, <2>14, <2>15, <2>16, <1>5 DEF Kept
<1> QED
  BY <1>11, <1>12

LEMMA WorldKept ==
  ASSUME TypeOK, Texts, NEW u \in URI,
         Deliver \/ ServerReads \/ \E w \in URI : ServerAnalyses(w) \/ ServerPublishes(w)
  PROVE  /\ Kept(u)
         /\ UNCHANGED <<server, openDocs, pc, call, markVars, sends, past>>
<1>1. Kept(u)
  BY DeliverKeeps, ReadsKeeps, AnalysesKeeps, PublishesKeeps
<1>2. UNCHANGED <<server, openDocs, pc, call, markVars, sends, past>>
  BY DEF Deliver, ServerReads, ServerAnalyses, ServerPublishes
<1> QED
  BY <1>1, <1>2

(***************************************************************************)
(* Types and the steps of calls                                            *)
(***************************************************************************)

World == <<server, openDocs, toServer, toClient, serverVars, clientVars, past>>

WorldTypes ==
  /\ server \in Kinds
  /\ openDocs \in [URI -> Nat]
  /\ toServer \in Seq(Msg) /\ toClient \in Seq(Publication)
  /\ srvDoc \in [URI -> Doc \cup {NoDoc}]
  /\ stale \subseteq URI
  /\ analysing \in [URI -> Doc \cup {NoDoc}]
  /\ lastPub \in [URI -> Text \cup {NoText}]
  /\ diags \in [URI -> Text \cup {NoText}]
  /\ diagGen \in [URI -> Nat] /\ diagVersion \in [URI -> Nat]
  /\ past \in [URI -> {"never", "reopened", "restarted"}]

CallerTypes ==
  /\ pc \in [Caller -> PCs]
  /\ call \in [Caller -> Call \cup {NoCall}]
  /\ marks \in [Caller -> [URI -> Mark \cup {NoMark}]]
  /\ sends \in Nat
  /\ sent \in [Caller -> [URI -> Text \cup {NoText}]]
  /\ alone \in [Caller -> [URI -> BOOLEAN]]
  /\ calm \in [Caller -> [URI -> BOOLEAN]]

LEMMA TwoTypes ==
  /\ TypeOK <=> WorldTypes /\ CallerTypes
  /\ TypeOK' <=> WorldTypes' /\ CallerTypes'
BY DEF TypeOK, WorldTypes, CallerTypes

LEMMA WorldUnchanged ==
  ASSUME WorldTypes, Texts, UNCHANGED World
  PROVE  /\ WorldTypes' /\ Texts'
         /\ \A u \in URI : SameDoc(u)
<1>1. WorldTypes' /\ Texts'
  BY DEF WorldTypes, Texts, World, serverVars, clientVars
<1>2. toServer \in Seq(Msg) /\ toClient \in Seq(Publication)
  BY DEF WorldTypes
<1>3. \A u \in URI : SameDoc(u)
  BY <1>2, SameSelf DEF SameDoc, World, serverVars, clientVars
<1> QED
  BY <1>1, <1>3

\* steps of c that leave the documents as they are
Looks(c) ==
  \/ EditMark(c) \/ CallOpen(c) \/ OpenLookup(c) \/ EditVersion(c)
  \/ CallReopen(c) \/ ReopenLookup(c)
  \/ CallEvaluate(c) \/ WaitPoll(c) \/ EvaluateRead(c)

LEMMA LooksKeepWorld ==
  ASSUME NEW c \in Caller, Looks(c)
  PROVE  UNCHANGED World
BY DEF Looks, EditMark, CallOpen, OpenLookup, EditVersion, CallReopen, ReopenLookup,
       CallEvaluate, WaitPoll, EvaluateRead, World

Idle == {"idle", "waiting", "settled", "unsettled"}

LEMMA CallTypes ==
  ASSUME TypeOK, Steps, NEW c \in Caller, pc[c] \notin Idle
  PROVE  /\ call[c] \in Call /\ call[c] # NoCall
         /\ call[c].uri \in URI /\ call[c].text \in Text
         /\ call[c].version \in Nat /\ call[c].fresh \in BOOLEAN
<1>1. call[c] \in Call /\ call[c] # NoCall
  BY DEF TypeOK, Steps, Idle
<1> QED
  BY <1>1 DEF Call

LEMMA WorldTypesKept ==
  ASSUME TypeOK, Texts, Steps, Next
  PROVE  WorldTypes' /\ Texts'
<1> USE TextAssumption, NoneAssumption
<1>1. ASSUME NEW c \in Caller, Looks(c) PROVE WorldTypes' /\ Texts'
  BY <1>1, LooksKeepWorld, WorldUnchanged, TwoTypes
<1>2. ASSUME NEW c \in Caller, OpenAssign(c) PROVE WorldTypes' /\ Texts'
  <2>1. pc[c] \notin Idle
    BY <1>2 DEF OpenAssign, Idle
  <2>2. call[c].uri \in URI /\ call[c].version \in Nat
    BY <2>1, CallTypes
  <2> QED
    BY <1>2, <2>2 DEF OpenAssign, TypeOK, WorldTypes, Texts, serverVars, clientVars
<1>3. ASSUME NEW c \in Caller, OpenSend(c) PROVE WorldTypes' /\ Texts'
  <2>1. pc[c] \notin Idle /\ call[c].version > 0
    BY <1>3 DEF OpenSend, Steps, Idle
  <2>2. call[c].uri \in URI /\ call[c].version \in Nat /\ call[c].text \in Text
    BY <2>1, CallTypes
  <2> DEFINE n == [kind |-> IF call[c].fresh THEN "open" ELSE "change", uri |-> call[c].uri,
                   version |-> call[c].version, text |-> call[c].text]
  <2>n. n \in Msg
    BY <2>2 DEF Msg
  <2>3. PICK m \in Msg : m = n
    BY <2>n
  <2>4. m.version > 0 /\ m.text \in Text
    BY <2>1, <2>2, <2>3
  <2>5. toServer' = Append(toServer, m)
    BY <1>3, <2>3 DEF OpenSend
  <2>6. /\ toServer' \in Seq(Msg)
        /\ \A i \in DOMAIN toServer' : (i \in DOMAIN toServer /\ toServer'[i] = toServer[i])
             \/ toServer'[i] = m
    BY <2>5, AppendFacts DEF TypeOK
  <2> QED
    BY <1>3, <2>4, <2>6 DEF OpenSend, TypeOK, WorldTypes, Texts, serverVars, clientVars
<1>4. ASSUME NEW c \in Caller, CloseDocument(c) PROVE WorldTypes' /\ Texts'
  BY <1>4 DEF CloseDocument, TypeOK, WorldTypes, Texts, serverVars, clientVars
<1>5. ASSUME NEW c \in Caller, CloseSend(c) \/ ReopenClose(c) PROVE WorldTypes' /\ Texts'
  <2>1. pc[c] \notin Idle
    BY <1>5 DEF CloseSend, ReopenClose, Idle
  <2>2. call[c].uri \in URI
    BY <2>1, CallTypes
  <2> DEFINE n == [kind |-> "close", uri |-> call[c].uri, version |-> 0, text |-> NoText]
  <2>n. n \in Msg
    BY <2>2 DEF Msg
  <2>3. PICK m \in Msg : m = n
    BY <2>n
  <2>4. m.kind = "close"
    BY <2>3
  <2>5. toServer' = Append(toServer, m)
    BY <1>5, <2>3 DEF CloseSend, ReopenClose, SendClose
  <2>6. /\ toServer' \in Seq(Msg)
        /\ \A i \in DOMAIN toServer' : (i \in DOMAIN toServer /\ toServer'[i] = toServer[i])
             \/ toServer'[i] = m
    BY <2>5, AppendFacts DEF TypeOK
  <2>7. past' \in [URI -> {"never", "reopened", "restarted"}]
    BY <1>5, <2>2 DEF CloseSend, ReopenClose, TypeOK
  <2>8. UNCHANGED <<server, openDocs, toClient, serverVars, clientVars>>
    BY <1>5 DEF CloseSend, ReopenClose
  <2> QED
    BY <2>4, <2>6, <2>7, <2>8 DEF TypeOK, WorldTypes, Texts, serverVars, clientVars
<1>6. ASSUME NEW c \in Caller, ResetDiagnostics(c) PROVE WorldTypes' /\ Texts'
  BY <1>6 DEF ResetDiagnostics, TypeOK, WorldTypes, Texts, serverVars, clientVars
<1>7. ASSUME Deliver PROVE WorldTypes' /\ Texts'
  <2>1. /\ toClient' \in Seq(Publication)
        /\ Head(toClient) \in Publication
    BY <1>7, TailFacts DEF Deliver, TypeOK
  <2>2. PICK p \in Publication : p = Head(toClient)
    BY <2>1
  <2>3. /\ p.uri \in URI /\ p.version \in Nat /\ p.text \in Text \cup {NoText}
    BY <2>1 DEF Publication
  <2>4. /\ diags' = [diags EXCEPT ![p.uri] = p.text]
        /\ diagGen' = [diagGen EXCEPT ![p.uri] = diagGen[p.uri] + 1]
        /\ diagVersion' = [diagVersion EXCEPT ![p.uri] = p.version]
    BY <1>7, <2>2 DEF Deliver
  <2>5. /\ diags' \in [URI -> Text \cup {NoText}]
        /\ diagGen' \in [URI -> Nat] /\ diagVersion' \in [URI -> Nat]
    BY <2>3, <2>4 DEF TypeOK
  <2>6. UNCHANGED <<server, openDocs, toServer, serverVars, past>>
    BY <1>7 DEF Deliver
  <2> QED
    BY <2>1, <2>5, <2>6 DEF TypeOK, WorldTypes, Texts, serverVars
<1>8. ASSUME ServerReads PROVE WorldTypes' /\ Texts'
  <2>1. /\ toServer' \in Seq(Msg)
        /\ Len(toServer) \in Nat /\ DOMAIN toServer = 1..Len(toServer)
        /\ DOMAIN toServer' = 1..(Len(toServer) - 1)
        /\ \A i \in 1..(Len(toServer) - 1) : toServer'[i] = toServer[i + 1]
        /\ 1 \in DOMAIN toServer /\ Head(toServer) = toServer[1] /\ Head(toServer) \in Msg
    BY <1>8, TailFacts DEF ServerReads, TypeOK
  <2>2. PICK m \in Msg : m = Head(toServer)
    BY <2>1
  <2>3. /\ m.uri \in URI /\ m.version \in Nat /\ m.kind \in {"open", "change", "close"}
        /\ m.kind # "close" => m.version > 0 /\ m.text \in Text
    BY <2>1, <2>2 DEF Msg, Texts
  <2>4. \A i \in DOMAIN toServer' : i + 1 \in DOMAIN toServer /\ toServer'[i] = toServer[i + 1]
    BY <2>1
  <2> DEFINE e == [uri |-> m.uri, version |-> 0, text |-> NoText]
             d == [version |-> m.version, text |-> m.text]
  <2>e. e \in Publication
    BY <2>3 DEF Publication
  <2>d. m.kind # "close" => d \in Doc /\ d.version > 0
    BY <2>3 DEF Doc
  <2>5. Append(toClient, e) \in Seq(Publication)
    BY <2>e, AppendFacts DEF TypeOK
  <2>6. toClient' \in Seq(Publication)
    BY <1>8, <2>2, <2>5 DEF ServerReads, TypeOK, serverVars
  <2>s. \/ /\ m.kind # "close"
           /\ srvDoc' = [srvDoc EXCEPT ![m.uri] = d] /\ stale' = stale \cup {m.uri}
           /\ lastPub' = lastPub \/ lastPub' = [lastPub EXCEPT ![m.uri] = NoText]
           /\ analysing' = analysing
        \/ srvDoc' = srvDoc /\ stale' = stale /\ lastPub' = lastPub /\ analysing' = analysing
        \/ /\ srvDoc' = [srvDoc EXCEPT ![m.uri] = NoDoc] /\ stale' = stale \ {m.uri}
           /\ analysing' = [analysing EXCEPT ![m.uri] = NoDoc] /\ lastPub' = lastPub
    BY <1>8, <2>2 DEF ServerReads, TypeOK, serverVars
  <2> HIDE DEF d, e
  <2>7. /\ srvDoc' \in [URI -> Doc \cup {NoDoc}] /\ stale' \subseteq URI
        /\ analysing' \in [URI -> Doc \cup {NoDoc}] /\ lastPub' \in [URI -> Text \cup {NoText}]
    <3>1. srvDoc' \in [URI -> Doc \cup {NoDoc}]
      BY <2>s, <2>3, <2>d DEF TypeOK
    <3>2. stale' \subseteq URI
      BY <2>s, <2>3 DEF TypeOK
    <3>3. analysing' \in [URI -> Doc \cup {NoDoc}]
      BY <2>s, <2>3 DEF TypeOK
    <3>4. lastPub' \in [URI -> Text \cup {NoText}]
      BY <2>s, <2>3 DEF TypeOK
    <3> QED
      BY <3>1, <3>2, <3>3, <3>4
  <2>8. /\ \A u \in URI : srvDoc'[u] # NoDoc => srvDoc'[u].version > 0
        /\ \A u \in URI : analysing'[u] # NoDoc => analysing'[u].version > 0
    BY <2>s, <2>3, <2>d DEF TypeOK, Texts
  <2>9. UNCHANGED <<server, openDocs, clientVars, past>>
    BY <1>8 DEF ServerReads
  <2>10. \A i \in DOMAIN toServer' :
           toServer'[i].kind # "close" => toServer'[i].version > 0 /\ toServer'[i].text \in Text
    BY <2>4 DEF Texts
  <2> QED
    BY <2>1, <2>6, <2>7, <2>8, <2>9, <2>10 DEF TypeOK, WorldTypes, Texts, clientVars
<1>9. ASSUME NEW w \in URI, ServerAnalyses(w) PROVE WorldTypes' /\ Texts'
  BY <1>9 DEF ServerAnalyses, TypeOK, WorldTypes, Texts, clientVars
<1>10. ASSUME NEW w \in URI, ServerPublishes(w) PROVE WorldTypes' /\ Texts'
  <2>1. analysing[w] \in Doc
    BY <1>10 DEF ServerPublishes, TypeOK
  <2>2. analysing[w].version \in Nat /\ analysing[w].text \in Text
    BY <2>1 DEF Doc
  <2> DEFINE n == [uri |-> w, version |-> IF server.versioned THEN analysing[w].version ELSE 0,
                   text |-> analysing[w].text]
  <2>n. n \in Publication
    BY <2>2 DEF Publication
  <2>3. PICK m \in Publication : m = n
    BY <2>n
  <2>4. Append(toClient, m) \in Seq(Publication)
    BY AppendFacts DEF TypeOK
  <2>5. toClient' \in Seq(Publication)
    BY <1>10, <2>3, <2>4 DEF ServerPublishes, TypeOK
  <2> QED
    BY <1>10, <2>2, <2>5 DEF ServerPublishes, TypeOK, WorldTypes, Texts, clientVars
<1> QED
  BY <1>1, <1>2, <1>3, <1>4, <1>5, <1>6, <1>7, <1>8, <1>9, <1>10 DEF Next, Looks

\* a call starts on a document
LEMMA EnterTypes ==
  ASSUME TypeOK, NEW c \in Caller, NEW u \in URI, NEW t \in Text, NEW l \in PCs,
         Enter(c, u, t, l)
  PROVE  /\ pc[c] = "idle" /\ sends' \in Nat
         /\ pc' = [pc EXCEPT ![c] = l] /\ pc' \in [Caller -> PCs]
         /\ \E k \in Call :
              /\ k.uri = u /\ k.text = t /\ k.version = openDocs[u]
              /\ k.fresh = (openDocs[u] = 0)
              /\ call' = [call EXCEPT ![c] = k]
         /\ call' \in [Caller -> Call \cup {NoCall}]
<1> DEFINE n == [uri |-> u, text |-> t, version |-> openDocs[u], fresh |-> openDocs[u] = 0]
<1>1. n \in Call
  BY DEF TypeOK, Call
<1>2. PICK k \in Call : k = n
  BY <1>1
<1>3. call' = [call EXCEPT ![c] = k]
  BY <1>2 DEF Enter
<1>4. k.uri = u /\ k.text = t /\ k.version = openDocs[u] /\ k.fresh = (openDocs[u] = 0)
  BY <1>2
<1>5. call' \in [Caller -> Call \cup {NoCall}]
  BY <1>3 DEF TypeOK
<1>6. /\ pc[c] = "idle" /\ sends' \in Nat
      /\ pc' = [pc EXCEPT ![c] = l] /\ pc' \in [Caller -> PCs]
  BY DEF Enter, At, TypeOK
<1> QED
  BY <1>3, <1>4, <1>5, <1>6

LEMMA TouchFacts ==
  ASSUME TypeOK, NEW c \in Caller, NEW u \in URI, NEW edit \in BOOLEAN, Touch(c, u, edit)
  PROVE  /\ alone' \in [Caller -> [URI -> BOOLEAN]]
         /\ \A d \in Caller, w \in URI : w # u => alone'[d][w] = alone[d][w]
         /\ \A d \in Caller : alone'[d][u] => alone[d][u] /\ d = c /\ edit
<1>1. \A d \in Caller : alone[d] \in [URI -> BOOLEAN]
  BY DEF TypeOK
<1>2. \A d \in Caller :
        alone'[d] = [alone[d] EXCEPT ![u] = IF d = c /\ edit THEN alone[d][u] ELSE FALSE]
  BY <1>1 DEF Touch
<1>3. alone' \in [Caller -> [URI -> BOOLEAN]]
  BY <1>1 DEF Touch
<1>4. ASSUME NEW d \in Caller, NEW w \in URI, w # u PROVE alone'[d][w] = alone[d][w]
  <2>1. PICK b : alone'[d] = [alone[d] EXCEPT ![u] = b]
    BY <1>2
  <2>2. alone[d] \in [URI -> BOOLEAN]
    BY <1>1
  <2> QED
    BY <1>4, <2>1, <2>2
<1>5. ASSUME NEW d \in Caller, alone'[d][u] PROVE alone[d][u] /\ d = c /\ edit
  <2>1. CASE d = c /\ edit
    <3>1. alone'[d] = [alone[d] EXCEPT ![u] = alone[d][u]]
      BY <1>2, <2>1
    <3> QED
      BY <1>1, <1>5, <2>1, <3>1
  <2>2. CASE ~(d = c /\ edit)
    <3>1. alone'[d] = [alone[d] EXCEPT ![u] = FALSE]
      BY <1>2, <2>2
    <3> QED
      BY <1>1, <1>5, <3>1
  <2> QED
    BY <2>1, <2>2
<1> QED
  BY <1>3, <1>4, <1>5

LEMMA TouchEnds ==
  ASSUME TypeOK, NEW c \in Caller, NEW u \in URI, Touch(c, u, FALSE)
  PROVE  /\ \A d \in Caller, w \in URI : w # u => alone'[d][w] = alone[d][w]
         /\ \A d \in Caller : ~alone'[d][u]
<1>1. PICK b \in BOOLEAN : ~b
  OBVIOUS
<1>2. Touch(c, u, b)
  BY <1>1 DEF Touch
<1>3. /\ \A d \in Caller, w \in URI : w # u => alone'[d][w] = alone[d][w]
      /\ \A d \in Caller : alone'[d][u] => alone[d][u] /\ d = c /\ b
  BY <1>2, TouchFacts
<1> QED
  BY <1>1, <1>3

LEMMA CallsKept ==
  ASSUME TypeOK, Texts, Steps, Next
  PROVE  CallerTypes' /\ Steps'
<1> USE TextAssumption, NoneAssumption DEF Idle
<1>1. ASSUME NEW c \in Caller, EditMark(c) PROVE CallerTypes' /\ Steps'
  <2>1. PICK u \in URI, t \in Text :
          /\ Enter(c, u, t, "lookupEdit")
          /\ marks' = [marks EXCEPT ![c][u] = [gen |-> diagGen[u], version |-> 0]]
          /\ sent' = [sent EXCEPT ![c][u] = t]
          /\ alone' = [alone EXCEPT ![c][u] = ~Changing(u, c)]
          /\ calm' = [calm EXCEPT ![c][u] = ~UnderWay(u)]
          /\ past' = past
    BY <1>1 DEF EditMark
  <2>2. "lookupEdit" \in PCs
    BY DEF PCs
  <2>3. /\ pc[c] = "idle" /\ sends' \in Nat
        /\ pc' = [pc EXCEPT ![c] = "lookupEdit"] /\ pc' \in [Caller -> PCs]
        /\ \E k \in Call :
              /\ k.uri = u /\ k.text = t /\ k.version = openDocs[u]
              /\ k.fresh = (openDocs[u] = 0)
              /\ call' = [call EXCEPT ![c] = k]
        /\ call' \in [Caller -> Call \cup {NoCall}]
    BY <2>1, <2>2, EnterTypes
  <2>4. PICK k \in Call : k.uri = u /\ k.text = t /\ call' = [call EXCEPT ![c] = k]
    BY <2>3
  <2> DEFINE n == [gen |-> diagGen[u], version |-> 0]
  <2>n. n \in Mark
    BY DEF Mark, TypeOK
  <2>5. PICK m \in Mark : m = n
    BY <2>n
  <2>6. marks' = [marks EXCEPT ![c][u] = m] /\ m # NoMark
    BY <2>1, <2>5
  <2>7. CallerTypes'
    BY <2>1, <2>3, <2>6 DEF CallerTypes, TypeOK
  <2>8. Steps'
    BY <2>1, <2>3, <2>4, <2>6 DEF Steps, TypeOK
  <2> QED
    BY <2>7, <2>8
<1>2. ASSUME NEW c \in Caller, CallOpen(c) \/ CallReopen(c) \/ ResetDiagnostics(c)
      PROVE  CallerTypes' /\ Steps'
  <2>1. PICK u \in URI, t \in Text, l \in {"assign", "reopen", "lookupReopen"} :
          Enter(c, u, t, l)
    BY <1>2 DEF CallOpen, CallReopen, ResetDiagnostics
  <2>2. l \in PCs
    BY DEF PCs
  <2>3. /\ pc[c] = "idle" /\ sends' \in Nat
        /\ pc' = [pc EXCEPT ![c] = l] /\ pc' \in [Caller -> PCs]
        /\ \E k \in Call :
              /\ k.uri = u /\ k.text = t /\ k.version = openDocs[u]
              /\ k.fresh = (openDocs[u] = 0)
              /\ call' = [call EXCEPT ![c] = k]
        /\ call' \in [Caller -> Call \cup {NoCall}]
    BY <2>1, <2>2, EnterTypes
  <2>4. PICK k \in Call : k.uri = u /\ k.text = t /\ call' = [call EXCEPT ![c] = k]
    BY <2>3
  <2>5. /\ marks' = marks /\ sent' = sent /\ calm' = calm /\ past' = past
        /\ alone' \in [Caller -> [URI -> BOOLEAN]]
    <3>1. CASE CallOpen(c) \/ CallReopen(c)
      BY <3>1 DEF CallOpen, CallReopen, markVars, TypeOK
    <3>2. CASE ResetDiagnostics(c)
      BY <3>2, TouchFacts DEF ResetDiagnostics
    <3> QED
      BY <1>2, <3>1, <3>2
  <2>6. CallerTypes'
    BY <2>3, <2>5 DEF CallerTypes, TypeOK
  <2>7. Steps'
    BY <2>3, <2>4, <2>5 DEF Steps, TypeOK
  <2> QED
    BY <2>6, <2>7
<1>3. ASSUME NEW c \in Caller, OpenLookup(c) \/ ReopenLookup(c) PROVE CallerTypes' /\ Steps'
  <2>1. pc[c] \notin Idle
    BY <1>3 DEF OpenLookup, ReopenLookup
  <2>2. /\ call[c] \in Call /\ call[c] # NoCall
        /\ call[c].uri \in URI /\ call[c].text \in Text
        /\ call[c].version \in Nat /\ call[c].fresh \in BOOLEAN
    BY <2>1, CallTypes
  <2> DEFINE n == [call[c] EXCEPT !.version = openDocs[call[c].uri],
                                  !.fresh = openDocs[call[c].uri] = 0]
  <2>n. n \in Call
    BY <2>2 DEF Call, TypeOK
  <2>3. PICK k \in Call : k = n
    BY <2>n
  <2>4. k.uri = call[c].uri /\ k.text = call[c].text
    BY <2>2, <2>3 DEF Call
  <2>5. call' = [call EXCEPT ![c] = k]
    BY <1>3, <2>3 DEF OpenLookup, ReopenLookup, TypeOK
  <2>6. PICK l \in {"assignEdit", "reopen", "assign"} :
          pc' = [pc EXCEPT ![c] = l] /\ (l = "assignEdit" => pc[c] = "lookupEdit")
    BY <1>3 DEF OpenLookup, ReopenLookup, At
  <2>7. UNCHANGED <<marks, sent, alone, calm, sends, past>>
    BY <1>3 DEF OpenLookup, ReopenLookup, markVars
  <2>8. CallerTypes'
    BY <2>5, <2>6, <2>7 DEF CallerTypes, TypeOK, PCs
  <2>9. Steps'
    BY <2>1, <2>2, <2>4, <2>5, <2>6, <2>7 DEF Steps, TypeOK
  <2> QED
    BY <2>8, <2>9
<1>4. ASSUME NEW c \in Caller, OpenAssign(c) PROVE CallerTypes' /\ Steps'
  <2>1. pc[c] \notin Idle
    BY <1>4 DEF OpenAssign
  <2>2. /\ call[c] \in Call /\ call[c] # NoCall
        /\ call[c].uri \in URI /\ call[c].text \in Text
        /\ call[c].version \in Nat /\ call[c].fresh \in BOOLEAN
    BY <2>1, CallTypes
  <2> DEFINE n == [call[c] EXCEPT !.version = call[c].version + 1]
  <2>n. n \in Call
    BY <2>2 DEF Call
  <2>3. PICK k \in Call : k = n
    BY <2>n
  <2>4. k.uri = call[c].uri /\ k.text = call[c].text /\ k.version > 0
    BY <2>2, <2>3 DEF Call
  <2>5. call' = [call EXCEPT ![c] = k]
    BY <1>4, <2>3 DEF OpenAssign, TypeOK
  <2>6. PICK l \in {"sendEdit", "send"} :
          pc' = [pc EXCEPT ![c] = l] /\ (l = "sendEdit" => pc[c] = "assignEdit")
    BY <1>4 DEF OpenAssign, At
  <2>7. /\ UNCHANGED <<marks, sent, calm, sends>>
        /\ alone' \in [Caller -> [URI -> BOOLEAN]]
        /\ \A u \in URI : past[u] = "restarted" => past'[u] = "restarted"
    <3>1. Touch(c, call[c].uri, pc[c] = "assignEdit")
      BY <1>4 DEF OpenAssign
    <3>2. alone' \in [Caller -> [URI -> BOOLEAN]]
      BY <3>1, <2>2, TouchFacts
    <3> QED
      BY <1>4, <2>2, <3>2 DEF OpenAssign, TypeOK
  <2>8. CallerTypes'
    BY <2>5, <2>6, <2>7 DEF CallerTypes, TypeOK, PCs
  <2>9. \A d \in Caller : pc[d] \notin Idle => call[d].uri \in URI
    BY CallTypes
  <2>10. Steps'
    BY <2>1, <2>2, <2>4, <2>5, <2>6, <2>7, <2>9 DEF Steps, TypeOK
  <2> QED
    BY <2>8, <2>10
<1>5. ASSUME NEW c \in Caller, OpenSend(c) \/ CloseSend(c) PROVE CallerTypes' /\ Steps'
  <2>1. pc[c] \notin Idle
    BY <1>5 DEF OpenSend, CloseSend
  <2>2. call[c] # NoCall
    BY <2>1, CallTypes
  <2>3. /\ UNCHANGED <<marks, sent, calm, sends, past>>
        /\ alone' \in [Caller -> [URI -> BOOLEAN]]
        /\ \/ /\ pc[c] = "sendEdit" /\ pc' = [pc EXCEPT ![c] = "markVersion"] /\ call' = call
           \/ pc' = [pc EXCEPT ![c] = "idle"] /\ call' = [call EXCEPT ![c] = NoCall]
    <3>1. PICK edit \in BOOLEAN : Touch(c, call[c].uri, edit)
      BY <1>5 DEF OpenSend, CloseSend
    <3>2. call[c].uri \in URI
      BY <2>1, CallTypes
    <3>3. alone' \in [Caller -> [URI -> BOOLEAN]]
      BY <3>1, <3>2, TouchFacts
    <3> QED
      BY <1>5, <3>3 DEF OpenSend, CloseSend, End, At
  <2>4. CallerTypes'
    BY <2>3 DEF CallerTypes, TypeOK, PCs
  <2>5. Steps'
    <3>1. CASE pc[c] = "sendEdit" /\ pc' = [pc EXCEPT ![c] = "markVersion"] /\ call' = call
      BY <3>1, <2>2, <2>3 DEF Steps, TypeOK
    <3>2. CASE pc' = [pc EXCEPT ![c] = "idle"] /\ call' = [call EXCEPT ![c] = NoCall]
      BY <3>2, <2>2, <2>3 DEF Steps, TypeOK
    <3> QED
      BY <2>3, <3>1, <3>2
  <2> QED
    BY <2>4, <2>5
<1>6. ASSUME NEW c \in Caller, EditVersion(c) PROVE CallerTypes' /\ Steps'
  <2>1. pc[c] = "markVersion"
    BY <1>6 DEF EditVersion
  <2>2. call[c].uri \in URI
    BY <2>1, CallTypes
  <2>3. marks[c][call[c].uri] \in Mark
    BY <2>1, <2>2 DEF Steps, TypeOK
  <2> DEFINE n == [marks[c][call[c].uri] EXCEPT !.version =
                     IF openDocs[call[c].uri] > 0 THEN openDocs[call[c].uri] ELSE @]
  <2>n. n \in Mark
    BY <2>2, <2>3 DEF Mark, TypeOK
  <2>4. marks' = [marks EXCEPT ![c][call[c].uri] = n]
    BY <1>6, <2>2 DEF EditVersion, TypeOK
  <2>5. /\ UNCHANGED <<sent, alone, calm, sends, past>>
        /\ pc' = [pc EXCEPT ![c] = "idle"] /\ call' = [call EXCEPT ![c] = NoCall]
    BY <1>6 DEF EditVersion, End, At
  <2> HIDE DEF n
  <2>6. CallerTypes'
    BY <2>2, <2>n, <2>4, <2>5 DEF CallerTypes, TypeOK, PCs
  <2>7. Steps'
    BY <2>1, <2>2, <2>4, <2>5 DEF Steps, TypeOK
  <2> QED
    BY <2>6, <2>7
<1>7. ASSUME NEW c \in Caller, CloseDocument(c) PROVE CallerTypes' /\ Steps'
  <2>0. PICK u \in URI :
          /\ call' = [call EXCEPT ![c] =
               [uri |-> u, text |-> DiskText, version |-> 0, fresh |-> FALSE]]
          /\ pc[c] = "idle"
          /\ past' = [past EXCEPT ![u] = "restarted"]
          /\ pc' = [pc EXCEPT ![c] = "close"]
          /\ Touch(c, u, FALSE) /\ UNCHANGED <<marks, sent, calm, sends>>
    BY <1>7 DEF CloseDocument, At
  <2>1. /\ pc[c] = "idle" /\ pc' = [pc EXCEPT ![c] = "close"]
        /\ past' = [past EXCEPT ![u] = "restarted"] /\ Touch(c, u, FALSE)
        /\ marks' = marks /\ sent' = sent /\ calm' = calm /\ sends' = sends
    BY <2>0
  <2> DEFINE n == [uri |-> u, text |-> DiskText, version |-> 0, fresh |-> FALSE]
  <2>n. n \in Call /\ n.uri = u
    BY DEF Call
  <2>2. call' = [call EXCEPT ![c] = n]
    BY <2>0
  <2> HIDE DEF n
  <2>3. alone' \in [Caller -> [URI -> BOOLEAN]]
    BY <2>1, TouchFacts
  <2>4. CallerTypes'
    BY <2>1, <2>n, <2>2, <2>3 DEF CallerTypes, TypeOK, PCs
  <2>5. \A d \in Caller : pc[d] \notin Idle => call[d].uri \in URI
    BY CallTypes
  <2>6. Steps'
    BY <2>1, <2>n, <2>2, <2>5 DEF Steps, TypeOK
  <2> QED
    BY <2>4, <2>6
<1>8. ASSUME NEW c \in Caller, ReopenClose(c) PROVE CallerTypes' /\ Steps'
  <2>1. pc[c] = "reopen" /\ pc[c] \notin Idle
    BY <1>8 DEF ReopenClose
  <2>2. /\ call[c] \in Call /\ call[c] # NoCall /\ call[c].uri \in URI
    BY <2>1, CallTypes
  <2> DEFINE n == [call[c] EXCEPT !.fresh = TRUE]
  <2>n. n \in Call /\ n.uri = call[c].uri
    BY <2>2 DEF Call
  <2>3. /\ UNCHANGED <<marks, sent, calm, sends>>
        /\ alone' \in [Caller -> [URI -> BOOLEAN]]
        /\ \A u \in URI : past[u] = "restarted" => past'[u] = "restarted"
        /\ \/ pc' = [pc EXCEPT ![c] = "assign"] /\ call' = [call EXCEPT ![c] = n]
           \/ pc' = [pc EXCEPT ![c] = "idle"] /\ call' = [call EXCEPT ![c] = NoCall]
    <3>1. Touch(c, call[c].uri, FALSE)
      BY <1>8 DEF ReopenClose
    <3>2. alone' \in [Caller -> [URI -> BOOLEAN]]
      BY <3>1, <2>2, TouchFacts
    <3> QED
      BY <1>8, <2>2, <3>2 DEF ReopenClose, End, At, TypeOK
  <2> HIDE DEF n
  <2>4. PICK l \in {"assign", "idle"}, k \in {n, NoCall} :
          /\ pc' = [pc EXCEPT ![c] = l] /\ call' = [call EXCEPT ![c] = k]
          /\ l = "idle" <=> k = NoCall
    BY <2>n, <2>3
  <2>5. \A d \in Caller : pc[d] \notin Idle => call[d].uri \in URI
    BY CallTypes
  <2>6. CallerTypes'
    BY <2>n, <2>3, <2>4 DEF CallerTypes, TypeOK, PCs
  <2>7. Steps'
    BY <2>1, <2>2, <2>n, <2>3, <2>4, <2>5 DEF Steps, TypeOK
  <2> QED
    BY <2>6, <2>7
<1>9. ASSUME NEW c \in Caller, CallEvaluate(c) \/ WaitPoll(c) \/ EvaluateRead(c)
      PROVE  CallerTypes' /\ Steps'
  <2>1. /\ UNCHANGED <<call, marks, sent, alone, calm, sends, past>>
        /\ pc[c] \in Idle /\ \E l \in Idle : pc' = [pc EXCEPT ![c] = l]
    BY <1>9 DEF CallEvaluate, WaitPoll, EvaluateRead, markVars
  <2> QED
    BY <2>1 DEF CallerTypes, Steps, TypeOK, PCs
<1>10. ASSUME Deliver \/ ServerReads \/ \E w \in URI : ServerAnalyses(w) \/ ServerPublishes(w)
       PROVE  CallerTypes' /\ Steps'
  <2>1. UNCHANGED <<pc, call, marks, sent, alone, calm, sends, past>>
    BY <1>10 DEF Deliver, ServerReads, ServerAnalyses, ServerPublishes, markVars
  <2> QED
    BY <2>1 DEF CallerTypes, Steps, TypeOK
<1> QED
  BY <1>1, <1>2, <1>3, <1>4, <1>5, <1>6, <1>7, <1>8, <1>9, <1>10 DEF Next

(***************************************************************************)
(* What the steps of a call do to its document                             *)
(***************************************************************************)

\* c's step is about u: the others stay as they are
About(c, u) ==
  /\ \A w \in URI \ {u} :
       /\ SameDoc(w) /\ openDocs'[w] = openDocs[w] /\ past'[w] = past[w]
       /\ \A d \in Caller : alone'[d][w] = alone[d][w]
       /\ ~On(c, w) /\ ~On(c, w)'
  /\ \A d \in Caller \ {c} : call'[d] = call[d] /\ pc'[d] = pc[d]
  /\ server' = server /\ marks' = marks /\ sent' = sent /\ calm' = calm

LEMMA AssignDigest ==
  ASSUME TypeOK, Steps, NEW c \in Caller, OpenAssign(c)
  PROVE  LET u == call[c].uri IN
         /\ u \in URI /\ About(c, u) /\ SameDoc(u)
         /\ On(c, u) /\ call'[c] # NoCall /\ call'[c].uri = u
         /\ pc[c] \in {"assign", "assignEdit"}
         /\ pc'[c] = IF pc[c] = "assignEdit" THEN "sendEdit" ELSE "send"
         /\ call[c].version \in Nat
         /\ call'[c].version = call[c].version + 1 /\ call'[c].fresh = call[c].fresh
         /\ openDocs'[u] = call[c].version + 1
         /\ past'[u] = IF call[c].version + 1 < openDocs[u] THEN "restarted" ELSE past[u]
         /\ \A d \in Caller : alone'[d][u] => alone[d][u] /\ d = c /\ pc[c] = "assignEdit"
<1> DEFINE u == call[c].uri
<1>1. /\ pc[c] \in {"assign", "assignEdit"}
      /\ pc' = [pc EXCEPT ![c] = IF pc[c] = "assignEdit" THEN "sendEdit" ELSE "send"]
      /\ call' = [call EXCEPT ![c].version = call[c].version + 1]
      /\ openDocs' = [openDocs EXCEPT ![u] = call[c].version + 1]
      /\ past' = [past EXCEPT ![u] =
           IF call[c].version + 1 < openDocs[u] THEN "restarted" ELSE past[u]]
      /\ Touch(c, u, pc[c] = "assignEdit")
      /\ UNCHANGED <<server, toServer, toClient, serverVars, clientVars, marks, sent, calm>>
  BY DEF OpenAssign, At, TypeOK
<1>2. /\ call[c] \in Call /\ call[c] # NoCall /\ u \in URI
      /\ call[c].version \in Nat
  BY <1>1, CallTypes DEF Idle
<1>3. /\ \A d \in Caller, w \in URI : w # u => alone'[d][w] = alone[d][w]
      /\ \A d \in Caller : alone'[d][u] => alone[d][u] /\ d = c /\ pc[c] = "assignEdit"
  <2>1. PICK b \in BOOLEAN : b <=> pc[c] = "assignEdit"
    OBVIOUS
  <2>2. Touch(c, u, b)
    BY <1>1, <2>1 DEF Touch
  <2> HIDE DEF u
  <2>3. /\ \A d \in Caller, w \in URI : w # u => alone'[d][w] = alone[d][w]
        /\ \A d \in Caller : alone'[d][u] => alone[d][u] /\ d = c /\ b
    BY <1>2, <2>2, TouchFacts
  <2> QED
    BY <2>1, <2>3
<1>4. \A w \in URI : SameDoc(w)
  BY <1>1, SameSelf DEF SameDoc, serverVars, clientVars, TypeOK
<1>5. /\ call'[c].uri = u /\ call'[c] # NoCall
      /\ call'[c].version = call[c].version + 1 /\ call'[c].fresh = call[c].fresh
  <2> DEFINE n == [call[c] EXCEPT !.version = call[c].version + 1]
  <2>1. n \in Call /\ n.uri = u /\ n.version = call[c].version + 1 /\ n.fresh = call[c].fresh
    BY <1>2 DEF Call
  <2>2. call'[c] = n
    BY <1>1 DEF TypeOK
  <2> QED
    BY <2>1, <2>2, NoneAssumption
<1>6. About(c, u)
  BY <1>1, <1>2, <1>3, <1>4, <1>5 DEF About, On, TypeOK
<1> QED
  BY <1>1, <1>2, <1>3, <1>4, <1>5, <1>6 DEF On, TypeOK

\* a notification m about u is sent and nothing else happens to u
Sent(m, u) ==
  /\ m \in Msg /\ m.uri = u
  /\ toServer' = Append(toServer, m)
  /\ UNCHANGED <<toClient, serverVars, clientVars>>

LEMMA SentElsewhere ==
  ASSUME TypeOK, NEW m, NEW u \in URI, Sent(m, u), NEW w \in URI, w # u
  PROVE  SameDoc(w)
BY SameSelf, SameAppend DEF Sent, SameDoc, TypeOK, serverVars, clientVars

LEMMA SendDigest ==
  ASSUME TypeOK, Steps, NEW c \in Caller, OpenSend(c)
  PROVE  LET u == call[c].uri IN
         /\ u \in URI /\ About(c, u) /\ On(c, u)
         /\ pc[c] \in {"send", "sendEdit"}
         /\ pc[c] = "sendEdit" => pc'[c] = "markVersion" /\ call'[c] = call[c]
         /\ pc[c] = "send" => pc'[c] = "idle" /\ call'[c] = NoCall
         /\ \E m \in Msg :
              /\ m.kind = (IF call[c].fresh THEN "open" ELSE "change")
              /\ m.version = call[c].version /\ m.text = call[c].text
              /\ Sent(m, u)
         /\ call[c].version \in Nat /\ call[c].text \in Text
         /\ openDocs' = openDocs /\ past' = past
         /\ \A d \in Caller : alone'[d][u] => alone[d][u] /\ d = c /\ pc[c] = "sendEdit"
<1> DEFINE u == call[c].uri
           n == [kind |-> IF call[c].fresh THEN "open" ELSE "change",
                 uri |-> u, version |-> call[c].version, text |-> call[c].text]
<1>1. /\ pc[c] \in {"send", "sendEdit"}
      /\ toServer' = Append(toServer, n)
      /\ Touch(c, u, pc[c] = "sendEdit")
      /\ UNCHANGED <<server, openDocs, toClient, serverVars, clientVars, marks, sent, calm, past>>
      /\ pc[c] = "sendEdit" => pc' = [pc EXCEPT ![c] = "markVersion"] /\ call' = call
      /\ pc[c] = "send" =>
           pc' = [pc EXCEPT ![c] = "idle"] /\ call' = [call EXCEPT ![c] = NoCall]
  BY DEF OpenSend, End, At
<1>2. /\ call[c] \in Call /\ call[c] # NoCall /\ u \in URI
      /\ call[c].version \in Nat /\ call[c].text \in Text /\ call[c].fresh \in BOOLEAN
  BY <1>1, CallTypes DEF Idle
<1>3. /\ \A d \in Caller, w \in URI : w # u => alone'[d][w] = alone[d][w]
      /\ \A d \in Caller : alone'[d][u] => alone[d][u] /\ d = c /\ pc[c] = "sendEdit"
  <2>1. PICK b \in BOOLEAN : b <=> pc[c] = "sendEdit"
    OBVIOUS
  <2>2. Touch(c, u, b)
    BY <1>1, <2>1 DEF Touch
  <2> HIDE DEF u
  <2>3. /\ \A d \in Caller, w \in URI : w # u => alone'[d][w] = alone[d][w]
        /\ \A d \in Caller : alone'[d][u] => alone[d][u] /\ d = c /\ b
    BY <1>2, <2>2, TouchFacts
  <2> QED
    BY <2>1, <2>3
<1>4. n \in Msg
  BY <1>2 DEF Msg
<1>5. PICK m \in Msg : m = n
  BY <1>4
<1>6. /\ m.kind = (IF call[c].fresh THEN "open" ELSE "change") /\ m.uri = u
      /\ m.version = call[c].version /\ m.text = call[c].text
      /\ toServer' = Append(toServer, m)
  BY <1>1, <1>5
<1> HIDE DEF n
<1>7. Sent(m, u)
  BY <1>1, <1>6 DEF Sent
<1>8. \A w \in URI \ {u} : SameDoc(w)
  BY <1>2, <1>7, SentElsewhere
<1>9. \A w \in URI \ {u} : ~On(c, w) /\ ~On(c, w)'
  BY <1>1 DEF On, TypeOK
<1>10. \A d \in Caller \ {c} : call'[d] = call[d] /\ pc'[d] = pc[d]
  BY <1>1 DEF TypeOK
<1>11. About(c, u)
  BY <1>1, <1>2, <1>3, <1>8, <1>9, <1>10 DEF About
<1>12. /\ pc[c] = "sendEdit" => pc'[c] = "markVersion" /\ call'[c] = call[c]
       /\ pc[c] = "send" => pc'[c] = "idle" /\ call'[c] = NoCall
  BY <1>1 DEF TypeOK
<1> QED
  BY <1>1, <1>2, <1>3, <1>6, <1>7, <1>11, <1>12 DEF On

LEMMA CloseDigest ==
  ASSUME TypeOK, Steps, NEW c \in Caller, CloseDocument(c) \/ CloseSend(c)
  PROVE  \E u \in URI :
           About(c, u) /\ past'[u] = "restarted" /\ pc'[c] \in {"close", "idle"}
<1>1. CASE CloseDocument(c)
  <2>1. PICK u \in URI :
          /\ pc[c] = "idle" /\ pc' = [pc EXCEPT ![c] = "close"]
          /\ call' = [call EXCEPT ![c] =
               [uri |-> u, text |-> DiskText, version |-> 0, fresh |-> FALSE]]
          /\ openDocs' = [openDocs EXCEPT ![u] = 0]
          /\ past' = [past EXCEPT ![u] = "restarted"]
          /\ Touch(c, u, FALSE)
          /\ UNCHANGED <<server, toServer, toClient, serverVars, clientVars, marks, sent, calm>>
    BY <1>1 DEF CloseDocument, At
  <2>2. \A w \in URI : SameDoc(w)
    BY <2>1, SameSelf DEF SameDoc, serverVars, clientVars, TypeOK
  <2>3. \A d \in Caller, w \in URI : w # u => alone'[d][w] = alone[d][w]
    BY <2>1, TouchEnds
  <2>4. call[c] = NoCall /\ call'[c].uri = u
    BY <2>1 DEF Steps, TypeOK
  <2>5. About(c, u)
    BY <2>1, <2>2, <2>3, <2>4 DEF About, On, TypeOK
  <2> QED
    BY <2>1, <2>5 DEF TypeOK
<1>2. CASE CloseSend(c)
  <2> DEFINE u == call[c].uri
  <2>1. /\ pc[c] = "close" /\ pc' = [pc EXCEPT ![c] = "idle"]
        /\ call' = [call EXCEPT ![c] = NoCall]
        /\ toServer' = Append(toServer, [kind |-> "close", uri |-> u, version |-> 0, text |-> NoText])
        /\ Touch(c, u, FALSE)
        /\ UNCHANGED <<server, openDocs, toClient, serverVars, clientVars, marks, sent, calm, past>>
    BY <1>2 DEF CloseSend, SendClose, End, At
  <2>2. /\ call[c] \in Call /\ call[c] # NoCall /\ u \in URI /\ past[u] = "restarted"
    BY <2>1, CallTypes DEF Idle, Steps
  <2> DEFINE n == [kind |-> "close", uri |-> u, version |-> 0, text |-> NoText]
  <2>n. n \in Msg
    BY <2>2 DEF Msg
  <2>3. PICK m \in Msg : m = n
    BY <2>n
  <2>4. m.uri = u /\ toServer' = Append(toServer, m)
    BY <2>1, <2>3
  <2> HIDE DEF n
  <2>5. \A w \in URI \ {u} : SameDoc(w)
    BY <2>1, <2>2, <2>4, SentElsewhere DEF Sent
  <2>6. \A d \in Caller, w \in URI : w # u => alone'[d][w] = alone[d][w]
    BY <2>1, <2>2, TouchEnds
  <2>7. \A w \in URI \ {u} : ~On(c, w) /\ ~On(c, w)'
    BY <2>1 DEF On, TypeOK
  <2>8. \A d \in Caller \ {c} : call'[d] = call[d] /\ pc'[d] = pc[d]
    BY <2>1 DEF TypeOK
  <2>9. About(c, u)
    BY <2>1, <2>5, <2>6, <2>7, <2>8 DEF About
  <2>10. pc'[c] = "idle"
    BY <2>1 DEF TypeOK
  <2> QED
    BY <2>1, <2>2, <2>9, <2>10
<1> QED
  BY <1>1, <1>2

LEMMA ReopenDigest ==
  ASSUME TypeOK, Steps, NEW c \in Caller, ReopenClose(c)
  PROVE  LET u == call[c].uri IN
         /\ u \in URI /\ About(c, u) /\ On(c, u)
         /\ pc'[c] \in {"assign", "idle"}
         /\ \A d \in Caller : ~alone'[d][u]
         /\ \/ past'[u] = "restarted"
            \/ /\ pc'[c] = "assign" /\ call'[c] # NoCall /\ call'[c].uri = u
               /\ past'[u] # "never"
               /\ call'[c].fresh /\ call'[c].version = call[c].version
               /\ openDocs' = openDocs
               /\ past[u] # "restarted"
               /\ \E m \in Msg : m.version = 0 /\ Sent(m, u)
<1> DEFINE u == call[c].uri
           n == [kind |-> "close", uri |-> u, version |-> 0, text |-> NoText]
           k == [call[c] EXCEPT !.fresh = TRUE]
<1>1. /\ pc[c] = "reopen"
      /\ toServer' = Append(toServer, n)
      /\ Touch(c, u, FALSE)
      /\ UNCHANGED <<server, openDocs, toClient, serverVars, clientVars, marks, sent, calm>>
      /\ \/ /\ past' = [past EXCEPT ![u] = IF past[u] = "never" THEN "reopened" ELSE past[u]]
            /\ call' = [call EXCEPT ![c] = k] /\ pc' = [pc EXCEPT ![c] = "assign"]
         \/ /\ past' = [past EXCEPT ![u] = "restarted"]
            /\ call' = [call EXCEPT ![c] = NoCall] /\ pc' = [pc EXCEPT ![c] = "idle"]
  <2>1. call[c] \in Call /\ u \in URI
    BY CallTypes DEF Idle, ReopenClose
  <2> QED
    BY <2>1 DEF ReopenClose, SendClose, End, At, TypeOK
<1>2. call[c] \in Call /\ call[c] # NoCall /\ u \in URI
  BY <1>1, CallTypes DEF Idle
<1>3. k \in Call /\ k.uri = u /\ k.fresh /\ k.version = call[c].version /\ k # NoCall
  BY <1>2, NoneAssumption DEF Call
<1>4. n \in Msg
  BY <1>2 DEF Msg
<1>5. PICK m \in Msg : m = n
  BY <1>4
<1>6. m.uri = u /\ m.version = 0 /\ toServer' = Append(toServer, m)
  BY <1>1, <1>5
<1> HIDE DEF n, k
<1>7. Sent(m, u)
  BY <1>1, <1>6 DEF Sent
<1>8. \A w \in URI \ {u} : SameDoc(w)
  BY <1>2, <1>7, SentElsewhere
<1>9. \A w \in URI \ {u} : ~On(c, w) /\ ~On(c, w)'
  BY <1>1, <1>3 DEF On, TypeOK
<1>10. \A d \in Caller \ {c} : call'[d] = call[d] /\ pc'[d] = pc[d]
  BY <1>1 DEF TypeOK
<1>11. /\ \A d \in Caller, w \in URI : w # u => alone'[d][w] = alone[d][w]
       /\ \A d \in Caller : ~alone'[d][u]
  <2> HIDE DEF u
  <2> QED
    BY <1>1, <1>2, TouchEnds
<1>12. \A w \in URI \ {u} : past'[w] = past[w] /\ openDocs'[w] = openDocs[w]
  BY <1>1 DEF TypeOK
<1>13. About(c, u)
  BY <1>1, <1>8, <1>9, <1>10, <1>11, <1>12 DEF About
<1>14. CASE /\ past' = [past EXCEPT ![u] = IF past[u] = "never" THEN "reopened" ELSE past[u]]
            /\ call' = [call EXCEPT ![c] = k] /\ pc' = [pc EXCEPT ![c] = "assign"]
  <2>1. past'[u] = (IF past[u] = "never" THEN "reopened" ELSE past[u]) /\ call'[c] = k
        /\ pc'[c] = "assign"
    BY <1>14, <1>2 DEF TypeOK
  <2>2. call'[c] # NoCall /\ call'[c].uri = u
    BY <2>1, <1>3
  <2> QED
    BY <2>1, <2>2, <1>1, <1>2, <1>3, <1>6, <1>7, <1>11, <1>13 DEF On
<1>15. CASE past' = [past EXCEPT ![u] = "restarted"] /\ pc' = [pc EXCEPT ![c] = "idle"]
  <2>1. past'[u] = "restarted" /\ pc'[c] = "idle"
    BY <1>15, <1>2 DEF TypeOK
  <2> QED
    BY <2>1, <1>2, <1>11, <1>13 DEF On
<1> QED
  BY <1>1, <1>14, <1>15

LEMMA ResetDigest ==
  ASSUME TypeOK, Steps, NEW c \in Caller, ResetDiagnostics(c)
  PROVE  \E u \in URI :
           /\ About(c, u) /\ On(c, u)' /\ pc'[c] = "lookupReopen" /\ pc[c] = "idle"
           /\ call'[c].version = openDocs[u]
           /\ call'[c].fresh \/ openDocs[u] > 0
           /\ openDocs' = openDocs /\ past' = past
           /\ diagVersion'[u] = 0
           /\ UNCHANGED <<toServer, toClient, serverVars>>
           /\ \A d \in Caller : ~alone'[d][u]
<1>1. PICK u \in URI :
        /\ Enter(c, u, DiskText, "lookupReopen")
        /\ diags' = [diags EXCEPT ![u] = NoText]
        /\ diagVersion' = [diagVersion EXCEPT ![u] = 0]
        /\ Touch(c, u, FALSE)
        /\ UNCHANGED <<server, openDocs, toServer, toClient, serverVars, diagGen,
                       marks, sent, calm, past>>
  BY DEF ResetDiagnostics
<1>2. DiskText \in Text /\ "lookupReopen" \in PCs
  BY TextAssumption DEF PCs
<1>3. /\ pc[c] = "idle" /\ pc' = [pc EXCEPT ![c] = "lookupReopen"]
      /\ \E k \in Call :
           /\ k.uri = u /\ k.text = DiskText /\ k.version = openDocs[u]
           /\ k.fresh = (openDocs[u] = 0)
           /\ call' = [call EXCEPT ![c] = k]
  BY <1>1, <1>2, EnterTypes
<1>4. PICK k \in Call : /\ k.uri = u /\ k.version = openDocs[u]
                        /\ k.fresh <=> openDocs[u] = 0
                        /\ call' = [call EXCEPT ![c] = k]
  BY <1>3
<1>5. /\ call'[c] = k /\ k # NoCall /\ pc'[c] = "lookupReopen" /\ call[c] = NoCall
      /\ openDocs[u] \in Nat
  BY <1>3, <1>4, NoneAssumption DEF TypeOK, Steps
<1>6. \A w \in URI \ {u} : SameDoc(w)
  BY <1>1, SameSelf DEF SameDoc, serverVars, TypeOK
<1>7. /\ \A d \in Caller, w \in URI : w # u => alone'[d][w] = alone[d][w]
      /\ \A d \in Caller : ~alone'[d][u]
  BY <1>1, TouchEnds
<1>8. \A d \in Caller \ {c} : call'[d] = call[d] /\ pc'[d] = pc[d]
  BY <1>3, <1>4 DEF TypeOK
<1>9. \A w \in URI \ {u} : ~On(c, w) /\ ~On(c, w)'
  BY <1>4, <1>5 DEF On
<1>10. About(c, u)
  BY <1>1, <1>6, <1>7, <1>8, <1>9 DEF About
<1>11. k.fresh \/ openDocs[u] > 0
  BY <1>4, <1>5
<1>12. diagVersion'[u] = 0
  BY <1>1 DEF TypeOK
<1> QED
  BY <1>1, <1>3, <1>4, <1>5, <1>7, <1>10, <1>11, <1>12 DEF On

\* only c's position, call and mark change
OnlyCaller(c) ==
  /\ UNCHANGED World
  /\ \A d \in Caller \ {c} : call'[d] = call[d] /\ pc'[d] = pc[d]

LEMMA MarkDigest ==
  ASSUME TypeOK, Steps, NEW c \in Caller, EditMark(c)
  PROVE  \E u \in URI :
           /\ OnlyCaller(c) /\ pc[c] = "idle" /\ pc'[c] = "lookupEdit"
           /\ call[c] = NoCall /\ On(c, u)'
           /\ call'[c].version = openDocs[u] /\ (call'[c].fresh \/ openDocs[u] > 0)
           /\ \A d \in Caller, w \in URI : d # c \/ w # u =>
                /\ marks'[d][w] = marks[d][w] /\ sent'[d][w] = sent[d][w]
                /\ alone'[d][w] = alone[d][w] /\ calm'[d][w] = calm[d][w]
           /\ marks'[c][u] # NoMark /\ marks'[c][u].gen = diagGen[u]
           /\ sent'[c][u] \in Text
           /\ alone'[c][u] <=> ~Changing(u, c)
           /\ calm'[c][u] <=> ~UnderWay(u)
<1>1. PICK u \in URI, t \in Text :
        /\ Enter(c, u, t, "lookupEdit")
        /\ marks' = [marks EXCEPT ![c][u] = [gen |-> diagGen[u], version |-> 0]]
        /\ sent' = [sent EXCEPT ![c][u] = t]
        /\ alone' = [alone EXCEPT ![c][u] = ~Changing(u, c)]
        /\ calm' = [calm EXCEPT ![c][u] = ~UnderWay(u)]
  BY DEF EditMark
<1>2. "lookupEdit" \in PCs
  BY DEF PCs
<1>3. /\ pc[c] = "idle" /\ pc' = [pc EXCEPT ![c] = "lookupEdit"]
      /\ \E k \in Call :
           /\ k.uri = u /\ k.text = t /\ k.version = openDocs[u]
           /\ k.fresh = (openDocs[u] = 0)
           /\ call' = [call EXCEPT ![c] = k]
  BY <1>1, <1>2, EnterTypes
<1>4. PICK k \in Call : /\ k.uri = u /\ k.version = openDocs[u]
                        /\ k.fresh <=> openDocs[u] = 0
                        /\ call' = [call EXCEPT ![c] = k]
  BY <1>3
<1>5. /\ call'[c] = k /\ k # NoCall /\ pc'[c] = "lookupEdit" /\ call[c] = NoCall
      /\ openDocs[u] \in Nat
  BY <1>3, <1>4, NoneAssumption DEF TypeOK, Steps
<1>6. [gen |-> diagGen[u], version |-> 0] \in Mark
  BY DEF Mark, TypeOK
<1>7. PICK m \in Mark : m = [gen |-> diagGen[u], version |-> 0]
  BY <1>6
<1>8. m # NoMark /\ m.gen = diagGen[u] /\ marks' = [marks EXCEPT ![c][u] = m]
  BY <1>1, <1>7, NoneAssumption
<1>9. marks'[c][u] = m /\ sent'[c][u] = t
  BY <1>1, <1>8 DEF TypeOK
<1>10. alone'[c][u] <=> ~Changing(u, c)
  BY <1>1 DEF TypeOK
<1>11. calm'[c][u] <=> ~UnderWay(u)
  BY <1>1 DEF TypeOK
<1>12. \A d \in Caller, w \in URI : d # c \/ w # u =>
         marks'[d][w] = marks[d][w] /\ sent'[d][w] = sent[d][w]
  BY <1>1, <1>8 DEF TypeOK
<1>13. \A d \in Caller, w \in URI : d # c \/ w # u => alone'[d][w] = alone[d][w]
  <2>1. PICK b : alone' = [alone EXCEPT ![c][u] = b]
    BY <1>1
  <2> QED
    BY <2>1 DEF TypeOK
<1>14. \A d \in Caller, w \in URI : d # c \/ w # u => calm'[d][w] = calm[d][w]
  <2>1. PICK b : calm' = [calm EXCEPT ![c][u] = b]
    BY <1>1
  <2> QED
    BY <2>1 DEF TypeOK
<1>15. OnlyCaller(c)
  BY <1>3, <1>4, LooksKeepWorld DEF OnlyCaller, Looks, TypeOK
<1>16. On(c, u)' /\ call'[c].version = openDocs[u] /\ (call'[c].fresh \/ openDocs[u] > 0)
  BY <1>4, <1>5 DEF On
<1> QED
  BY <1>3, <1>5, <1>8, <1>9, <1>10, <1>11, <1>12, <1>13, <1>14, <1>15, <1>16

LEMMA CallDigest ==
  ASSUME TypeOK, Steps, NEW c \in Caller, CallOpen(c) \/ CallReopen(c)
  PROVE  \E u \in URI :
           /\ OnlyCaller(c) /\ pc[c] = "idle" /\ pc'[c] \in {"assign", "reopen"}
           /\ call[c] = NoCall /\ On(c, u)'
           /\ call'[c].version = openDocs[u] /\ (call'[c].fresh \/ openDocs[u] > 0)
           /\ UNCHANGED markVars
<1>1. PICK u \in URI, t \in Text, l \in {"assign", "reopen"} : Enter(c, u, t, l)
  BY TextAssumption DEF CallOpen, CallReopen
<1>2. l \in PCs
  BY DEF PCs
<1>3. /\ pc[c] = "idle" /\ pc' = [pc EXCEPT ![c] = l]
      /\ \E k \in Call :
           /\ k.uri = u /\ k.text = t /\ k.version = openDocs[u]
           /\ k.fresh = (openDocs[u] = 0)
           /\ call' = [call EXCEPT ![c] = k]
  BY <1>1, <1>2, EnterTypes
<1>4. PICK k \in Call : /\ k.uri = u /\ k.version = openDocs[u]
                        /\ k.fresh <=> openDocs[u] = 0
                        /\ call' = [call EXCEPT ![c] = k]
  BY <1>3
<1>5. /\ call'[c] = k /\ k # NoCall /\ pc'[c] = l /\ call[c] = NoCall
      /\ openDocs[u] \in Nat
  BY <1>3, <1>4, NoneAssumption DEF TypeOK, Steps
<1>6. OnlyCaller(c)
  BY <1>3, <1>4, LooksKeepWorld DEF OnlyCaller, Looks, TypeOK
<1>7. On(c, u)' /\ call'[c].version = openDocs[u] /\ (call'[c].fresh \/ openDocs[u] > 0)
  BY <1>4, <1>5 DEF On
<1>8. UNCHANGED markVars
  BY DEF CallOpen, CallReopen
<1> QED
  BY <1>3, <1>5, <1>6, <1>7, <1>8

LEMMA LookupDigest ==
  ASSUME TypeOK, Steps, NEW c \in Caller, OpenLookup(c) \/ ReopenLookup(c)
  PROVE  LET u == call[c].uri IN
         /\ u \in URI /\ OnlyCaller(c) /\ On(c, u)
         /\ call'[c] # NoCall /\ call'[c].uri = u
         /\ \/ pc[c] = "lookupEdit" /\ pc'[c] = "assignEdit"
            \/ /\ pc[c] = "lookupReopen"
               /\ pc'[c] = "reopen" \/ (pc'[c] = "assign" /\ call'[c].fresh)
         /\ call'[c].version = openDocs[u]
         /\ call'[c].fresh <=> openDocs[u] = 0
         /\ openDocs[u] \in Nat
         /\ UNCHANGED markVars
<1> DEFINE u == call[c].uri
           n == [call[c] EXCEPT !.version = openDocs[u], !.fresh = openDocs[u] = 0]
<1>1. pc[c] \notin Idle
  BY DEF OpenLookup, ReopenLookup, Idle
<1>2. /\ call[c] \in Call /\ call[c] # NoCall /\ u \in URI /\ openDocs[u] \in Nat
  BY <1>1, CallTypes DEF TypeOK
<1>3. n \in Call
  BY <1>2 DEF Call
<1>4. PICK k \in Call : k = n
  BY <1>3
<1>5. k.uri = u /\ k.version = openDocs[u] /\ (k.fresh <=> openDocs[u] = 0) /\ k # NoCall
  BY <1>2, <1>4, NoneAssumption DEF Call
<1>6. call' = [call EXCEPT ![c] = k]
  BY <1>4 DEF OpenLookup, ReopenLookup, TypeOK
<1>7. \/ pc[c] = "lookupEdit" /\ pc' = [pc EXCEPT ![c] = "assignEdit"]
      \/ /\ pc[c] = "lookupReopen"
         /\ pc' = [pc EXCEPT ![c] = "reopen"]
            \/ (pc' = [pc EXCEPT ![c] = "assign"] /\ ~(openDocs[u] > 0))
  BY DEF OpenLookup, ReopenLookup, At
<1>8. UNCHANGED markVars
  BY DEF OpenLookup, ReopenLookup
<1> HIDE DEF n
<1>9. OnlyCaller(c)
  BY <1>6, <1>7, LooksKeepWorld DEF OnlyCaller, Looks, TypeOK
<1>10. call'[c] = k
  BY <1>6 DEF TypeOK
<1>11. \/ pc[c] = "lookupEdit" /\ pc'[c] = "assignEdit"
       \/ /\ pc[c] = "lookupReopen"
          /\ pc'[c] = "reopen" \/ (pc'[c] = "assign" /\ openDocs[u] = 0)
  BY <1>2, <1>7 DEF TypeOK
<1> QED
  BY <1>2, <1>5, <1>8, <1>9, <1>10, <1>11 DEF On

LEMMA VersionDigest ==
  ASSUME TypeOK, Steps, NEW c \in Caller, EditVersion(c)
  PROVE  LET u == call[c].uri IN
         /\ u \in URI /\ OnlyCaller(c) /\ On(c, u) /\ call'[c] = NoCall
         /\ pc[c] = "markVersion" /\ pc'[c] = "idle"
         /\ \A d \in Caller, w \in URI : marks'[d][w] # NoMark <=> marks[d][w] # NoMark
         /\ \A d \in Caller, w \in URI : marks[d][w] # NoMark =>
              marks'[d][w].gen = marks[d][w].gen
         /\ \A d \in Caller, w \in URI : d # c \/ w # u => marks'[d][w] = marks[d][w]
         /\ openDocs[u] > 0 => marks'[c][u].version = openDocs[u]
         /\ UNCHANGED <<sent, alone, calm>>
<1> DEFINE u == call[c].uri
           n == [marks[c][u] EXCEPT !.version = IF openDocs[u] > 0 THEN openDocs[u] ELSE @]
<1>1. pc[c] = "markVersion" /\ pc[c] \notin Idle
  BY DEF EditVersion, Idle
<1>2. /\ call[c] # NoCall /\ u \in URI /\ openDocs[u] \in Nat
      /\ marks[c][u] \in Mark
  BY <1>1, CallTypes DEF TypeOK, Steps
<1>3. n \in Mark
  BY <1>2 DEF Mark
<1>4. PICK m \in Mark : m = n
  BY <1>3
<1>5. /\ m # NoMark /\ m.gen = marks[c][u].gen
      /\ openDocs[u] > 0 => m.version = openDocs[u]
  BY <1>2, <1>4, NoneAssumption DEF Mark
<1>6. marks' = [marks EXCEPT ![c][u] = m]
  BY <1>2, <1>4 DEF EditVersion, TypeOK
<1>7. /\ UNCHANGED <<sent, alone, calm>>
      /\ pc' = [pc EXCEPT ![c] = "idle"] /\ call' = [call EXCEPT ![c] = NoCall]
  BY DEF EditVersion, End, At
<1> HIDE DEF n
<1>8. OnlyCaller(c)
  BY <1>7, LooksKeepWorld DEF OnlyCaller, Looks, TypeOK
<1>9. /\ marks'[c][u] = m
      /\ \A d \in Caller, w \in URI : d # c \/ w # u => marks'[d][w] = marks[d][w]
  BY <1>2, <1>6 DEF TypeOK
<1>10. marks[c][u] # NoMark
  BY <1>2, NoneAssumption
<1>11. call'[c] = NoCall /\ pc'[c] = "idle"
  BY <1>7 DEF TypeOK
<1> QED
  BY <1>1, <1>2, <1>5, <1>7, <1>8, <1>9, <1>10, <1>11 DEF On

LEMMA WaitDigest ==
  ASSUME TypeOK, Steps, NEW c \in Caller, CallEvaluate(c) \/ WaitPoll(c) \/ EvaluateRead(c)
  PROVE  /\ OnlyCaller(c) /\ UNCHANGED <<markVars, call>> /\ call[c] = NoCall
         /\ pc[c] \in Idle /\ pc'[c] \in Idle
         /\ pc'[c] = "settled" => WaitPoll(c)
<1>1. PICK l \in Idle : pc' = [pc EXCEPT ![c] = l] /\ (l = "settled" => WaitPoll(c))
  BY DEF CallEvaluate, WaitPoll, EvaluateRead, Idle
<1>2. UNCHANGED <<markVars, call>> /\ pc[c] \in Idle
  BY DEF CallEvaluate, WaitPoll, EvaluateRead, Idle
<1>3. OnlyCaller(c)
  BY <1>1, <1>2, LooksKeepWorld DEF OnlyCaller, Looks, TypeOK
<1> QED
  BY <1>1, <1>2, <1>3 DEF TypeOK, Steps, Idle

LEMMA SentKeeps ==
  ASSUME TypeOK, NEW u \in URI, NEW m \in Msg, Sent(m, u)
  PROVE  /\ \A v \in Nat : Below(u, v) /\ m.version < v => Below(u, v)'
         /\ m.kind = "open" => OpenAtEnd(u)' /\ InOrder(u)'
         /\ m.kind # "close" /\ OpenAtEnd(u) => OpenAtEnd(u)'
         /\ m.kind # "close" /\ InOrder(u) => InOrder(u)'
         /\ \A v, t : m.kind # "close" /\ m.version = v /\ m.text = t => Queued(u, v, t)'
         /\ \A v \in Nat : \A t : Below(u, v) /\ m.text = t => OnlyLast(u, v, t)'
         /\ ~UnderWay(u) => AtMostOne(u)'
         /\ UNCHANGED <<srvDoc, stale, analysing, lastPub, diags, diagGen, diagVersion, toClient>>
<1>1. /\ toServer \in Seq(Msg) /\ m.uri = u /\ toServer' = Append(toServer, m)
      /\ UNCHANGED <<srvDoc, stale, analysing, lastPub, diags, diagGen, diagVersion, toClient>>
  BY DEF Sent, TypeOK, serverVars, clientVars
<1> DEFINE n == Len(toServer)
<1>2. /\ n \in Nat /\ DOMAIN toServer = 1..n
      /\ DOMAIN toServer' = 1..(n + 1)
      /\ \A i \in 1..n : toServer'[i] = toServer[i]
      /\ toServer'[n + 1] = m
      /\ LastOn(toServer', u, n + 1)
  BY <1>1, AppendFacts, HasAppend
<1> HIDE DEF n
<1>3. \A i \in DOMAIN toServer' :
        i = n + 1 \/ (i \in DOMAIN toServer /\ toServer'[i] = toServer[i] /\ i < n + 1)
  BY <1>2
<1>4. /\ n + 1 \in DOMAIN toServer' /\ n + 1 \notin DOMAIN toServer
      /\ \A i \in DOMAIN toServer : i \in DOMAIN toServer' /\ toServer'[i] = toServer[i] /\ n + 1 > i
  BY <1>2
<1>5. \A v \in Nat : Below(u, v) /\ m.version < v => Below(u, v)'
  BY <1>1, <1>2, <1>3 DEF Below
<1>6. m.kind # "close" /\ OpenAtEnd(u) => OpenAtEnd(u)'
  BY <1>1, <1>2, <1>3, <1>4 DEF OpenAtEnd, Is
<1>7. m.kind = "open" => OpenAtEnd(u)' /\ Remembered(u)'
  <2> SUFFICES ASSUME m.kind = "open" PROVE OpenAtEnd(u)' /\ Remembered(u)'
    OBVIOUS
  <2>1. PICK i \in DOMAIN toServer' : i = n + 1
    BY <1>4
  <2>2. toServer'[i].uri = u /\ toServer'[i].kind = "open"
    BY <1>1, <1>2, <2>1
  <2>3. \A j \in DOMAIN toServer' : ~(j > i)
    BY <1>2, <2>1
  <2>4. OpenAtEnd(u)'
    BY <2>2, <2>3 DEF OpenAtEnd, Is
  <2>5. Remembered(u)'
    BY <2>2 DEF Remembered, Is
  <2> QED
    BY <2>4, <2>5
<1>8. Remembered(u) => Remembered(u)'
  BY <1>1, <1>4 DEF Remembered, Shows, Has, LastOn, Is
<1>9. m.kind # "close" /\ Closing(u)' => Closing(u)
  BY <1>2, <1>3 DEF Closing, Is
<1>10. \A v, t : m.kind # "close" /\ m.version = v /\ m.text = t => Queued(u, v, t)'
  BY <1>2, <1>4 DEF Queued
<1>11. ASSUME NEW v \in Nat, NEW t, Below(u, v), m.text = t PROVE OnlyLast(u, v, t)'
  <2>1. /\ \A i \in DOMAIN toServer : toServer[i].uri = u => ~(toServer[i].version >= v)
        /\ srvDoc[u] # NoDoc => ~(srvDoc[u].version >= v)
        /\ analysing[u] # NoDoc => ~(analysing[u].version >= v)
        /\ \A i \in DOMAIN toClient : toClient[i].uri = u => ~(toClient[i].version >= v)
        /\ ~(diagVersion[u] >= v)
    <3>1. \A x \in Nat : x < v => ~(x >= v)
      OBVIOUS
    <3>2. /\ \A i \in DOMAIN toServer : toServer[i].version \in Nat
          /\ \A i \in DOMAIN toClient : toClient[i].version \in Nat
          /\ srvDoc[u] # NoDoc => srvDoc[u].version \in Nat
          /\ analysing[u] # NoDoc => analysing[u].version \in Nat
          /\ diagVersion[u] \in Nat
      <4>1. toServer \in Seq(Msg) /\ toClient \in Seq(Publication)
        BY DEF TypeOK
      <4>2. /\ \A i \in DOMAIN toServer : toServer[i] \in Msg
            /\ \A i \in DOMAIN toClient : toClient[i] \in Publication
        BY <4>1
      <4>3. /\ srvDoc[u] # NoDoc => srvDoc[u] \in Doc
            /\ analysing[u] # NoDoc => analysing[u] \in Doc
            /\ diagVersion[u] \in Nat
        BY DEF TypeOK
      <4> QED
        BY <4>2, <4>3 DEF Msg, Publication, Doc
    <3> QED
      BY <3>1, <3>2, <1>11 DEF Below
  <2>2. ASSUME NEW i \in DOMAIN toServer', toServer'[i].uri = u, toServer'[i].version >= v
        PROVE  LastOn(toServer', u, i) /\ toServer'[i].text = t
    BY <2>1, <2>2, <1>2, <1>3, <1>11
  <2> QED
    BY <2>1, <2>2, <1>1 DEF OnlyLast
<1>12. ~UnderWay(u) => AtMostOne(u)'
  BY <1>1, <1>3 DEF UnderWay, AtMostOne, Has
<1> QED
  BY <1>1, <1>5, <1>6, <1>7, <1>8, <1>9, <1>10, <1>11, <1>12 DEF InOrder

LEMMA BelowGrows ==
  ASSUME TypeOK, NEW u \in URI, NEW v \in Nat, NEW w \in Nat, v <= w, Below(u, v)
  PROVE  Below(u, w)
<1>1. toServer \in Seq(Msg) /\ toClient \in Seq(Publication)
  BY DEF TypeOK
<1>2. /\ \A i \in DOMAIN toServer : toServer[i].version \in Nat
      /\ \A i \in DOMAIN toClient : toClient[i].version \in Nat
  <2>1. /\ \A i \in DOMAIN toServer : toServer[i] \in Msg
        /\ \A i \in DOMAIN toClient : toClient[i] \in Publication
    BY <1>1
  <2> QED
    BY <2>1 DEF Msg, Publication
<1>3. /\ srvDoc[u] # NoDoc => srvDoc[u].version \in Nat
      /\ analysing[u] # NoDoc => analysing[u].version \in Nat
      /\ diagVersion[u] \in Nat
  <2>1. /\ srvDoc[u] # NoDoc => srvDoc[u] \in Doc
        /\ analysing[u] # NoDoc => analysing[u] \in Doc
        /\ diagVersion[u] \in Nat
    BY DEF TypeOK
  <2> QED
    BY <2>1 DEF Doc
<1>4. \A x \in Nat : x < v => x < w
  OBVIOUS
<1> QED
  BY <1>2, <1>3, <1>4 DEF Below

(***************************************************************************)
(* Versions and closes                                                     *)
(***************************************************************************)

LEMMA OnlyCallerKeeps ==
  ASSUME TypeOK, Texts, NEW c \in Caller, OnlyCaller(c)
  PROVE  /\ \A u \in URI : SameDoc(u)
         /\ openDocs' = openDocs /\ past' = past /\ server' = server
BY WorldUnchanged, TwoTypes DEF OnlyCaller, World

LEMMA VersionsKept ==
  ASSUME TypeOK, Texts, Steps, Versions, Next, TypeOK'
  PROVE  Versions'
<1> SUFFICES ASSUME NEW u \in URI, past'[u] # "restarted", NEW v \in Nat, v = openDocs'[u] + 1
             PROVE  /\ Below(u, v)'
                    /\ \A d \in Caller : On(d, u)' => CallVersion(d, u)'
  <2>1. \A u \in URI : openDocs'[u] + 1 \in Nat
    BY DEF TypeOK
  <2> QED
    BY <2>1 DEF Versions, Below
<1>1. /\ Streams /\ Streams'
      /\ openDocs[u] \in Nat /\ openDocs'[u] \in Nat
  BY DEF TypeOK
<1>2. past[u] # "restarted" =>
        /\ Below(u, openDocs[u] + 1)
        /\ \A d \in Caller : On(d, u) => CallVersion(d, u)
  BY DEF Versions
\* a step that leaves u as it is, and the calls on it
<1>3. ASSUME SameDoc(u), openDocs'[u] = openDocs[u], past'[u] = past[u] PROVE Below(u, v)'
  <2>1. Below(u, v)
    BY <1>2, <1>3
  <2> QED
    BY <1>1, <1>3, <2>1, SameDocKeeps
<1>4. ASSUME NEW d \in Caller, call'[d] = call[d], pc'[d] = pc[d], past[u] # "restarted",
             openDocs'[u] >= openDocs[u], On(d, u)'
      PROVE  CallVersion(d, u)'
  <2>1. On(d, u) /\ CallVersion(d, u)
    BY <1>2, <1>4 DEF On
  <2>2. call[d].version \in Nat
    BY <2>1, NoneAssumption DEF On, TypeOK, Call
  <2> QED
    BY <1>1, <1>4, <2>1, <2>2 DEF CallVersion
<1>5. ASSUME NEW c \in Caller, EditMark(c) \/ CallOpen(c) \/ CallReopen(c)
      PROVE  Below(u, v)' /\ \A d \in Caller : On(d, u)' => CallVersion(d, u)'
  <2>1. PICK w \in URI :
          /\ OnlyCaller(c) /\ pc'[c] \in {"lookupEdit", "assign", "reopen"} /\ On(c, w)'
          /\ call'[c].version = openDocs[w] /\ (call'[c].fresh \/ openDocs[w] > 0)
    BY <1>5, MarkDigest, CallDigest
  <2>2. SameDoc(u) /\ openDocs' = openDocs /\ past' = past
    BY <2>1, OnlyCallerKeeps
  <2>3. On(c, u)' => CallVersion(c, u)'
    BY <1>1, <2>1, <2>2 DEF CallVersion, On
  <2> QED
    BY <1>1, <1>3, <1>4, <2>1, <2>2, <2>3 DEF OnlyCaller
<1>6. ASSUME NEW c \in Caller, OpenLookup(c) \/ ReopenLookup(c)
      PROVE  Below(u, v)' /\ \A d \in Caller : On(d, u)' => CallVersion(d, u)'
  <2>1. PICK w \in URI :
          /\ OnlyCaller(c) /\ On(c, w)'
          /\ pc'[c] \in {"assignEdit", "reopen", "assign"}
          /\ call'[c].version = openDocs[w]
          /\ call'[c].fresh \/ openDocs[w] > 0
    <3>1. PICK w \in URI : w = call[c].uri
      BY <1>6, LookupDigest
    <3>2. /\ OnlyCaller(c) /\ call'[c] # NoCall /\ call'[c].uri = w
          /\ pc'[c] \in {"assignEdit", "reopen", "assign"}
          /\ call'[c].version = openDocs[w]
          /\ call'[c].fresh <=> openDocs[w] = 0
          /\ openDocs[w] \in Nat
      BY <1>6, <3>1, LookupDigest
    <3> QED
      BY <3>2 DEF On
  <2>2. SameDoc(u) /\ openDocs' = openDocs /\ past' = past
    BY <2>1, OnlyCallerKeeps
  <2>3. On(c, u)' => CallVersion(c, u)'
    BY <1>1, <2>1, <2>2 DEF CallVersion, On
  <2> QED
    BY <1>1, <1>3, <1>4, <2>1, <2>2, <2>3 DEF OnlyCaller
<1>7. ASSUME NEW c \in Caller,
             EditVersion(c) \/ CallEvaluate(c) \/ WaitPoll(c) \/ EvaluateRead(c)
      PROVE  Below(u, v)' /\ \A d \in Caller : On(d, u)' => CallVersion(d, u)'
  <2>1. OnlyCaller(c) /\ call'[c] = NoCall
    BY <1>7, VersionDigest, WaitDigest
  <2>2. SameDoc(u) /\ openDocs' = openDocs /\ past' = past
    BY <2>1, OnlyCallerKeeps
  <2>3. ~On(c, u)'
    BY <2>1 DEF On
  <2> QED
    BY <1>1, <1>3, <1>4, <2>1, <2>2, <2>3 DEF OnlyCaller
\* steps about another document
<1>8. ASSUME NEW c \in Caller, NEW w \in URI, About(c, w), w # u
      PROVE  Below(u, v)' /\ \A d \in Caller : On(d, u)' => CallVersion(d, u)'
  BY <1>1, <1>3, <1>4, <1>8 DEF About
<1>9. ASSUME NEW c \in Caller, OpenAssign(c)
      PROVE  Below(u, v)' /\ \A d \in Caller : On(d, u)' => CallVersion(d, u)'
  <2>0. PICK w \in URI : w = call[c].uri
    BY <1>9, AssignDigest
  <2>1. /\ About(c, w) /\ SameDoc(w)
        /\ call[c].version \in Nat /\ call'[c].version = call[c].version + 1
        /\ call'[c].fresh = call[c].fresh
        /\ openDocs'[w] = call[c].version + 1
        /\ past'[w] = IF call[c].version + 1 < openDocs[w] THEN "restarted" ELSE past[w]
    BY <1>9, <2>0, AssignDigest
  <2>2. CASE w = u
    <3>0. ~(call[c].version + 1 < openDocs[u]) /\ past'[u] = past[u]
      BY <2>1, <2>2
    <3>a. call[c].version \in Nat /\ openDocs'[u] = call[c].version + 1
      BY <2>1, <2>2
    <3>b. openDocs'[u] >= openDocs[u] /\ openDocs'[u] > 0
      <4>1. \A x, y \in Nat : ~(x + 1 < y) => x + 1 >= y /\ x + 1 > 0
        OBVIOUS
      <4>2. call[c].version + 1 >= openDocs[u] /\ call[c].version + 1 > 0
        BY <1>1, <3>0, <3>a, <4>1
      <4> QED
        BY <3>a, <4>2
    <3>1. openDocs'[u] >= openDocs[u] /\ past[u] # "restarted" /\ openDocs'[u] > 0
      BY <3>0, <3>b
    <3>2. openDocs[u] + 1 \in Nat /\ openDocs[u] + 1 <= v
      BY <1>1, <3>1
    <3>3. Below(u, v)
      BY <1>2, <3>1, <3>2, BelowGrows
    <3>4. Below(u, v)'
      BY <1>1, <2>1, <2>2, <3>3, SameDocKeeps
    <3>5. CallVersion(c, u)'
      BY <3>a, <2>1, <3>1 DEF CallVersion
    <3>6. \A d \in Caller \ {c} : On(d, u)' => CallVersion(d, u)'
      BY <1>4, <2>1, <3>1 DEF About
    <3> QED
      BY <3>4, <3>5, <3>6
  <2> QED
    BY <1>8, <2>1, <2>2
<1>10. ASSUME NEW c \in Caller, OpenSend(c)
       PROVE  Below(u, v)' /\ \A d \in Caller : On(d, u)' => CallVersion(d, u)'
  <2>0. PICK w \in URI : w = call[c].uri
    BY <1>10, SendDigest
  <2>1. /\ About(c, w) /\ On(c, w)
        /\ pc[c] \in {"send", "sendEdit"}
        /\ pc[c] = "sendEdit" => pc'[c] = "markVersion" /\ call'[c] = call[c]
        /\ pc[c] = "send" => pc'[c] = "idle" /\ call'[c] = NoCall
        /\ \E m \in Msg : m.version = call[c].version /\ Sent(m, w)
        /\ call[c].version \in Nat
        /\ openDocs' = openDocs /\ past' = past
    BY <1>10, <2>0, SendDigest
  <2>2. CASE w = u
    <3>1. PICK m \in Msg : m.version = call[c].version /\ Sent(m, u)
      BY <2>1, <2>2
    <3>2. Below(u, v) /\ CallVersion(c, u)
      BY <1>2, <2>1, <2>2
    <3>3. m.version < v
      BY <1>1, <2>1, <3>1, <3>2 DEF CallVersion
    <3>4. Below(u, v)'
      BY <3>1, <3>2, <3>3, SentKeeps
    <3>5. On(c, u)' => CallVersion(c, u)'
      BY <2>1, <3>2 DEF CallVersion, On
    <3>6. \A d \in Caller \ {c} : On(d, u)' => CallVersion(d, u)'
      BY <1>1, <1>4, <2>1 DEF About
    <3> QED
      BY <3>4, <3>5, <3>6
  <2> QED
    BY <1>8, <2>1, <2>2
<1>11. ASSUME NEW c \in Caller, CloseDocument(c) \/ CloseSend(c)
       PROVE  Below(u, v)' /\ \A d \in Caller : On(d, u)' => CallVersion(d, u)'
  BY <1>8, <1>11, CloseDigest
<1>12. ASSUME NEW c \in Caller, ReopenClose(c)
       PROVE  Below(u, v)' /\ \A d \in Caller : On(d, u)' => CallVersion(d, u)'
  <2>0. PICK w \in URI : w = call[c].uri
    BY <1>12, ReopenDigest
  <2>1. /\ About(c, w) /\ On(c, w)
        /\ \/ past'[w] = "restarted"
           \/ /\ pc'[c] = "assign"
              /\ call'[c].fresh /\ call'[c].version = call[c].version
              /\ openDocs' = openDocs /\ past[w] # "restarted"
              /\ \E m \in Msg : m.version = 0 /\ Sent(m, w)
    BY <1>12, <2>0, ReopenDigest
  <2>2. CASE w = u
    <3>1. PICK m \in Msg : m.version = 0 /\ Sent(m, u)
      BY <2>1, <2>2
    <3>2. Below(u, v) /\ CallVersion(c, u) /\ openDocs' = openDocs /\ past[u] # "restarted"
      BY <1>2, <2>1, <2>2
    <3>3. m.version < v
      BY <1>1, <3>1
    <3>4. Below(u, v)'
      BY <3>1, <3>2, <3>3, SentKeeps
    <3>5. CallVersion(c, u)'
      BY <2>1, <2>2, <3>2 DEF CallVersion
    <3>6. \A d \in Caller \ {c} : On(d, u)' => CallVersion(d, u)'
      BY <1>1, <1>4, <2>1, <3>2 DEF About
    <3> QED
      BY <3>4, <3>5, <3>6
  <2> QED
    BY <1>8, <2>1, <2>2
<1>13. ASSUME NEW c \in Caller, ResetDiagnostics(c)
       PROVE  Below(u, v)' /\ \A d \in Caller : On(d, u)' => CallVersion(d, u)'
  <2>1. PICK w \in URI :
          /\ About(c, w) /\ On(c, w)' /\ pc'[c] = "lookupReopen"
          /\ call'[c].version = openDocs[w]
          /\ call'[c].fresh \/ openDocs[w] > 0
          /\ openDocs' = openDocs /\ past' = past
          /\ diagVersion'[w] = 0
          /\ UNCHANGED <<toServer, toClient, serverVars>>
    BY <1>13, ResetDigest
  <2>2. CASE w = u
    <3>1. Below(u, v)
      BY <1>2, <2>1
    <3>2. Below(u, v)'
      BY <1>1, <2>1, <2>2, <3>1 DEF Below, serverVars
    <3>3. CallVersion(c, u)'
      BY <1>1, <2>1, <2>2 DEF CallVersion
    <3> QED
      BY <1>1, <1>4, <2>1, <3>2, <3>3 DEF About
  <2> QED
    BY <1>8, <2>1, <2>2
<1>14. ASSUME Deliver \/ ServerReads \/ \E w \in URI : ServerAnalyses(w) \/ ServerPublishes(w)
       PROVE  Below(u, v)' /\ \A d \in Caller : On(d, u)' => CallVersion(d, u)'
  <2>1. Kept(u) /\ UNCHANGED <<server, openDocs, pc, call, markVars, sends, past>>
    BY <1>14, WorldKept
  <2>2. Below(u, v) /\ v \in Nat \ {0}
    BY <1>1, <1>2, <2>1
  <2> QED
    BY <1>1, <1>4, <2>1, <2>2 DEF Kept
<1> QED
  BY <1>5, <1>6, <1>7, <1>9, <1>10, <1>11, <1>12, <1>13, <1>14 DEF Next

LEMMA NeverClosedKept ==
  ASSUME TypeOK, Texts, Steps, NeverClosed, Next, TypeOK'
  PROVE  NeverClosed'
<1> SUFFICES ASSUME NEW u \in URI, past'[u] = "never"
             PROVE  /\ \A i \in DOMAIN toServer' : ~Is(i, u, "close")'
                    /\ server'.versioned =>
                         \A i \in DOMAIN toClient' : toClient'[i].uri = u => toClient'[i].version > 0
  BY DEF NeverClosed, Is
<1> DEFINE Goal == /\ \A i \in DOMAIN toServer' : ~Is(i, u, "close")'
                   /\ server'.versioned =>
                        \A i \in DOMAIN toClient' : toClient'[i].uri = u => toClient'[i].version > 0
<1>1. past[u] = "never" =>
        /\ \A i \in DOMAIN toServer : ~Is(i, u, "close")
        /\ server.versioned =>
             \A i \in DOMAIN toClient : toClient[i].uri = u => toClient[i].version > 0
  BY DEF NeverClosed
<1>2. ASSUME SameDoc(u), past'[u] = past[u], server' = server PROVE Goal
  <2>0. Same(toServer, toServer', u) /\ Same(toClient, toClient', u)
    BY <1>2 DEF SameDoc
  <2> HIDE DEF Goal
  <2>1. PICK k : Shifted(toServer, toServer', u, k)
    BY <2>0 DEF Same, Shifted
  <2>2. PICK l : Shifted(toClient, toClient', u, l)
    BY <2>0 DEF Same, Shifted
  <2>3. /\ \A i \in DOMAIN toServer' :
             toServer'[i].uri = u => i + k \in DOMAIN toServer /\ toServer[i + k] = toServer'[i]
        /\ \A i \in DOMAIN toClient' :
             toClient'[i].uri = u => i + l \in DOMAIN toClient /\ toClient[i + l] = toClient'[i]
    BY <2>1, <2>2 DEF Shifted
  <2>4. \A i \in DOMAIN toServer' : ~Is(i, u, "close")'
    BY <1>1, <1>2, <2>3 DEF Is
  <2>5. server'.versioned =>
          \A i \in DOMAIN toClient' : toClient'[i].uri = u => toClient'[i].version > 0
    BY <1>1, <1>2, <2>3
  <2> QED
    BY <2>4, <2>5 DEF Goal
<1>3. ASSUME NEW c \in Caller,
             EditMark(c) \/ CallOpen(c) \/ CallReopen(c) \/ OpenLookup(c) \/ ReopenLookup(c)
             \/ EditVersion(c) \/ CallEvaluate(c) \/ WaitPoll(c) \/ EvaluateRead(c)
      PROVE  Goal
  <2>1. OnlyCaller(c)
    BY <1>3, MarkDigest, CallDigest, LookupDigest, VersionDigest, WaitDigest
  <2>2. SameDoc(u) /\ past' = past /\ server' = server
    BY <2>1, OnlyCallerKeeps
  <2> QED
    BY <1>2, <2>2
\* steps about another document
<1>4. ASSUME NEW c \in Caller, NEW w \in URI, About(c, w), w # u PROVE Goal
  BY <1>2, <1>4 DEF About
<1>5. ASSUME NEW c \in Caller, OpenAssign(c) PROVE Goal
  <2>0. PICK w \in URI : w = call[c].uri
    BY <1>5, AssignDigest
  <2>1. /\ About(c, w) /\ SameDoc(w)
        /\ past'[w] = IF call[c].version + 1 < openDocs[w] THEN "restarted" ELSE past[w]
    BY <1>5, <2>0, AssignDigest
  <2>2. CASE w = u
    <3>1. past'[u] = past[u] /\ server' = server
      BY <2>1, <2>2 DEF About
    <3> QED
      BY <1>2, <2>1, <2>2, <3>1
  <2> QED
    BY <1>4, <2>1, <2>2
<1>6. ASSUME NEW c \in Caller, OpenSend(c) PROVE Goal
  <2>0. PICK w \in URI : w = call[c].uri
    BY <1>6, SendDigest
  <2>1. /\ About(c, w) /\ past' = past
        /\ \E m \in Msg :
             /\ m.kind = (IF call[c].fresh THEN "open" ELSE "change")
             /\ Sent(m, w)
    BY <1>6, <2>0, SendDigest
  <2>2. CASE w = u
    <3>1. PICK m \in Msg : m.kind # "close" /\ Sent(m, u)
      BY <2>1, <2>2
    <3>2. /\ toServer \in Seq(Msg) /\ toServer' = Append(toServer, m)
          /\ toClient' = toClient /\ server' = server /\ past[u] = "never"
      BY <2>1, <3>1 DEF Sent, About, TypeOK
    <3>3. \A i \in DOMAIN toServer' :
            toServer'[i] = m \/ (i \in DOMAIN toServer /\ toServer'[i] = toServer[i])
      BY <3>2, AppendFacts
    <3>4. \A i \in DOMAIN toServer' : ~Is(i, u, "close")'
      BY <1>1, <3>1, <3>2, <3>3 DEF Is
    <3> QED
      BY <1>1, <3>2, <3>4
  <2> QED
    BY <1>4, <2>1, <2>2
<1>7. ASSUME NEW c \in Caller, CloseDocument(c) \/ CloseSend(c) PROVE Goal
  <2>1. PICK w \in URI : About(c, w) /\ past'[w] = "restarted"
    BY <1>7, CloseDigest
  <2> QED
    BY <1>4, <2>1
<1>8. ASSUME NEW c \in Caller, ReopenClose(c) PROVE Goal
  <2>0. PICK w \in URI : w = call[c].uri
    BY <1>8, ReopenDigest
  <2>1. About(c, w) /\ past'[w] # "never"
    BY <1>8, <2>0, ReopenDigest
  <2> QED
    BY <1>4, <2>1
<1>9. ASSUME NEW c \in Caller, ResetDiagnostics(c) PROVE Goal
  <2>1. PICK w \in URI : About(c, w) /\ past' = past /\ UNCHANGED <<toServer, toClient>>
    BY <1>9, ResetDigest
  <2>2. server' = server
    BY <2>1 DEF About
  <2> QED
    BY <1>1, <2>1, <2>2 DEF Is
\* the server and the client
<1>10. ASSUME UNCHANGED <<server, past>>,
              \A i \in DOMAIN toServer' : \E j \in DOMAIN toServer : toServer'[i] = toServer[j],
              \A i \in DOMAIN toClient' :
                \/ \E j \in DOMAIN toClient : toClient'[i] = toClient[j]
                \/ server.versioned /\ toClient'[i].uri = u => toClient'[i].version > 0
       PROVE  Goal
  BY <1>1, <1>10 DEF Is
<1>11. CASE Deliver
  <2>1. toClient \in Seq(Publication) /\ toClient # <<>> /\ toClient' = Tail(toClient)
        /\ UNCHANGED <<server, past, toServer>>
    BY <1>11 DEF Deliver, TypeOK
  <2>2. \A i \in DOMAIN toClient' : \E j \in DOMAIN toClient : toClient'[i] = toClient[j]
    BY <2>1, TailFacts
  <2> QED
    BY <1>10, <2>1, <2>2
<1>12. CASE ServerReads
  <2>1. toServer \in Seq(Msg) /\ toServer # <<>> /\ toServer' = Tail(toServer)
        /\ UNCHANGED <<server, past>>
    BY <1>12 DEF ServerReads, TypeOK
  <2>2. \A i \in DOMAIN toServer' : \E j \in DOMAIN toServer : toServer'[i] = toServer[j]
    BY <2>1, TailFacts
  <2>3. toServer[1] = Head(toServer) /\ 1 \in DOMAIN toServer
    BY <2>1
  <2>4. CASE toClient' = toClient
    BY <1>10, <2>1, <2>2, <2>4
  <2>5. CASE /\ Head(toServer).kind = "close"
             /\ toClient' = Append(toClient, [uri |-> Head(toServer).uri, version |-> 0, text |-> NoText])
    <3> DEFINE n == [uri |-> Head(toServer).uri, version |-> 0, text |-> NoText]
    <3>1. Head(toServer).uri # u
      BY <1>1, <2>1, <2>3, <2>5 DEF Is
    <3>2. n \in Publication /\ n.uri # u
      <4>1. Head(toServer) \in Msg
        BY <2>1, TailFacts
      <4> QED
        BY <3>1, <4>1 DEF Msg, Publication
    <3>a. toClient' = Append(toClient, n) /\ toClient \in Seq(Publication)
      BY <2>5 DEF TypeOK
    <3> HIDE DEF n
    <3>3. \A i \in DOMAIN toClient' :
            toClient'[i].uri # u \/ (i \in DOMAIN toClient /\ toClient'[i] = toClient[i])
      BY <3>a, <3>2, AppendFacts
    <3> QED
      BY <1>10, <2>1, <2>2, <3>3
  <2> QED
    BY <1>12, <2>4, <2>5 DEF ServerReads
<1>13. ASSUME NEW w \in URI, ServerAnalyses(w) PROVE Goal
  <2>1. UNCHANGED <<server, past, toServer, toClient>>
    BY <1>13 DEF ServerAnalyses
  <2> QED
    BY <1>10, <2>1
<1>14. ASSUME NEW w \in URI, ServerPublishes(w) PROVE Goal
  <2>1. UNCHANGED <<server, past, toServer>> /\ analysing[w] # NoDoc
    BY <1>14 DEF ServerPublishes
  <2>2. CASE toClient' = toClient
    BY <1>10, <2>1, <2>2
  <2> DEFINE n == [uri |-> w, version |-> IF server.versioned THEN analysing[w].version ELSE 0,
                   text |-> analysing[w].text]
  <2>3. CASE toClient' = Append(toClient, n)
    <3>1. analysing[w] \in Doc /\ analysing[w].version > 0
      BY <2>1 DEF TypeOK, Texts
    <3>2. n \in Publication /\ (server.versioned => n.version > 0)
      BY <3>1 DEF Publication, Doc
    <3>a. toClient' = Append(toClient, n) /\ toClient \in Seq(Publication)
      BY <2>3 DEF TypeOK
    <3> HIDE DEF n
    <3>3. \A i \in DOMAIN toClient' :
            toClient'[i] = n \/ (i \in DOMAIN toClient /\ toClient'[i] = toClient[i])
      BY <3>a, <3>2, AppendFacts
    <3> QED
      BY <1>10, <2>1, <3>2, <3>3
  <2> QED
    BY <1>14, <2>2, <2>3 DEF ServerPublishes
<1> QED
  BY <1>3, <1>5, <1>6, <1>7, <1>8, <1>9, <1>11, <1>12, <1>13, <1>14 DEF Next

(***************************************************************************)
(* A document that is tracked will be open                                 *)
(***************************************************************************)

LEMMA OpensKept ==
  ASSUME TypeOK, Texts, Steps, Versions, Opens, Next, TypeOK'
  PROVE  Opens'
<1> SUFFICES ASSUME NEW u \in URI, past'[u] # "restarted"
             PROVE  (\E d \in Caller : Opener(d, u)') \/ Ordered(u)'
  BY DEF Opens
<1> DEFINE Goal == (\E d \in Caller : Opener(d, u)') \/ Ordered(u)'
<1>1. past[u] # "restarted" => (\E d \in Caller : Opener(d, u)) \/ Ordered(u)
  BY DEF Opens
<1>2. Streams /\ Streams' /\ openDocs[u] \in Nat
  BY DEF TypeOK
<1>3. ASSUME NEW d \in Caller, call'[d] = call[d], pc'[d] = pc[d], Opener(d, u)
      PROVE  Opener(d, u)'
  BY <1>3 DEF Opener, On
<1>4. ASSUME SameDoc(u), openDocs'[u] = openDocs[u], Ordered(u) PROVE Ordered(u)'
  BY <1>2, <1>4, SameDocKeeps DEF Ordered
\* a step of c that leaves u as it is
<1>5. ASSUME NEW c \in Caller, SameDoc(u), openDocs'[u] = openDocs[u], past'[u] = past[u],
             \A d \in Caller \ {c} : call'[d] = call[d] /\ pc'[d] = pc[d],
             Opener(c, u) => Opener(c, u)'
      PROVE  Goal
  <2>1. \A d \in Caller : Opener(d, u) => Opener(d, u)'
    BY <1>3, <1>5
  <2> QED
    BY <1>1, <1>4, <1>5, <2>1
<1>6. ASSUME NEW c \in Caller, OnlyCaller(c), Opener(c, u) => Opener(c, u)' PROVE Goal
  <2>1. SameDoc(u) /\ openDocs' = openDocs /\ past' = past
    BY <1>6, OnlyCallerKeeps
  <2> QED
    BY <1>5, <1>6, <2>1 DEF OnlyCaller
<1>7. ASSUME NEW c \in Caller,
             EditMark(c) \/ CallOpen(c) \/ CallReopen(c) \/ CallEvaluate(c) \/ WaitPoll(c)
             \/ EvaluateRead(c)
      PROVE  Goal
  <2>1. OnlyCaller(c) /\ call[c] = NoCall
    BY <1>7, MarkDigest, CallDigest, WaitDigest
  <2> QED
    BY <1>6, <2>1 DEF Opener, On
<1>8. ASSUME NEW c \in Caller, EditVersion(c) PROVE Goal
  <2>1. OnlyCaller(c) /\ pc[c] = "markVersion"
    BY <1>8, VersionDigest
  <2> QED
    BY <1>6, <2>1 DEF Opener
<1>9. ASSUME NEW c \in Caller, OpenLookup(c) \/ ReopenLookup(c) PROVE Goal
  <2>1. PICK w \in URI : w = call[c].uri
    BY <1>9, LookupDigest
  <2>2. /\ OnlyCaller(c) /\ call'[c] # NoCall /\ call'[c].uri = w
        /\ \/ pc[c] = "lookupEdit"
           \/ /\ pc[c] = "lookupReopen"
              /\ pc'[c] = "reopen" \/ (pc'[c] = "assign" /\ call'[c].fresh)
    BY <1>9, <2>1, LookupDigest
  <2>3. Opener(c, u) => Opener(c, u)'
    BY <2>1, <2>2 DEF Opener, On
  <2> QED
    BY <1>6, <2>2, <2>3
\* steps about another document
<1>10. ASSUME NEW c \in Caller, NEW w \in URI, About(c, w), w # u PROVE Goal
  <2>1. /\ SameDoc(u) /\ openDocs'[u] = openDocs[u] /\ past'[u] = past[u]
        /\ \A d \in Caller \ {c} : call'[d] = call[d] /\ pc'[d] = pc[d]
        /\ ~On(c, u)
    BY <1>10 DEF About
  <2> QED
    BY <1>5, <2>1 DEF Opener
<1>11. ASSUME NEW c \in Caller, OpenAssign(c) PROVE Goal
  <2>0. PICK w \in URI : w = call[c].uri
    BY <1>11, AssignDigest
  <2>1. /\ About(c, w) /\ SameDoc(w) /\ On(c, w)
        /\ call'[c] # NoCall /\ call'[c].uri = w /\ call'[c].fresh = call[c].fresh
        /\ pc'[c] \in {"send", "sendEdit"}
        /\ past'[w] = IF call[c].version + 1 < openDocs[w] THEN "restarted" ELSE past[w]
    BY <1>11, <2>0, AssignDigest
  <2>2. CASE w = u
    <3>1. past[u] # "restarted"
      BY <2>1, <2>2
    <3>2. CASE call[c].fresh
      <4>1. Opener(c, u)'
        BY <2>1, <2>2, <3>2 DEF Opener, On
      <4> QED
        BY <4>1
    <3>3. CASE ~call[c].fresh
      <4>1. openDocs[u] > 0
        BY <2>1, <2>2, <3>1, <3>3 DEF Versions, CallVersion
      <4>2. CASE \E d \in Caller : Opener(d, u)
        <5>1. PICK d \in Caller : Opener(d, u)
          BY <4>2
        <5>2. pc[c] \in {"assign", "assignEdit"}
          BY <1>11 DEF OpenAssign
        <5>3. d # c
          BY <3>3, <5>1, <5>2 DEF Opener
        <5>4. Opener(d, u)'
          BY <1>3, <2>1, <5>1, <5>3 DEF About
        <5> QED
          BY <5>4
      <4>3. CASE Ordered(u)
        <5>1. InOrder(u)' /\ OpenAtEnd(u)'
          BY <1>2, <2>1, <2>2, <4>1, <4>3, SameDocKeeps DEF Ordered
        <5> QED
          BY <5>1 DEF Ordered
      <4> QED
        BY <1>1, <3>1, <4>2, <4>3
    <3> QED
      BY <3>2, <3>3
  <2> QED
    BY <1>10, <2>1, <2>2
<1>12. ASSUME NEW c \in Caller, OpenSend(c) PROVE Goal
  <2>0. PICK w \in URI : w = call[c].uri
    BY <1>12, SendDigest
  <2>1. /\ About(c, w) /\ openDocs' = openDocs /\ past' = past
        /\ \E m \in Msg :
             m.kind = (IF call[c].fresh THEN "open" ELSE "change") /\ Sent(m, w)
        /\ pc[c] \in {"send", "sendEdit"}
    BY <1>12, <2>0, SendDigest
  <2>2. CASE w = u
    <3>1. PICK m \in Msg :
            m.kind = (IF call[c].fresh THEN "open" ELSE "change") /\ Sent(m, u)
      BY <2>1, <2>2
    <3>2. CASE m.kind = "open"
      <4>1. OpenAtEnd(u)' /\ InOrder(u)'
        BY <3>1, <3>2, SentKeeps
      <4> QED
        BY <4>1 DEF Ordered
    <3>3. CASE m.kind = "change" /\ ~call[c].fresh
      <4>1. (OpenAtEnd(u) => OpenAtEnd(u)') /\ (InOrder(u) => InOrder(u)')
        <5>1. m.kind # "close"
          BY <3>3
        <5> QED
          BY <3>1, <5>1, SentKeeps
      <4>2. Ordered(u) => Ordered(u)'
        BY <2>1, <4>1 DEF Ordered
      <4>3. ~Opener(c, u)
        BY <2>1, <3>3 DEF Opener
      <4>4. \A d \in Caller : Opener(d, u) => Opener(d, u)'
        BY <1>3, <2>1, <4>3 DEF About
      <4> QED
        BY <1>1, <2>1, <4>2, <4>4
    <3> QED
      BY <3>1, <3>2, <3>3
  <2> QED
    BY <1>10, <2>1, <2>2
<1>13. ASSUME NEW c \in Caller, CloseDocument(c) \/ CloseSend(c) PROVE Goal
  BY <1>10, <1>13, CloseDigest
<1>14. ASSUME NEW c \in Caller, ReopenClose(c) PROVE Goal
  <2>0. PICK w \in URI : w = call[c].uri
    BY <1>14, ReopenDigest
  <2>1. /\ About(c, w)
        /\ \/ past'[w] = "restarted"
           \/ /\ pc'[c] = "assign" /\ call'[c] # NoCall /\ call'[c].uri = w
              /\ call'[c].fresh
    BY <1>14, <2>0, ReopenDigest
  <2>2. CASE w = u
    <3>1. Opener(c, u)'
      BY <2>1, <2>2 DEF Opener, On
    <3> QED
      BY <3>1
  <2> QED
    BY <1>10, <2>1, <2>2
<1>15. ASSUME NEW c \in Caller, ResetDiagnostics(c) PROVE Goal
  <2>1. PICK w \in URI : About(c, w) /\ On(c, w)' /\ pc'[c] = "lookupReopen"
    BY <1>15, ResetDigest
  <2>2. CASE w = u
    <3>1. Opener(c, u)'
      BY <2>1, <2>2 DEF Opener
    <3> QED
      BY <3>1
  <2> QED
    BY <1>10, <2>1, <2>2
<1>16. ASSUME Deliver \/ ServerReads \/ \E w \in URI : ServerAnalyses(w) \/ ServerPublishes(w)
       PROVE  Goal
  <2>1. Kept(u) /\ UNCHANGED <<openDocs, pc, call, past>>
    BY <1>16, WorldKept
  <2>2. Ordered(u) => Ordered(u)'
    BY <2>1 DEF Kept, Ordered
  <2>3. \A d \in Caller : Opener(d, u) => Opener(d, u)'
    BY <1>3, <2>1
  <2> QED
    BY <1>1, <2>1, <2>2, <2>3
<1> QED
  BY <1>7, <1>8, <1>9, <1>11, <1>12, <1>13, <1>14, <1>15, <1>16 DEF Next

(***************************************************************************)
(* An edit no other call has followed                                      *)
(***************************************************************************)

\* d comes no further with its edit of u, or only looks the version up
Paused(d, u) ==
  /\ marks'[d][u] # NoMark /\ marks'[d][u].gen = marks[d][u].gen
  /\ sent'[d][u] = sent[d][u] /\ (calm'[d][u] <=> calm[d][u])
  /\ Editing(d, u)' <=> Editing(d, u)
  /\ On(d, u)' /\ pc'[d] = "assignEdit" =>
       call'[d].version = openDocs[u] /\ (call'[d].fresh <=> openDocs[u] = 0)
  /\ On(d, u)' /\ pc'[d] = "sendEdit" <=> On(d, u) /\ pc[d] = "sendEdit"
  /\ On(d, u) /\ pc[d] = "sendEdit" => call'[d] = call[d]
  /\ openDocs[u] > 0
     /\ (marks[d][u].version = openDocs[u] \/ (On(d, u) /\ pc[d] = "markVersion")) =>
       marks'[d][u].version = openDocs[u] \/ (On(d, u)' /\ pc'[d] = "markVersion")

LEMMA OwnQuiet ==
  ASSUME TypeOK, Steps, NEW d \in Caller, NEW u \in URI, Kept(u), Paused(d, u),
         openDocs'[u] = openDocs[u], OwnVersioned(d, u) => OwnVersioned(d, u)',
         OwnAll(d, u)
  PROVE  OwnAll(d, u)'
<1>1. openDocs[u] \in Nat /\ sent[d][u] \in Text
  BY DEF TypeOK, OwnAll
<1>2. /\ OwnBefore(d, u) /\ OwnAfter(d, u) /\ OwnCalm(d, u)
  BY DEF OwnAll
<1>3. /\ sent'[d][u] = sent[d][u] /\ (calm'[d][u] <=> calm[d][u])
      /\ marks'[d][u].gen = marks[d][u].gen
      /\ Editing(d, u)' <=> Editing(d, u)
      /\ On(d, u)' /\ pc'[d] = "assignEdit" =>
           call'[d].version = openDocs[u] /\ (call'[d].fresh <=> openDocs[u] = 0)
      /\ On(d, u)' /\ pc'[d] = "sendEdit" <=> On(d, u) /\ pc[d] = "sendEdit"
      /\ On(d, u) /\ pc[d] = "sendEdit" => call'[d] = call[d]
  BY DEF Paused
<1>4. /\ InOrder(u) => InOrder(u)'
      /\ OpenAtEnd(u) => OpenAtEnd(u)'
      /\ AtMostOne(u) => AtMostOne(u)'
      /\ UnderWay(u)' => UnderWay(u)
      /\ ~UnderWay(u) => diagGen'[u] = diagGen[u]
      /\ AtMostOne(u) /\ diagGen'[u] # diagGen[u] => ~UnderWay(u)'
  BY DEF Kept
<1>5. OwnBefore(d, u)'
  <2>1. On(d, u) /\ pc[d] = "sendEdit" => Below(u, openDocs[u])'
    <3> SUFFICES ASSUME On(d, u), pc[d] = "sendEdit" PROVE Below(u, openDocs[u])'
      OBVIOUS
    <3>1. call[d].version = openDocs[u] /\ Below(u, openDocs[u]) /\ call[d].version > 0
      BY <1>2 DEF OwnBefore, Steps
    <3>2. PICK v \in Nat \ {0} : v = openDocs[u]
      BY <1>1, <3>1
    <3>3. Below(u, v)'
      BY <3>1, <3>2 DEF Kept
    <3>4. v = openDocs'[u]
      BY <3>2
    <3> QED
      BY <3>3, <3>4 DEF Below
  <2>2. /\ InOrder(u)'
        /\ openDocs'[u] > 0 =>
             OpenAtEnd(u)' \/ (On(d, u)' /\ pc'[d] = "sendEdit" /\ call'[d].fresh)
        /\ On(d, u)' /\ pc'[d] = "assignEdit" =>
             call'[d].version = openDocs'[u] /\ (call'[d].fresh <=> openDocs'[u] = 0)
        /\ On(d, u)' /\ pc'[d] = "sendEdit" => call'[d].version = openDocs'[u]
    BY <1>2, <1>3, <1>4 DEF OwnBefore
  <2> QED
    BY <1>3, <2>1, <2>2 DEF OwnBefore
<1>6. OwnAfter(d, u)'
  <2> SUFFICES ASSUME ~Editing(d, u) PROVE OwnAfter(d, u)'
    BY <1>3 DEF OwnAfter
  <2>1. PICK v \in Nat \ {0} : v = openDocs[u]
    BY <1>1, <1>2 DEF OwnAfter
  <2>2. PICK t \in Text : t = sent[d][u]
    BY <1>1
  <2>3. Stage(u, v, t) /\ OnlyLast(u, v, t)
    BY <1>2, <2>1, <2>2 DEF OwnAfter
  <2>4. InOrder(u) /\ OpenAtEnd(u)
    BY <1>2, <2>1 DEF OwnBefore, Editing
  <2>5. Stage(u, v, t)' /\ OnlyLast(u, v, t)'
    BY <2>3, <2>4 DEF Kept
  <2>6. openDocs'[u] = v /\ sent'[d][u] = t
    BY <1>3, <2>1, <2>2
  <2>7. marks'[d][u].version = openDocs[u] \/ (On(d, u)' /\ pc'[d] = "markVersion")
    BY <1>2, <2>1 DEF Paused, OwnAfter
  <2>8. Stage(u, openDocs[u], sent[d][u])' /\ OnlyLast(u, openDocs[u], sent[d][u])'
    BY <2>5, <2>6 DEF Stage, Queued, Read, Published, OnlyLast
  <2> QED
    BY <2>1, <2>6, <2>7, <2>8 DEF OwnAfter
<1>7. OwnCalm(d, u)'
  BY <1>2, <1>3, <1>4 DEF OwnCalm
<1> QED
  BY <1>1, <1>3, <1>5, <1>6, <1>7 DEF OwnAll, Paused

LEMMA SameVersioned ==
  ASSUME NEW d \in Caller, NEW u \in URI, SameDoc(u), server' = server, past'[u] = past[u],
         marks'[d][u].gen = marks[d][u].gen
  PROVE  OwnVersioned(d, u) => OwnVersioned(d, u)'
BY DEF OwnVersioned, SameDoc

\* the mark of an edit, taken while no other call changes the document
LEMMA OwnMarked ==
  ASSUME TypeOK, TypeOK', NEW d \in Caller, NEW u \in URI, SameDoc(u),
         openDocs'[u] = openDocs[u], Opens, past[u] # "restarted",
         call[d] = NoCall, On(d, u)', pc'[d] = "lookupEdit",
         marks'[d][u] # NoMark, marks'[d][u].gen = diagGen[u], sent'[d][u] \in Text,
         ~Changing(u, d), calm'[d][u] <=> ~UnderWay(u)
  PROVE  OwnAll(d, u)'
<1>1. Streams /\ Streams'
  BY DEF TypeOK
<1>2. \A c \in Caller : ~Opener(c, u)
  BY DEF Opener, Changing, On
<1>3. InOrder(u) /\ (openDocs[u] > 0 => OpenAtEnd(u))
  BY <1>2 DEF Opens, Ordered
<1>4. OwnBefore(d, u)'
  BY <1>1, <1>3, SameDocKeeps DEF OwnBefore
<1>5. OwnAfter(d, u)'
  BY DEF OwnAfter, Editing
<1>6. ~UnderWay(u) => AtMostOne(u)
  BY DEF UnderWay, AtMostOne, Has
<1>7. diagGen'[u] = diagGen[u]
  BY DEF SameDoc
<1>8. OwnCalm(d, u)'
  <2>1. /\ AtMostOne(u) => AtMostOne(u)'
        /\ UnderWay(u)' => UnderWay(u)
    BY <1>1, SameDocKeeps
  <2> QED
    BY <1>6, <1>7, <2>1 DEF OwnCalm
<1>9. OwnVersioned(d, u)'
  BY <1>7 DEF OwnVersioned
<1> QED
  BY <1>4, <1>5, <1>8, <1>9 DEF OwnAll

\* the edit gets its version
LEMMA OwnAssigned ==
  ASSUME TypeOK, TypeOK', NEW d \in Caller, NEW u \in URI, OwnAll(d, u), Versions,
         past[u] # "restarted", past'[u] = past[u],
         SameDoc(u), About(d, u), On(d, u), On(d, u)', pc[d] = "assignEdit", pc'[d] = "sendEdit",
         call'[d].version = call[d].version + 1, call'[d].fresh = call[d].fresh,
         openDocs'[u] = call[d].version + 1
  PROVE  OwnAll(d, u)'
<1>1. Streams /\ Streams' /\ openDocs[u] \in Nat
  BY DEF TypeOK
<1>2. /\ OwnBefore(d, u) /\ OwnCalm(d, u) /\ OwnVersioned(d, u)
      /\ marks' = marks /\ sent' = sent /\ calm' = calm /\ server' = server
  BY DEF OwnAll, About
<1>3. call[d].version = openDocs[u] /\ (call[d].fresh <=> openDocs[u] = 0)
  BY <1>2 DEF OwnBefore
<1>4. PICK v \in Nat : v = openDocs[u] + 1
  BY <1>1
<1>5. openDocs'[u] = v /\ call'[d].version = v
  BY <1>3, <1>4
<1>6. Below(u, v)'
  <2>1. Below(u, v)
    BY <1>4 DEF Versions
  <2> QED
    BY <1>1, <2>1, SameDocKeeps
<1>7. Below(u, openDocs[u])'
  BY <1>5, <1>6 DEF Below
<1>8. OwnBefore(d, u)'
  <2>1. InOrder(u)' /\ (OpenAtEnd(u) => OpenAtEnd(u)')
    BY <1>1, <1>2, SameDocKeeps DEF OwnBefore
  <2>2. openDocs[u] > 0 => OpenAtEnd(u)
    BY <1>2 DEF OwnBefore
  <2>3. OpenAtEnd(u)' \/ call'[d].fresh
    <3>1. openDocs[u] > 0 \/ openDocs[u] = 0
      BY <1>1
    <3> QED
      BY <1>3, <2>1, <2>2, <3>1
  <2> QED
    BY <1>5, <1>7, <2>1, <2>3 DEF OwnBefore
<1>9. OwnAfter(d, u)'
  BY DEF OwnAfter, Editing
<1>10. diagGen'[u] = diagGen[u]
  BY DEF SameDoc
<1>11. OwnCalm(d, u)'
  <2>1. /\ AtMostOne(u) => AtMostOne(u)'
        /\ UnderWay(u)' => UnderWay(u)
    BY <1>1, SameDocKeeps
  <2>2. calm[d][u] => AtMostOne(u) /\ ~UnderWay(u) /\ diagGen[u] = marks[d][u].gen
    BY <1>2 DEF OwnCalm, Editing
  <2> QED
    BY <1>2, <1>10, <2>1, <2>2 DEF OwnCalm
<1>12. OwnVersioned(d, u)'
  BY <1>2, SameVersioned
<1> QED
  BY <1>2, <1>8, <1>9, <1>11, <1>12 DEF OwnAll

\* the edit goes out
LEMMA OwnSent ==
  ASSUME TypeOK, TypeOK', Steps, NEW d \in Caller, NEW u \in URI, OwnAll(d, u),
         NEW m \in Msg, Sent(m, u), m.kind = (IF call[d].fresh THEN "open" ELSE "change"),
         m.version = call[d].version, m.text = call[d].text,
         About(d, u), openDocs' = openDocs, past' = past,
         On(d, u), pc[d] = "sendEdit", pc'[d] = "markVersion", call'[d] = call[d]
  PROVE  OwnAll(d, u)'
<1>1. /\ OwnBefore(d, u) /\ OwnCalm(d, u) /\ OwnVersioned(d, u) /\ sent[d][u] \in Text
      /\ marks' = marks /\ sent' = sent /\ calm' = calm /\ server' = server
      /\ openDocs[u] \in Nat
  BY DEF OwnAll, About, TypeOK
<1>2. PICK v \in Nat : v = openDocs[u]
  BY <1>1
<1>3. PICK t \in Text : t = sent[d][u]
  BY <1>1
<1>4. m.version = v /\ m.text = t /\ v > 0 /\ Below(u, v)
  BY <1>1, <1>2, <1>3 DEF OwnBefore, Steps, On
<1>5. m.kind # "close"
  OBVIOUS
<1>6. Queued(u, v, t)' /\ OnlyLast(u, v, t)'
  BY <1>4, <1>5, SentKeeps
<1>7. InOrder(u)' /\ OpenAtEnd(u)'
  <2>1. CASE m.kind = "open"
    BY <2>1, SentKeeps
  <2>2. CASE ~call[d].fresh
    <3>1. InOrder(u) /\ OpenAtEnd(u)
      BY <1>1, <1>2, <1>4, <2>2 DEF OwnBefore
    <3> QED
      BY <1>5, <3>1, SentKeeps
  <2> QED
    BY <2>1, <2>2
<1>8. openDocs'[u] = v /\ sent'[d][u] = t
  BY <1>1, <1>2, <1>3
<1>9. On(d, u)'
  BY DEF On
<1>10. OwnBefore(d, u)'
  BY <1>7 DEF OwnBefore
<1>11. OwnAfter(d, u)'
  <2>1. Stage(u, openDocs[u], sent[d][u])' /\ OnlyLast(u, openDocs[u], sent[d][u])'
    BY <1>6, <1>8 DEF Stage, Queued, OnlyLast, Published
  <2> QED
    BY <1>4, <1>8, <1>9, <2>1 DEF OwnAfter
<1>12. UNCHANGED <<diagGen, diagVersion>>
  BY SentKeeps
<1>13. OwnCalm(d, u)'
  <2>1. calm[d][u] => ~UnderWay(u) /\ diagGen[u] = marks[d][u].gen
    BY <1>1 DEF OwnCalm, Editing
  <2>2. calm[d][u] => AtMostOne(u)'
    BY <2>1, SentKeeps
  <2>3. ~Editing(d, u)'
    BY DEF Editing
  <2> QED
    BY <1>1, <1>12, <2>1, <2>2, <2>3 DEF OwnCalm
<1>14. OwnVersioned(d, u)'
  BY <1>1, <1>12 DEF OwnVersioned
<1> QED
  BY <1>1, <1>10, <1>11, <1>13, <1>14 DEF OwnAll

LEMMA OtherPaused ==
  ASSUME NEW d \in Caller, NEW u \in URI, OwnAll(d, u),
         call'[d] = call[d], pc'[d] = pc[d], marks'[d][u] = marks[d][u],
         sent'[d][u] = sent[d][u], calm'[d][u] = calm[d][u]
  PROVE  Paused(d, u)
BY DEF Paused, OwnAll, OwnBefore, Editing, On

\* d was at no edit of u and is at none
LEMMA AwayPaused ==
  ASSUME NEW d \in Caller, NEW u \in URI, OwnAll(d, u),
         marks'[d][u] = marks[d][u], sent'[d][u] = sent[d][u], calm'[d][u] = calm[d][u],
         ~On(d, u) \/ pc[d] \in {"lookupReopen", "reopen", "assign", "send", "close"},
         ~On(d, u)' \/ pc'[d] \in {"lookupReopen", "reopen", "assign", "send", "close"}
  PROVE  Paused(d, u)
BY DEF Paused, OwnAll, Editing

LEMMA OwnKept ==
  ASSUME TypeOK, Texts, Steps, Versions, NeverClosed, Opens, Own, Next, TypeOK'
  PROVE  Own'
<1> SUFFICES ASSUME NEW d \in Caller, NEW u \in URI, alone'[d][u], past'[u] # "restarted"
             PROVE  OwnAll(d, u)'
  BY DEF Own
<1>1. /\ Streams /\ Streams'
      /\ alone[d][u] /\ past[u] # "restarted" => OwnAll(d, u)
      /\ alone[d][u] \in BOOLEAN /\ calm[d][u] \in BOOLEAN /\ calm'[d][u] \in BOOLEAN
  BY DEF TypeOK, Own
\* a step that leaves u as it is
<1>2. ASSUME SameDoc(u), openDocs'[u] = openDocs[u], past'[u] = past[u], server' = server,
             alone[d][u], OwnAll(d, u) => Paused(d, u)
      PROVE  OwnAll(d, u)'
  <2>1. OwnAll(d, u) /\ Paused(d, u)
    BY <1>1, <1>2
  <2>2. Kept(u)
    BY <1>1, <1>2, SameDocKept
  <2>3. OwnVersioned(d, u) => OwnVersioned(d, u)'
    BY <1>2, <2>1, SameVersioned DEF Paused
  <2> QED
    BY <1>2, <2>1, <2>2, <2>3, OwnQuiet
<1>3. ASSUME NEW c \in Caller, OnlyCaller(c), alone[d][u], OwnAll(d, u) => Paused(d, u)
      PROVE  OwnAll(d, u)'
  BY <1>2, <1>3, OnlyCallerKeeps
<1>4. ASSUME NEW c \in Caller, EditMark(c) PROVE OwnAll(d, u)'
  <2>1. PICK w \in URI :
          /\ OnlyCaller(c) /\ pc'[c] = "lookupEdit" /\ call[c] = NoCall /\ On(c, w)'
          /\ \A e \in Caller, x \in URI : e # c \/ x # w =>
               /\ marks'[e][x] = marks[e][x] /\ sent'[e][x] = sent[e][x]
               /\ alone'[e][x] = alone[e][x] /\ calm'[e][x] = calm[e][x]
          /\ marks'[c][w] # NoMark /\ marks'[c][w].gen = diagGen[w]
          /\ sent'[c][w] \in Text
          /\ alone'[c][w] <=> ~Changing(w, c)
          /\ calm'[c][w] <=> ~UnderWay(w)
    BY <1>4, MarkDigest
  <2>2. SameDoc(u) /\ openDocs' = openDocs /\ past' = past
    BY <2>1, OnlyCallerKeeps
  <2>3. CASE d = c /\ w = u
    <3>1. ~Changing(u, d) /\ On(d, u)' /\ pc'[d] = "lookupEdit" /\ call[d] = NoCall
      BY <2>1, <2>3
    <3>2. /\ marks'[d][u] # NoMark /\ marks'[d][u].gen = diagGen[u]
          /\ sent'[d][u] \in Text /\ (calm'[d][u] <=> ~UnderWay(u))
      BY <2>1, <2>3
    <3> QED
      BY <2>2, <3>1, <3>2, OwnMarked
  <2>4. CASE d # c
    <3>1. /\ marks'[d][u] = marks[d][u] /\ sent'[d][u] = sent[d][u]
          /\ alone'[d][u] = alone[d][u] /\ calm'[d][u] = calm[d][u]
          /\ call'[d] = call[d] /\ pc'[d] = pc[d]
      BY <2>1, <2>4 DEF OnlyCaller
    <3> QED
      BY <1>3, <2>1, <3>1, OtherPaused
  <2>5. CASE d = c /\ w # u
    <3>1. /\ marks'[d][u] = marks[d][u] /\ sent'[d][u] = sent[d][u]
          /\ alone'[d][u] = alone[d][u] /\ calm'[d][u] = calm[d][u]
          /\ ~On(d, u) /\ ~On(d, u)'
      BY <2>1, <2>5 DEF On
    <3> QED
      BY <1>3, <2>1, <3>1, AwayPaused
  <2> QED
    BY <2>3, <2>4, <2>5
\* the other steps that leave the documents as they are
<1>5. ASSUME NEW c \in Caller, OnlyCaller(c), UNCHANGED markVars, d # c PROVE OwnAll(d, u)'
  <2>1. /\ marks' = marks /\ sent' = sent /\ alone' = alone /\ calm' = calm
        /\ call'[d] = call[d] /\ pc'[d] = pc[d]
    BY <1>5 DEF OnlyCaller, markVars
  <2> QED
    BY <1>3, <1>5, <2>1, OtherPaused
<1>6. ASSUME NEW c \in Caller, CallOpen(c) \/ CallReopen(c) PROVE OwnAll(d, u)'
  <2>1. /\ OnlyCaller(c) /\ pc'[c] \in {"assign", "reopen"} /\ call[c] = NoCall
        /\ UNCHANGED markVars
    BY <1>6, CallDigest
  <2>2. CASE d = c
    <3>1. /\ marks' = marks /\ sent' = sent /\ alone' = alone /\ calm' = calm
          /\ ~On(d, u) /\ pc'[d] \in {"assign", "reopen"}
      BY <2>1, <2>2 DEF On, markVars
    <3> QED
      BY <1>3, <2>1, <3>1, AwayPaused
  <2> QED
    BY <1>5, <2>1, <2>2
<1>7. ASSUME NEW c \in Caller, CallEvaluate(c) \/ WaitPoll(c) \/ EvaluateRead(c)
      PROVE  OwnAll(d, u)'
  <2>1. OnlyCaller(c) /\ UNCHANGED <<markVars, call>> /\ call[c] = NoCall
    BY <1>7, WaitDigest
  <2>2. CASE d = c
    <3>1. /\ marks' = marks /\ sent' = sent /\ alone' = alone /\ calm' = calm
          /\ ~On(d, u) /\ ~On(d, u)'
      BY <2>1, <2>2 DEF On, markVars
    <3> QED
      BY <1>3, <2>1, <3>1, AwayPaused
  <2> QED
    BY <1>5, <2>1, <2>2
<1>8. ASSUME NEW c \in Caller, OpenLookup(c) \/ ReopenLookup(c) PROVE OwnAll(d, u)'
  <2>0. PICK w \in URI : w = call[c].uri
    BY <1>8, LookupDigest
  <2>1. /\ OnlyCaller(c) /\ call[c] # NoCall /\ call'[c] # NoCall /\ call'[c].uri = w
        /\ \/ pc[c] = "lookupEdit" /\ pc'[c] = "assignEdit"
           \/ /\ pc[c] = "lookupReopen"
              /\ pc'[c] \in {"reopen", "assign"}
        /\ call'[c].version = openDocs[w]
        /\ call'[c].fresh <=> openDocs[w] = 0
        /\ UNCHANGED markVars
    BY <1>8, <2>0, LookupDigest DEF On
  <2>2. CASE d = c
    <3>1. /\ marks' = marks /\ sent' = sent /\ alone' = alone /\ calm' = calm
      BY <2>1 DEF markVars
    <3>2. (On(d, u) <=> w = u) /\ (On(d, u)' <=> w = u)
      BY <2>0, <2>1, <2>2 DEF On
    <3>3. CASE w = u /\ pc[c] = "lookupEdit"
      <4>1. Editing(d, u) /\ Editing(d, u)' /\ pc[d] = "lookupEdit" /\ pc'[d] = "assignEdit"
        BY <2>1, <2>2, <3>2, <3>3 DEF Editing
      <4>2. call'[d].version = openDocs[u] /\ (call'[d].fresh <=> openDocs[u] = 0)
        BY <2>1, <2>2, <3>3
      <4>3. OwnAll(d, u) => Paused(d, u)
        BY <3>1, <4>1, <4>2 DEF Paused, OwnAll
      <4> QED
        BY <1>3, <2>1, <3>1, <4>3
    <3>4. CASE w # u \/ pc[c] = "lookupReopen"
      <4>1. OwnAll(d, u) => Paused(d, u)
        BY <2>1, <2>2, <3>1, <3>2, <3>4, AwayPaused
      <4> QED
        BY <1>3, <2>1, <3>1, <4>1
    <3> QED
      BY <2>1, <3>3, <3>4
  <2> QED
    BY <1>5, <2>1, <2>2
<1>9. ASSUME NEW c \in Caller, EditVersion(c) PROVE OwnAll(d, u)'
  <2>0. PICK w \in URI : w = call[c].uri
    BY <1>9, VersionDigest
  <2>1. /\ OnlyCaller(c) /\ call[c] # NoCall /\ call'[c] = NoCall
        /\ pc[c] = "markVersion"
        /\ \A e \in Caller, x \in URI : marks'[e][x] # NoMark <=> marks[e][x] # NoMark
        /\ \A e \in Caller, x \in URI : marks[e][x] # NoMark =>
             marks'[e][x].gen = marks[e][x].gen
        /\ \A e \in Caller, x \in URI : e # c \/ x # w => marks'[e][x] = marks[e][x]
        /\ openDocs[w] > 0 => marks'[c][w].version = openDocs[w]
        /\ UNCHANGED <<sent, alone, calm>>
    BY <1>9, <2>0, VersionDigest DEF On
  <2>2. CASE d = c
    <3>1. ~On(d, u)' /\ ~Editing(d, u) /\ ~Editing(d, u)'
      BY <2>1, <2>2 DEF On, Editing
    <3>2. On(d, u) => w = u
      BY <2>0, <2>2 DEF On
    <3>3. ASSUME OwnAll(d, u) PROVE Paused(d, u)
      <4>1. marks'[d][u] # NoMark /\ marks'[d][u].gen = marks[d][u].gen
        BY <2>1, <3>3 DEF OwnAll
      <4>2. ~(On(d, u) /\ pc[d] = "sendEdit")
        BY <2>1, <2>2
      <4>3. ASSUME openDocs[u] > 0, marks[d][u].version = openDocs[u] \/ On(d, u)
            PROVE  marks'[d][u].version = openDocs[u]
        BY <2>1, <2>2, <3>2, <4>3
      <4> QED
        BY <2>1, <3>1, <4>1, <4>2, <4>3 DEF Paused
    <3> QED
      BY <1>3, <2>1, <3>3
  <2>3. CASE d # c
    <3>1. /\ marks'[d][u] = marks[d][u] /\ sent'[d][u] = sent[d][u]
          /\ alone'[d][u] = alone[d][u] /\ calm'[d][u] = calm[d][u]
          /\ call'[d] = call[d] /\ pc'[d] = pc[d]
      BY <2>1, <2>3 DEF OnlyCaller
    <3> QED
      BY <1>3, <2>1, <3>1, OtherPaused
  <2> QED
    BY <2>2, <2>3
\* steps about another document
<1>10. ASSUME NEW c \in Caller, NEW w \in URI, About(c, w), w # u PROVE OwnAll(d, u)'
  <2>1. /\ SameDoc(u) /\ openDocs'[u] = openDocs[u] /\ past'[u] = past[u] /\ server' = server
        /\ alone[d][u] /\ marks' = marks /\ sent' = sent /\ calm' = calm
        /\ ~On(c, u) /\ ~On(c, u)'
        /\ d # c => call'[d] = call[d] /\ pc'[d] = pc[d]
    BY <1>10 DEF About
  <2>2. OwnAll(d, u) => Paused(d, u)
    <3>1. CASE d = c
      BY <2>1, <3>1, AwayPaused
    <3>2. CASE d # c
      BY <2>1, <3>2, OtherPaused
    <3> QED
      BY <3>1, <3>2
  <2> QED
    BY <1>2, <2>1, <2>2
<1>11. ASSUME NEW c \in Caller, OpenAssign(c) PROVE OwnAll(d, u)'
  <2>0. PICK w \in URI : w = call[c].uri
    BY <1>11, AssignDigest
  <2>1. /\ About(c, w) /\ SameDoc(w) /\ On(c, w)
        /\ call'[c] # NoCall /\ call'[c].uri = w
        /\ pc'[c] = IF pc[c] = "assignEdit" THEN "sendEdit" ELSE "send"
        /\ call'[c].version = call[c].version + 1 /\ call'[c].fresh = call[c].fresh
        /\ openDocs'[w] = call[c].version + 1
        /\ past'[w] = IF call[c].version + 1 < openDocs[w] THEN "restarted" ELSE past[w]
        /\ \A e \in Caller : alone'[e][w] => alone[e][w] /\ e = c /\ pc[c] = "assignEdit"
    BY <1>11, <2>0, AssignDigest
  <2>2. CASE w = u
    <3>1. d = c /\ alone[d][u] /\ pc[d] = "assignEdit" /\ pc'[d] = "sendEdit"
      BY <2>1, <2>2
    <3>2. past'[u] = past[u] /\ On(d, u) /\ On(d, u)'
      BY <2>1, <2>2, <3>1 DEF On
    <3>3. OwnAll(d, u)
      BY <1>1, <3>1, <3>2
    <3>4. /\ SameDoc(u) /\ About(d, u) /\ past[u] # "restarted"
          /\ call'[d].version = call[d].version + 1 /\ call'[d].fresh = call[d].fresh
          /\ openDocs'[u] = call[d].version + 1
      BY <2>1, <2>2, <3>1, <3>2
    <3> QED
      BY <3>1, <3>2, <3>3, <3>4, OwnAssigned
  <2> QED
    BY <1>10, <2>1, <2>2
<1>12. ASSUME NEW c \in Caller, OpenSend(c) PROVE OwnAll(d, u)'
  <2>0. PICK w \in URI : w = call[c].uri
    BY <1>12, SendDigest
  <2>1. /\ About(c, w) /\ On(c, w)
        /\ pc[c] = "sendEdit" => pc'[c] = "markVersion" /\ call'[c] = call[c]
        /\ \E m \in Msg :
             /\ m.kind = (IF call[c].fresh THEN "open" ELSE "change")
             /\ m.version = call[c].version /\ m.text = call[c].text
             /\ Sent(m, w)
        /\ openDocs' = openDocs /\ past' = past
        /\ \A e \in Caller : alone'[e][w] => alone[e][w] /\ e = c /\ pc[c] = "sendEdit"
    BY <1>12, <2>0, SendDigest
  <2>2. CASE w = u
    <3>1. d = c /\ alone[d][u] /\ pc[d] = "sendEdit" /\ pc'[d] = "markVersion" /\ call'[d] = call[d]
      BY <2>1, <2>2
    <3>2. PICK m \in Msg :
             /\ m.kind = (IF call[d].fresh THEN "open" ELSE "change")
             /\ m.version = call[d].version /\ m.text = call[d].text
             /\ Sent(m, u)
      BY <2>1, <2>2, <3>1
    <3>3. OwnAll(d, u) /\ On(d, u) /\ About(d, u)
      BY <1>1, <2>1, <2>2, <3>1
    <3> QED
      BY <2>1, <3>1, <3>2, <3>3, OwnSent
  <2> QED
    BY <1>10, <2>1, <2>2
<1>13. ASSUME NEW c \in Caller, CloseDocument(c) \/ CloseSend(c) PROVE OwnAll(d, u)'
  BY <1>10, <1>13, CloseDigest
<1>14. ASSUME NEW c \in Caller, ReopenClose(c) PROVE OwnAll(d, u)'
  <2>0. PICK w \in URI : w = call[c].uri
    BY <1>14, ReopenDigest
  <2>1. About(c, w) /\ \A e \in Caller : ~alone'[e][w]
    BY <1>14, <2>0, ReopenDigest
  <2> QED
    BY <1>10, <2>1
<1>15. ASSUME NEW c \in Caller, ResetDiagnostics(c) PROVE OwnAll(d, u)'
  <2>1. PICK w \in URI : About(c, w) /\ \A e \in Caller : ~alone'[e][w]
    BY <1>15, ResetDigest
  <2> QED
    BY <1>10, <2>1
<1>16. ASSUME Deliver \/ ServerReads \/ \E w \in URI : ServerAnalyses(w) \/ ServerPublishes(w)
       PROVE  OwnAll(d, u)'
  <2>1. Kept(u) /\ UNCHANGED <<server, openDocs, pc, call, markVars, past>>
    BY <1>16, WorldKept
  <2>2. OwnAll(d, u) /\ Paused(d, u)
    BY <1>1, <2>1, OtherPaused DEF markVars
  <2>3. OwnVersioned(d, u) => OwnVersioned(d, u)'
    <3>1. CASE UNCHANGED <<diagGen, diagVersion>>
      BY <2>1, <3>1 DEF OwnVersioned, markVars
    <3>2. CASE Deliver
      <4> DEFINE p == Head(toClient)
      <4>1. /\ toClient \in Seq(Publication) /\ toClient # <<>>
            /\ diagGen' = [diagGen EXCEPT ![p.uri] = diagGen[p.uri] + 1]
            /\ diagVersion' = [diagVersion EXCEPT ![p.uri] = p.version]
            /\ diagGen \in [URI -> Nat] /\ diagVersion \in [URI -> Nat]
        BY <3>2 DEF Deliver, TypeOK
      <4>2. p = toClient[1] /\ 1 \in DOMAIN toClient
        BY <4>1
      <4>3. CASE p.uri = u
        <5>1. server.versioned /\ past[u] = "never" => p.version > 0
          BY <4>2, <4>3 DEF NeverClosed
        <5>2. diagVersion'[u] = p.version
          BY <4>1, <4>3
        <5> QED
          BY <2>1, <5>1, <5>2 DEF OwnVersioned
      <4>4. CASE p.uri # u
        <5>1. diagVersion'[u] = diagVersion[u] /\ diagGen'[u] = diagGen[u]
          BY <4>1, <4>4
        <5> QED
          BY <2>1, <5>1 DEF OwnVersioned, markVars
      <4> QED
        BY <4>3, <4>4
    <3> QED
      BY <1>16, <3>1, <3>2 DEF ServerReads, ServerAnalyses, ServerPublishes, clientVars
  <2> QED
    BY <2>1, <2>2, <2>3, OwnQuiet
<1> QED
  BY <1>4, <1>6, <1>7, <1>8, <1>9, <1>11, <1>12, <1>13, <1>14, <1>15, <1>16 DEF Next

(***************************************************************************)
(* Settled waits                                                           *)
(***************************************************************************)

LEMMA NothingUnderWay ==
  ASSUME NEW u \in URI, NEW v \in Nat, NEW t \in Text, Stage(u, v, t), ~UnderWay(u)
  PROVE  Published(u, t) /\ ~Has(toClient, u)
<1>1. ~Has(toServer, u) /\ ~Has(toClient, u) /\ u \notin stale /\ analysing[u] = NoDoc
  BY DEF UnderWay, Has
<1>2. ~Queued(u, v, t)
  BY <1>1 DEF Queued, LastOn, Has
<1>3. ~Read(u, v, t)
  <2>1. [version |-> v, text |-> t] \in Doc
    BY DEF Doc
  <2> QED
    BY <1>1, <2>1, NoneAssumption DEF Read
<1> QED
  BY <1>1, <1>2, <1>3 DEF Stage

\* a wait that settles has seen the publication of the edit, or knows there is none
LEMMA PollSettles ==
  ASSUME TypeOK, Steps, Own, NEW c \in Caller, WaitPoll(c), pc'[c] = "settled",
         NEW u \in Marked(c), OwnEdit(c, u), Identified(c, u)
  PROVE  Published(u, sent[c][u]) /\ ~Has(toClient, u)
<1>1. u \in URI /\ marks[c][u] # NoMark
  BY DEF Marked
<1>2. OwnAll(c, u)
  BY <1>1 DEF Own, OwnEdit, Identified
<1>3. pc[c] = "waiting" /\ call[c] = NoCall
  BY DEF WaitPoll, Steps
<1>4. ~On(c, u) /\ ~Editing(c, u)
  BY <1>3 DEF On, Editing
<1>5. PICK v \in Nat : v = openDocs[u]
  BY <1>1 DEF TypeOK
<1>6. PICK t \in Text : t = sent[c][u]
  BY <1>2 DEF OwnAll
<1>7. v > 0 /\ Stage(u, v, t) /\ OnlyLast(u, v, t) /\ marks[c][u].version = v
  BY <1>2, <1>4, <1>5, <1>6 DEF OwnAll, OwnAfter
<1>8. ~UnderWay(u) => Published(u, t) /\ ~Has(toClient, u)
  BY <1>1, <1>7, NothingUnderWay
<1>9. CASE Coverage(u, marks[c][u]) = "covered"
  <2>1. diagVersion[u] \in Nat
    BY <1>1 DEF TypeOK
  <2>2. CASE diagVersion[u] >= v
    BY <1>6, <1>7, <2>2 DEF OnlyLast
  <2>3. CASE diagVersion[u] < v
    <3>1. diagGen[u] # marks[c][u].gen /\ ~(diagVersion[u] > 0)
      <4>1. ~(diagVersion[u] >= v)
        BY <2>1, <2>3
      <4> QED
        BY <1>7, <1>9, <2>3, <4>1 DEF Coverage
    <3>2. calm[c][u]
      BY <1>2, <3>1 DEF OwnAll, OwnVersioned, Identified
    <3>3. ~UnderWay(u)
      BY <1>2, <3>1, <3>2 DEF OwnAll, OwnCalm
    <3> QED
      BY <1>6, <1>8, <3>3
  <2> QED
    BY <2>1, <2>2, <2>3
<1>10. CASE (server.timely => Drained) /\ ~server.republishes
  <2>1. Drained
    BY <1>10 DEF OwnEdit
  <2>2. ~UnderWay(u)
    BY <1>1, <2>1 DEF Drained, UnderWay
  <2> QED
    BY <1>6, <1>8, <2>2
<1>11. \/ \A x \in Marked(c) : Coverage(x, marks[c][x]) = "covered"
       \/ (server.timely => Drained) /\ ~server.republishes
  <2> DEFINE cover == {Coverage(x, marks[c][x]) : x \in Marked(c)}
  <2>1. \/ cover = {"covered"}
        \/ /\ server.timely => Drained
           /\ \E quiet \in BOOLEAN :
                pc' = [pc EXCEPT ![c] =
                  IF quiet /\ "stale" \notin cover /\ ~server.republishes
                  THEN "settled" ELSE "unsettled"]
    BY DEF WaitPoll
  <2>2. CASE cover = {"covered"}
    BY <2>2
  <2>3. ASSUME NEW quiet \in BOOLEAN,
               pc' = [pc EXCEPT ![c] =
                 IF quiet /\ "stale" \notin cover /\ ~server.republishes
                 THEN "settled" ELSE "unsettled"]
        PROVE  ~server.republishes
    <3> HIDE DEF cover
    <3> QED
      BY <2>3 DEF TypeOK
  <2> QED
    BY <2>1, <2>2, <2>3
<1> QED
  BY <1>9, <1>10, <1>11

LEMMA SettledKept ==
  ASSUME TypeOK, Texts, Steps, Own, Settled, Next, TypeOK'
  PROVE  Settled'
<1> SUFFICES ASSUME NEW d \in Caller, NEW u \in URI, pc'[d] = "settled",
                    marks'[d][u] # NoMark, OwnEdit(d, u)', Identified(d, u)'
             PROVE  Published(u, sent[d][u])' /\ ~Has(toClient', u)
  BY DEF Settled, Marked
<1> DEFINE Goal == Published(u, sent[d][u])' /\ ~Has(toClient', u)
<1>1. /\ Streams /\ Streams'
      /\ alone'[d][u]
      /\ alone[d][u] \in BOOLEAN /\ calm[d][u] \in BOOLEAN /\ calm'[d][u] \in BOOLEAN
  BY DEF TypeOK, OwnEdit
<1>2. ASSUME pc[d] = "settled", marks'[d][u] = marks[d][u], alone'[d][u] = alone[d][u],
             calm'[d][u] = calm[d][u], past'[u] = past[u], server' = server
      PROVE  Published(u, sent[d][u]) /\ ~Has(toClient, u) /\ sent[d][u] \in Text
  <2>1. OwnEdit(d, u) /\ Identified(d, u) /\ marks[d][u] # NoMark
    BY <1>2 DEF OwnEdit, Identified
  <2>2. sent[d][u] \in Text
    BY <2>1 DEF Own, OwnAll, OwnEdit, Identified
  <2> QED
    BY <1>2, <2>1, <2>2 DEF Settled, Marked
\* a step that leaves u as it is
<1>3. ASSUME SameDoc(u), pc[d] = "settled", marks'[d][u] = marks[d][u],
             sent'[d][u] = sent[d][u], alone'[d][u] = alone[d][u],
             calm'[d][u] = calm[d][u], past'[u] = past[u], server' = server
      PROVE  Goal
  <2>1. PICK t \in Text : t = sent[d][u] /\ Published(u, t) /\ ~Has(toClient, u)
    BY <1>2, <1>3
  <2>2. Published(u, t)' /\ ~Has(toClient', u)
    BY <1>1, <1>3, <2>1, SameDocKeeps
  <2>3. sent'[d][u] = t
    BY <1>3, <2>1
  <2> QED
    BY <2>2, <2>3 DEF Published
<1>4. ASSUME NEW c \in Caller, c # d, OnlyCaller(c), marks'[d][u] = marks[d][u],
             sent'[d][u] = sent[d][u], alone'[d][u] = alone[d][u], calm'[d][u] = calm[d][u]
      PROVE  Goal
  <2>1. SameDoc(u) /\ past' = past /\ server' = server
    BY <1>4, OnlyCallerKeeps
  <2>2. pc[d] = "settled"
    BY <1>4 DEF OnlyCaller
  <2> QED
    BY <1>3, <1>4, <2>1, <2>2
<1>5. ASSUME NEW c \in Caller, EditMark(c) PROVE Goal
  <2>1. PICK w \in URI :
          /\ OnlyCaller(c) /\ pc'[c] = "lookupEdit"
          /\ \A e \in Caller, x \in URI : e # c \/ x # w =>
               /\ marks'[e][x] = marks[e][x] /\ sent'[e][x] = sent[e][x]
               /\ alone'[e][x] = alone[e][x] /\ calm'[e][x] = calm[e][x]
    BY <1>5, MarkDigest
  <2>2. c # d
    BY <2>1
  <2> QED
    BY <1>4, <2>1, <2>2
<1>6. ASSUME NEW c \in Caller,
             CallOpen(c) \/ CallReopen(c) \/ OpenLookup(c) \/ ReopenLookup(c)
      PROVE  Goal
  <2>1. /\ OnlyCaller(c) /\ UNCHANGED markVars
        /\ pc'[c] \in {"assign", "reopen", "assignEdit"}
    BY <1>6, CallDigest, LookupDigest
  <2>2. /\ c # d /\ marks' = marks /\ sent' = sent /\ alone' = alone /\ calm' = calm
    BY <2>1 DEF markVars
  <2> QED
    BY <1>4, <2>1, <2>2
<1>7. ASSUME NEW c \in Caller, EditVersion(c) PROVE Goal
  <2>0. PICK w \in URI : w = call[c].uri
    BY <1>7, VersionDigest
  <2>1. /\ OnlyCaller(c) /\ pc'[c] = "idle"
        /\ \A e \in Caller, x \in URI : e # c \/ x # w => marks'[e][x] = marks[e][x]
        /\ UNCHANGED <<sent, alone, calm>>
    BY <1>7, <2>0, VersionDigest
  <2>2. c # d
    BY <2>1
  <2> QED
    BY <1>4, <2>1, <2>2
<1>8. ASSUME NEW c \in Caller, CallEvaluate(c) \/ WaitPoll(c) \/ EvaluateRead(c) PROVE Goal
  <2>1. /\ OnlyCaller(c) /\ marks' = marks /\ sent' = sent /\ alone' = alone /\ calm' = calm
        /\ pc'[c] = "settled" => WaitPoll(c)
    BY <1>8, WaitDigest DEF markVars
  <2>2. CASE c # d
    BY <1>4, <2>1, <2>2
  <2>3. CASE c = d
    <3>1. WaitPoll(d) /\ pc'[d] = "settled"
      BY <2>1, <2>3
    <3>2. past' = past /\ server' = server
      BY <2>1, OnlyCallerKeeps
    <3>3. OwnEdit(d, u) /\ Identified(d, u) /\ u \in Marked(d)
      BY <2>1, <3>2 DEF OwnEdit, Identified, Marked
    <3>4. Published(u, sent[d][u]) /\ ~Has(toClient, u)
      BY <3>1, <3>3, PollSettles
    <3>5. UNCHANGED <<toServer, toClient, stale, analysing, lastPub, sent>>
      BY <2>1 DEF OnlyCaller, World, serverVars
    <3> QED
      BY <3>4, <3>5 DEF Published, Has
  <2> QED
    BY <2>2, <2>3
\* the steps of a call on its document
<1>9. ASSUME NEW c \in Caller, NEW w \in URI, About(c, w), pc'[c] # "settled", ~alone'[d][w]
      PROVE  Goal
  <2>1. w # u /\ c # d
    BY <1>1, <1>9
  <2>2. /\ SameDoc(u) /\ past'[u] = past[u] /\ server' = server
        /\ alone'[d][u] = alone[d][u] /\ marks' = marks /\ sent' = sent /\ calm' = calm
        /\ pc'[d] = pc[d]
    BY <1>9, <2>1 DEF About
  <2> QED
    BY <1>3, <2>2
<1>10. ASSUME NEW c \in Caller, OpenAssign(c) \/ OpenSend(c) PROVE Goal
  <2>0. PICK w \in URI : w = call[c].uri
    BY <1>10, AssignDigest, SendDigest
  <2>1. /\ About(c, w) /\ pc'[c] # "settled"
        /\ \A e \in Caller : alone'[e][w] => e = c
    BY <1>10, <2>0, AssignDigest, SendDigest
  <2> QED
    BY <1>9, <2>1
<1>11. ASSUME NEW c \in Caller, CloseDocument(c) \/ CloseSend(c) PROVE Goal
  <2>1. PICK w \in URI :
          About(c, w) /\ past'[w] = "restarted" /\ pc'[c] \in {"close", "idle"}
    BY <1>11, CloseDigest
  <2>2. w # u /\ c # d
    BY <2>1 DEF Identified
  <2>3. /\ SameDoc(u) /\ past'[u] = past[u] /\ server' = server
        /\ alone'[d][u] = alone[d][u] /\ marks' = marks /\ sent' = sent /\ calm' = calm
        /\ pc'[d] = pc[d]
    BY <2>1, <2>2 DEF About
  <2> QED
    BY <1>3, <2>3
<1>12. ASSUME NEW c \in Caller, ReopenClose(c) PROVE Goal
  <2>0. PICK w \in URI : w = call[c].uri
    BY <1>12, ReopenDigest
  <2>1. /\ About(c, w) /\ pc'[c] # "settled" /\ \A e \in Caller : ~alone'[e][w]
    BY <1>12, <2>0, ReopenDigest
  <2> QED
    BY <1>9, <2>1
<1>13. ASSUME NEW c \in Caller, ResetDiagnostics(c) PROVE Goal
  <2>1. PICK w \in URI :
          About(c, w) /\ pc'[c] = "lookupReopen" /\ \A e \in Caller : ~alone'[e][w]
    BY <1>13, ResetDigest
  <2> QED
    BY <1>9, <2>1
<1>14. ASSUME Deliver \/ ServerReads \/ \E w \in URI : ServerAnalyses(w) \/ ServerPublishes(w)
       PROVE  Goal
  <2>1. Kept(u) /\ UNCHANGED <<server, pc, markVars, past>>
    BY <1>14, WorldKept
  <2>2. marks' = marks /\ sent' = sent /\ alone' = alone /\ calm' = calm
    BY <2>1 DEF markVars
  <2>3. PICK t \in Text : t = sent[d][u] /\ Published(u, t) /\ ~Has(toClient, u)
    BY <1>2, <2>1, <2>2
  <2>4. Published(u, t)' /\ ~Has(toClient', u)
    BY <2>1, <2>3 DEF Kept
  <2> QED
    BY <2>2, <2>3, <2>4 DEF Published
<1> QED
  BY <1>5, <1>6, <1>7, <1>8, <1>10, <1>11, <1>12, <1>13, <1>14 DEF Next

(***************************************************************************)
(* The theorems                                                            *)
(***************************************************************************)

LEMMA DiagInit ==
  Init => DiagInv
<1> SUFFICES ASSUME Init PROVE DiagInv
  OBVIOUS
<1>1. TypeOK
  <2>1. toServer \in Seq(Msg) /\ toClient \in Seq(Publication)
    BY DEF Init
  <2> QED
    BY <2>1, TextAssumption, KindAssumption, BoundAssumption DEF Init, TypeOK, PCs
<1>2. DOMAIN toServer = {} /\ DOMAIN toClient = {}
  BY DEF Init
<1>3. Texts
  BY <1>2 DEF Init, Texts
<1>4. Steps
  BY DEF Init, Steps
<1>5. Versions
  BY <1>2 DEF Init, Versions, Below, On
<1>6. NeverClosed
  BY <1>2 DEF NeverClosed
<1>7. \A u \in URI : InOrder(u)
  BY <1>2 DEF Init, InOrder, Closing, Remembered
<1>8. Opens
  BY <1>7 DEF Init, Opens, Ordered
<1>9. Own /\ Settled
  BY DEF Init, Own, Settled
<1> QED
  BY <1>1, <1>3, <1>4, <1>5, <1>6, <1>8, <1>9 DEF DiagInv

LEMMA DiagStutter ==
  ASSUME DiagInv, UNCHANGED vars
  PROVE  DiagInv'
<1> USE DEF DiagInv, vars, serverVars, clientVars, markVars
<1>1. TypeOK' /\ Texts' /\ Steps'
  BY DEF TypeOK, Texts, Steps
<1>2. Versions' /\ NeverClosed'
  BY DEF Versions, CallVersion, Below, On, NeverClosed, Is
<1>3. Opens'
  BY DEF Opens, Opener, On, Ordered, InOrder, Closing, Remembered, OpenAtEnd, Shows, Is, Has, LastOn
<1>4. Own'
  <2>1. \A d \in Caller, u \in URI : OwnBefore(d, u)' <=> OwnBefore(d, u)
    BY DEF OwnBefore, On, InOrder, Closing, Remembered, OpenAtEnd, Shows, Is, Has, LastOn, Below
  <2>2. \A d \in Caller, u \in URI : OwnAfter(d, u)' <=> OwnAfter(d, u)
    BY DEF OwnAfter, Editing, On, Stage, Queued, Read, Published, OnlyLast, Has, LastOn
  <2>3. \A d \in Caller, u \in URI : OwnCalm(d, u)' <=> OwnCalm(d, u)
    BY DEF OwnCalm, AtMostOne, UnderWay, Editing, On, Has
  <2>4. \A d \in Caller, u \in URI : OwnVersioned(d, u)' <=> OwnVersioned(d, u)
    BY DEF OwnVersioned
  <2> QED
    BY <2>1, <2>2, <2>3, <2>4 DEF Own, OwnAll
<1>5. Settled'
  BY DEF Settled, Marked, OwnEdit, Identified, Published, Has
<1> QED
  BY <1>1, <1>2, <1>3, <1>4, <1>5

LEMMA DiagInductive ==
  Spec => []DiagInv
<1>1. DiagInv /\ [Next]_vars => DiagInv'
  <2> SUFFICES ASSUME DiagInv, [Next]_vars PROVE DiagInv'
    OBVIOUS
  <2>1. CASE Next
    <3>1. /\ TypeOK /\ Texts /\ Steps /\ Versions /\ NeverClosed /\ Opens /\ Own /\ Settled
      BY DEF DiagInv
    <3>2. TypeOK' /\ Texts' /\ Steps'
      BY <2>1, <3>1, WorldTypesKept, CallsKept, TwoTypes
    <3>3. Versions' /\ NeverClosed' /\ Opens'
      BY <2>1, <3>1, <3>2, VersionsKept, NeverClosedKept, OpensKept
    <3>4. Own' /\ Settled'
      BY <2>1, <3>1, <3>2, OwnKept, SettledKept
    <3> QED
      BY <3>2, <3>3, <3>4 DEF DiagInv
  <2>2. CASE UNCHANGED vars
    BY <2>2, DiagStutter
  <2> QED
    BY <2>1, <2>2
<1> QED
  BY <1>1, DiagInit, PTL DEF Spec

\* The client's document table, the queues between client and server, the server's
\* copies, the cache and the marks keep their types through every interleaving of
\* calls, publications and analyses.
THEOREM DiagnosticsTypeCorrect ==
  Spec => []TypeOK
<1>1. DiagInv => TypeOK
  BY DEF DiagInv
<1> QED
  BY <1>1, DiagInductive, PTL

\* A wait that reports settled leaves the diagnostics of the session's own edit in
\* the cache, whatever other callers, closes and late publications do, while no
\* other call has changed the document since (SettledIsCurrent): for every number
\* of callers, documents and notifications, and for every kind of server.
THEOREM SettledStaysCurrent ==
  Spec => []SettledIsCurrent
<1>1. DiagInv => SettledIsCurrent
  <2> SUFFICES ASSUME DiagInv, NEW c \in Caller, pc[c] = "settled", NEW u \in Marked(c),
                      OwnEdit(c, u), Identified(c, u)
               PROVE  diags[u] = sent[c][u]
    BY DEF SettledIsCurrent
  <2>1. u \in URI
    BY DEF Marked
  <2>2. Published(u, sent[c][u]) /\ ~Has(toClient, u)
    BY <2>1 DEF DiagInv, Settled
  <2>3. OwnBefore(c, u) /\ sent[c][u] \in Text
    BY <2>1 DEF DiagInv, Own, OwnAll, OwnEdit, Identified
  <2>4. lastPub[u] = sent[c][u] /\ lastPub[u] # NoText
    BY <2>2, <2>3, TextAssumption DEF Published
  <2>5. \A i \in DOMAIN toServer : ~Is(i, u, "open")
    BY <2>2 DEF Published, Has, Is
  <2>6. Shows(u, lastPub[u])
    BY <2>3, <2>4, <2>5 DEF OwnBefore, InOrder, Remembered
  <2>7. \A i \in DOMAIN toClient : ~LastOn(toClient, u, i)
    BY <2>2 DEF Has, LastOn
  <2> QED
    BY <2>4, <2>6, <2>7 DEF Shows
<1> QED
  BY <1>1, DiagInductive, PTL
=============================================================================
