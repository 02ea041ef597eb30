-------------------------- MODULE ReferencesProofs --------------------------
(***************************************************************************)
(* Proofs about References and the channels of Notify, for any number of    *)
(* files, queries, watchers, events and restarts: a hit of the cache is of  *)
(* the contents the query hashed, a quiet watcher leaves no old row, and no *)
(* change on its way to the client is lost.                                 *)
(*                                                                         *)
(* RefInv is inductive.  Its parts: the types; that a clean row pairs an    *)
(* answer with its own hash (RowsMatch), and what a query holds until it    *)
(* stores one (Queries); where the one listening goroutine is (Listeners);  *)
(* who still has a change that was not sent (Untold), and that whoever has  *)
(* one will flush it (Flushed, StopsFlush).                                 *)
(***************************************************************************)
EXTENDS References, FiniteSetTheorems, TLAPS

QueryPCs == {"idle", "lookup", "hit", "ask", "asked", "hash", "store"}
Steps == {"loop", "server", "hub", "record", "cache"}

QueryRecord == [pc : QueryPCs, file : File \cup {NoRow}, hash : Text \cup {NoRow},
                answer : Text \cup Row \cup {NoRow}, touched : BOOLEAN]
WatcherRecord == [state : {"none", "run", "stop"}, events : SUBSET File, pending : SUBSET File,
                  timer : BOOLEAN, batch : SUBSET File, step : Steps]

CacheTypes ==
  /\ disk \in [File -> Text] /\ view \in [File -> Text]
  /\ row \in [File -> Row \cup {NoRow}] /\ artifact \in [File -> Row \cup {NoRow}]
  /\ db \in {"open", "closed", "nil"} /\ current \in Watcher \cup {0} /\ missed \subseteq File
  /\ query \in [Query -> QueryRecord] /\ watcher \in [Watcher -> WatcherRecord]

NotifyTypes ==
  /\ pending \in [Channel -> SUBSET Item]
  /\ timer \subseteq Channel /\ firing \subseteq Channel /\ subscribed \subseteq Channel
  /\ flight \subseteq [channel : Channel, items : SUBSET Item]
  /\ calls \subseteq [channel : Channel, item : Item]
  /\ closing \in Seq(Channel \X {"unsubscribe", "timer", "flush"})
  /\ untold \subseteq {"diagnostics", "stale"} \X File

Matches(r) == r # NoRow /\ r.clean => r.own = r.hash
RowsMatch == \A f \in File : Matches(row[f]) /\ Matches(artifact[f])

\* What a query holds, of the server's contents v and those on disk d: unless its
\* file was written meanwhile, the answer and the hash it is about to store are of
\* what is on disk.
QueryOf(r, v, d) ==
  /\ r.pc # "idle" => r.file \in File
  /\ r.pc = "lookup" => r.hash \in Text
  /\ r.pc = "hit" => r.answer \in Row /\ r.hash = r.answer.hash /\ Matches(r.answer)
  /\ r.pc = "asked" /\ ~r.touched => v[r.file] = d[r.file]
  /\ r.pc \in {"hash", "store"} => r.answer \in Text /\ (~r.touched => r.answer = d[r.file])
  /\ r.pc = "store" => r.hash \in Text /\ (~r.touched => r.hash = d[r.file])

Queries == \A q \in Query : QueryOf(query[q], view, disk)

\* Only the current goroutine listens, and not to a closed cache; while some file
\* was never missed, it has never been told to stop.
WatcherOf(r) ==
  /\ r.state = "none" => r = NoWatcher
  /\ r.step = "loop" => r.batch = {}

Listeners ==
  /\ \A w \in Watcher : WatcherOf(watcher[w])
  /\ \A w \in Watcher : watcher[w].state = "run" => w = current /\ db # "closed"
  /\ missed # File => /\ db = "open" /\ current # 0 /\ watcher[current].state = "run"
                      /\ \A w \in Watcher : watcher[w].state # "stop"

\* A listening goroutine r is still to pass the change of f to its channel.
HasToTell(r, f) ==
  /\ r.state = "run"
  /\ \/ f \in r.events \cup r.pending
     \/ f \in r.batch /\ r.step \in {"server", "hub", "record"}

Untold ==
  \A u \in untold : \/ HeldIn(u[1], u[2], flight)
                    \/ u[1] = "stale" /\ \E w \in Watcher : HasToTell(watcher[w], u[2])

Flushed == \A c \in Channel : pending[c] # {} => Armed(c)

\* Close stops a timer before it flushes what the timer would have.
StopsFlush ==
  \A i \in 1..Len(closing) : closing[i][2] = "timer" =>
     \E j \in (i + 1)..Len(closing) : closing[j] = <<closing[i][1], "flush">>

RefInv == CacheTypes /\ NotifyTypes /\ RowsMatch /\ Queries /\ Listeners /\ QuietCacheIsCurrent
          /\ Untold /\ Flushed /\ StopsFlush
-----------------------------------------------------------------------------
(* The cache and its queries *)

LEMMA QueryKept ==
  ASSUME NEW r \in QueryRecord, NEW v, NEW v2, NEW d, QueryOf(r, v, d),
         \A f \in File : v2[f] \in {v[f], d[f]}
  PROVE  QueryOf(r, v2, d)
BY DEF QueryOf

\* A step of one query that writes no file.
LEMMA QueriesKept ==
  ASSUME CacheTypes, Queries, NEW q \in Query, NEW rec \in QueryRecord, Go(q, rec),
         disk' = disk, \A f \in File : view'[f] \in {view[f], disk[f]},
         QueryOf(rec, view', disk)
  PROVE  query' \in [Query -> QueryRecord] /\ Queries'
<1>1. query' \in [Query -> QueryRecord]
  BY DEF CacheTypes, Go
<1>2. ASSUME NEW p \in Query PROVE QueryOf(query'[p], view', disk')
  <2>1. CASE p = q
    BY <2>1 DEF CacheTypes, Go
  <2>2. CASE p # q
    <3>1. query'[p] = query[p] /\ query[p] \in QueryRecord /\ QueryOf(query[p], view, disk)
      BY <2>2 DEF CacheTypes, Go, Queries
    <3>. QED BY <3>1, QueryKept
  <2>. QED BY <2>1, <2>2
<1>. QED BY <1>1, <1>2 DEF Queries

\* A step that moves no query, and writes no file.
LEMMA QueriesStay ==
  ASSUME CacheTypes, Queries, query' = query, disk' = disk,
         \A f \in File : view'[f] \in {view[f], disk[f]}
  PROVE  query' \in [Query -> QueryRecord] /\ Queries'
<1>1. ASSUME NEW p \in Query PROVE QueryOf(query'[p], view', disk')
  <2>1. query[p] \in QueryRecord /\ QueryOf(query[p], view, disk)
    BY DEF CacheTypes, Queries
  <2>. QED BY <2>1, QueryKept
<1>. QED BY <1>1 DEF Queries, CacheTypes

QueryStep(q) ==
  \/ \E f \in File : Get(q, f)
  \/ Lookup(q) \/ Ask(q) \/ Answered(q) \/ PutHash(q) \/ PutStore(q) \/ Hit(q)

\* What a step leaves of the cache beside its queries.
CacheFrame == UNCHANGED <<disk, artifact, current, missed, watcher>>

LEMMA CacheKept ==
  ASSUME CacheTypes, RowsMatch, CacheFrame, db' = db,
         query' \in [Query -> QueryRecord] /\ Queries',
         view' \in [File -> Text], row' \in [File -> Row \cup {NoRow}],
         \A f \in File : Matches(row'[f])
  PROVE  CacheTypes' /\ RowsMatch' /\ Queries'
BY DEF CacheTypes, RowsMatch, CacheFrame

LEMMA QuerySteps ==
  ASSUME CacheTypes, RowsMatch, Queries, NEW q \in Query, QueryStep(q)
  PROVE  CacheTypes' /\ RowsMatch' /\ Queries'
<1>. USE DEF CacheTypes
<1>0. /\ query[q] \in QueryRecord /\ QueryOf(query[q], view, disk)
      /\ NoQuery \in QueryRecord /\ (\A v, d : QueryOf(NoQuery, v, d))
      /\ \A f \in File : Matches(row[f])
  BY DEF Queries, NoQuery, QueryRecord, QueryPCs, QueryOf, RowsMatch
<1>1. ASSUME NEW f \in File, Get(q, f) PROVE CacheTypes' /\ RowsMatch' /\ Queries'
  <2>1. CacheFrame /\ db' = db /\ row' = row /\ view' = view
    BY <1>1 DEF Get, CacheFrame
  <2>2. PICK rec : rec = [NoQuery EXCEPT !.pc = "lookup", !.file = f, !.hash = disk[f]]
    OBVIOUS
  <2>3. rec \in QueryRecord /\ QueryOf(rec, view', disk) /\ Go(q, rec)
    BY <1>1, <2>2 DEF Get, NoQuery, QueryRecord, QueryPCs, QueryOf
  <2>4. query' \in [Query -> QueryRecord] /\ Queries'
    BY <2>1, <2>3, QueriesKept DEF CacheFrame
  <2>. QED BY <1>0, <2>1, <2>4, CacheKept
<1>2. ASSUME Lookup(q) PROVE CacheTypes' /\ RowsMatch' /\ Queries'
  <2>0. CacheFrame /\ db' = db /\ view' = view /\ query[q].pc = "lookup" /\ query[q].file \in File
    BY <1>0, <1>2 DEF Lookup, QueryFrame, CacheFrame, QueryOf
  <2>. DEFINE f == query[q].file
              found == db = "open" /\ row[f] # NoRow
              valid == found /\ row[f].hash = query[q].hash
  <2>1. CASE valid /\ Go(q, [query[q] EXCEPT !.pc = "hit", !.answer = row[f]]) /\ row' = row
    <3>1. PICK rec : rec = [query[q] EXCEPT !.pc = "hit", !.answer = row[f]]
      OBVIOUS
    <3>2. row[f] \in Row
      BY <2>0, <2>1
    <3>3. rec \in QueryRecord /\ rec.pc = "hit" /\ rec.answer = row[f] /\ rec.file = f /\ rec.hash = query[q].hash
      BY <1>0, <3>1, <3>2 DEF QueryRecord, QueryPCs
    <3>4. QueryOf(rec, view', disk) /\ Go(q, rec)
      BY <1>0, <2>0, <2>1, <3>1, <3>2, <3>3 DEF QueryOf
    <3>5. query' \in [Query -> QueryRecord] /\ Queries'
      BY <2>0, <3>3, <3>4, QueriesKept DEF CacheFrame
    <3>. QED BY <1>0, <2>0, <2>1, <3>5, CacheKept
  <2>2. CASE /\ ~valid /\ row' = IF found THEN [row EXCEPT ![f] = NoRow] ELSE row
             /\ Go(q, [query[q] EXCEPT !.pc = "ask", !.hash = NoRow, !.touched = FALSE])
    <3>1. PICK rec : rec = [query[q] EXCEPT !.pc = "ask", !.hash = NoRow, !.touched = FALSE]
      OBVIOUS
    <3>3. rec \in QueryRecord /\ rec.pc = "ask" /\ rec.file = f
      BY <1>0, <3>1 DEF QueryRecord, QueryPCs
    <3>4. QueryOf(rec, view', disk) /\ Go(q, rec)
      BY <2>0, <2>2, <3>1, <3>3 DEF QueryOf
    <3>5. query' \in [Query -> QueryRecord] /\ Queries'
      BY <2>0, <3>3, <3>4, QueriesKept DEF CacheFrame
    <3>6. row' \in [File -> Row \cup {NoRow}] /\ (\A g \in File : row'[g] = row[g] \/ row'[g] = NoRow)
      BY <2>0, <2>2
    <3>7. \A g \in File : Matches(row'[g])
      BY <1>0, <3>6 DEF Matches
    <3>. QED BY <2>0, <3>5, <3>6, <3>7, CacheKept
  <2>. QED BY <1>2, <2>1, <2>2 DEF Lookup
<1>3. ASSUME Ask(q) PROVE CacheTypes' /\ RowsMatch' /\ Queries'
  <2>0. CacheFrame /\ db' = db /\ row' = row /\ query[q].pc = "ask" /\ query[q].file \in File
    BY <1>0, <1>3 DEF Ask, QueryFrame, CacheFrame, QueryOf
  <2>1. PICK rec : rec = [query[q] EXCEPT !.pc = "asked"]
    OBVIOUS
  <2>2. rec \in QueryRecord /\ rec.pc = "asked" /\ rec.file = query[q].file
    BY <1>0, <2>1 DEF QueryRecord, QueryPCs
  <2>3. /\ view' = [view EXCEPT ![query[q].file] = disk[query[q].file]]
        /\ view' \in [File -> Text] /\ (\A f \in File : view'[f] \in {view[f], disk[f]})
        /\ view'[query[q].file] = disk[query[q].file]
    BY <1>3, <2>0 DEF Ask
  <2>4. QueryOf(rec, view', disk) /\ Go(q, rec)
    BY <1>3, <2>0, <2>1, <2>2, <2>3 DEF QueryOf, Ask
  <2>5. query' \in [Query -> QueryRecord] /\ Queries'
    BY <2>0, <2>2, <2>3, <2>4, QueriesKept DEF CacheFrame
  <2>. QED BY <1>0, <2>0, <2>3, <2>5, CacheKept
<1>4. ASSUME Answered(q) PROVE CacheTypes' /\ RowsMatch' /\ Queries'
  <2>0. /\ CacheFrame /\ db' = db /\ row' = row /\ view' = view
        /\ query[q].pc = "asked" /\ query[q].file \in File
    BY <1>0, <1>4 DEF Answered, QueryFrame, CacheFrame, QueryOf
  <2>1. CASE Go(q, [query[q] EXCEPT !.pc = "hash", !.answer = view[query[q].file]])
    <3>1. PICK rec : rec = [query[q] EXCEPT !.pc = "hash", !.answer = view[query[q].file]]
      OBVIOUS
    <3>2. /\ rec \in QueryRecord /\ rec.pc = "hash" /\ rec.file = query[q].file
          /\ rec.answer = view[query[q].file] /\ rec.touched = query[q].touched
      BY <1>0, <2>0, <3>1 DEF QueryRecord, QueryPCs
    <3>3. QueryOf(rec, view', disk) /\ Go(q, rec)
      BY <1>0, <2>0, <2>1, <3>1, <3>2 DEF QueryOf
    <3>4. query' \in [Query -> QueryRecord] /\ Queries'
      BY <2>0, <3>2, <3>3, QueriesKept DEF CacheFrame
    <3>. QED BY <1>0, <2>0, <3>4, CacheKept
  <2>2. CASE Go(q, NoQuery)
    <3>1. query' \in [Query -> QueryRecord] /\ Queries'
      BY <1>0, <2>0, <2>2, QueriesKept DEF CacheFrame
    <3>. QED BY <1>0, <2>0, <3>1, CacheKept
  <2>. QED BY <1>4, <2>1, <2>2 DEF Answered
<1>5. ASSUME PutHash(q) PROVE CacheTypes' /\ RowsMatch' /\ Queries'
  <2>0. /\ CacheFrame /\ db' = db /\ row' = row /\ view' = view
        /\ query[q].pc = "hash" /\ query[q].file \in File
    BY <1>0, <1>5 DEF PutHash, QueryFrame, CacheFrame, QueryOf
  <2>1. PICK rec : rec = [query[q] EXCEPT !.pc = "store", !.hash = disk[query[q].file]]
    OBVIOUS
  <2>2. /\ rec \in QueryRecord /\ rec.pc = "store" /\ rec.file = query[q].file
        /\ rec.answer = query[q].answer /\ rec.touched = query[q].touched
        /\ rec.hash = disk[query[q].file]
    BY <1>0, <2>0, <2>1 DEF QueryRecord, QueryPCs
  <2>3. QueryOf(rec, view', disk) /\ Go(q, rec)
    BY <1>0, <1>5, <2>0, <2>1, <2>2 DEF QueryOf, PutHash
  <2>4. query' \in [Query -> QueryRecord] /\ Queries'
    BY <2>0, <2>2, <2>3, QueriesKept DEF CacheFrame
  <2>. QED BY <1>0, <2>0, <2>4, CacheKept
<1>6. ASSUME PutStore(q) PROVE CacheTypes' /\ RowsMatch' /\ Queries'
  <2>0. /\ CacheFrame /\ db' = db /\ view' = view /\ Go(q, NoQuery)
        /\ query[q].pc = "store" /\ query[q].file \in File
    BY <1>0, <1>6 DEF PutStore, QueryFrame, CacheFrame, QueryOf
  <2>1. query' \in [Query -> QueryRecord] /\ Queries'
    BY <1>0, <2>0, QueriesKept DEF CacheFrame
  <2>2. PICK r : r = [hash |-> query[q].hash, own |-> query[q].answer, clean |-> ~query[q].touched]
    OBVIOUS
  <2>3. query[q].hash \in Text /\ query[q].answer \in Text /\ query[q].touched \in BOOLEAN
        /\ (~query[q].touched => query[q].answer = query[q].hash)
    BY <1>0, <2>0 DEF QueryOf, QueryRecord
  <2>4. r \in Row /\ r.clean = (~query[q].touched) /\ Matches(r)
    BY <2>2, <2>3 DEF Row, Matches
  <2>5. row' = row \/ row' = [row EXCEPT ![query[q].file] = r]
    BY <1>6, <2>2 DEF PutStore
  <2>6. row' \in [File -> Row \cup {NoRow}] /\ (\A g \in File : row'[g] = row[g] \/ row'[g] = r)
    BY <2>0, <2>4, <2>5
  <2>. QED BY <1>0, <2>0, <2>1, <2>4, <2>6, CacheKept
<1>7. ASSUME Hit(q) PROVE CacheTypes' /\ RowsMatch' /\ Queries'
  <2>0. CacheFrame /\ db' = db /\ row' = row /\ view' = view /\ Go(q, NoQuery)
    BY <1>7 DEF Hit, QueryFrame, CacheFrame
  <2>1. query' \in [Query -> QueryRecord] /\ Queries'
    BY <1>0, <2>0, QueriesKept DEF CacheFrame
  <2>. QED BY <1>0, <2>0, <2>1, CacheKept
<1>. QED BY <1>1, <1>2, <1>3, <1>4, <1>5, <1>6, <1>7 DEF QueryStep
-----------------------------------------------------------------------------
(* Writes, the exported cache, and the goroutines: types, rows and queries *)

LEMMA WriteStep ==
  ASSUME CacheTypes, RowsMatch, Queries, NEW f \in File, NEW t \in Text, Write(f, t)
  PROVE  CacheTypes' /\ RowsMatch' /\ Queries'
<1>. USE DEF CacheTypes
<1>1. /\ disk' = [disk EXCEPT ![f] = t] /\ UNCHANGED <<view, row, db, current, artifact>>
      /\ watcher' = [w \in Watcher |-> IF watcher[w].state = "none" THEN watcher[w]
                                       ELSE [watcher[w] EXCEPT !.events = @ \cup {f}]]
      /\ query' = [q \in Query |-> IF query[q].pc \in {"asked", "hash", "store"} /\ query[q].file = f
                                     THEN [query[q] EXCEPT !.touched = TRUE] ELSE query[q]]
      /\ missed' \in {missed, missed \cup {f}}
  BY DEF Write
<1>2. watcher' \in [Watcher -> WatcherRecord]
  <2>1. ASSUME NEW w \in Watcher PROVE watcher'[w] \in WatcherRecord
    <3>1. watcher[w] \in WatcherRecord
      OBVIOUS
    <3>2. [watcher[w] EXCEPT !.events = @ \cup {f}] \in WatcherRecord
      BY <3>1 DEF WatcherRecord
    <3>. QED BY <1>1, <3>1, <3>2
  <2>. QED BY <1>1, <2>1
<1>3. ASSUME NEW q \in Query PROVE query'[q] \in QueryRecord /\ QueryOf(query'[q], view', disk')
  <2>1. query[q] \in QueryRecord /\ QueryOf(query[q], view, disk)
    BY DEF Queries
  <2>2. CASE query[q].pc \in {"asked", "hash", "store"} /\ query[q].file = f
    <3>1. PICK rec : rec = [query[q] EXCEPT !.touched = TRUE]
      OBVIOUS
    <3>2. query'[q] = rec
      BY <1>1, <2>2, <3>1
    <3>3. /\ rec \in QueryRecord /\ rec.pc = query[q].pc /\ rec.file = query[q].file /\ rec.hash = query[q].hash
          /\ rec.answer = query[q].answer /\ rec.touched = TRUE
      BY <2>1, <3>1 DEF QueryRecord
    <3>. QED BY <2>1, <2>2, <3>2, <3>3 DEF QueryOf
  <2>3. CASE ~(query[q].pc \in {"asked", "hash", "store"} /\ query[q].file = f)
    <3>1. query'[q] = query[q]
      BY <1>1, <2>3
    <3>2. \A g \in File : g # f => disk'[g] = disk[g]
      BY <1>1
    <3>. QED BY <1>1, <2>1, <2>3, <3>1, <3>2 DEF QueryOf
  <2>. QED BY <2>2, <2>3
<1>4. query' \in [Query -> QueryRecord]
  BY <1>1, <1>3
<1>. QED BY <1>1, <1>2, <1>3, <1>4 DEF Queries, RowsMatch

LEMMA MoveSteps ==
  ASSUME CacheTypes, RowsMatch, Queries, ExportArtifact \/ ImportArtifact
  PROVE  CacheTypes' /\ RowsMatch' /\ Queries'
<1>1. UNCHANGED <<disk, view, query, watcher, current>>
  BY DEF ExportArtifact, ImportArtifact, MoveFrame
<1>2. \/ artifact' = row /\ row' = row /\ db' = db /\ missed' = missed
      \/ artifact' = artifact /\ row' \in {row, artifact} /\ db' \in {"open", "nil"} /\ missed' = File
  BY DEF ExportArtifact, ImportArtifact
<1>3. Queries'
  BY <1>1, QueriesStay DEF CacheTypes
<1>4. CacheTypes' /\ RowsMatch'
  BY <1>1, <1>2 DEF CacheTypes, RowsMatch
<1>. QED BY <1>3, <1>4

WatcherStep(w) ==
  \/ \E f \in File : Event(w, f)
  \/ FlushBatch(w) \/ TellServer(w) \/ TellHub(w) \/ RecordChange(w) \/ Invalidate(w)
  \/ InvalidatePanics(w) \/ TooManyFiles(w)

\* How goroutine w goes on.
LEMMA WatcherMoves ==
  ASSUME CacheTypes, NEW w \in Watcher, WatcherStep(w)
  PROVE  \E r \in WatcherRecord : Watch(w, r)
<1>. DEFINE o == watcher[w]
<1>0. o \in WatcherRecord /\ NoWatcher \in WatcherRecord
  BY DEF CacheTypes, NoWatcher, WatcherRecord, Steps
<1>. HIDE DEF o
<1>. USE <1>0 DEF WatcherRecord, Steps
<1>1. ASSUME NEW f \in File
      PROVE  [o EXCEPT !.events = @ \ {f}, !.pending = @ \cup {f}, !.timer = TRUE] \in WatcherRecord
  OBVIOUS
<1>2. [o EXCEPT !.timer = FALSE, !.batch = o.pending, !.pending = {}, !.step = "server"] \in WatcherRecord
  OBVIOUS
<1>3. \A s \in Steps : [o EXCEPT !.step = s] \in WatcherRecord
  OBVIOUS
<1>4. [o EXCEPT !.batch = {}, !.step = "loop"] \in WatcherRecord /\ [o EXCEPT !.state = "stop"] \in WatcherRecord
  OBVIOUS
<1>5. CASE \E f \in File : Event(w, f)
  BY <1>1, <1>5 DEF Event, o
<1>6. CASE FlushBatch(w)
  BY <1>2, <1>6 DEF FlushBatch, o
<1>7. CASE TellServer(w) \/ TellHub(w) \/ RecordChange(w)
  BY <1>3, <1>7 DEF TellServer, TellHub, RecordChange, o
<1>8. CASE Invalidate(w) \/ InvalidatePanics(w) \/ TooManyFiles(w)
  BY <1>4, <1>8 DEF Invalidate, InvalidatePanics, TooManyFiles, Ending, o
<1>. QED BY <1>5, <1>6, <1>7, <1>8 DEF WatcherStep

LEMMA WatcherSteps ==
  ASSUME CacheTypes, RowsMatch, Queries, NEW w \in Watcher, WatcherStep(w)
  PROVE  CacheTypes' /\ RowsMatch' /\ Queries'
<1>. USE DEF CacheTypes
<1>1. PICK r \in WatcherRecord : Watch(w, r)
  BY WatcherMoves
<1>2. watcher' \in [Watcher -> WatcherRecord]
  BY <1>1 DEF Watch
<1>3. /\ UNCHANGED <<disk, query, current, artifact, db>>
      /\ missed' \in {missed, File}
      /\ view' = view \/ view' = [f \in File |-> IF f \in watcher[w].batch THEN disk[f] ELSE view[f]]
      /\ row' = row \/ row' = [f \in File |-> IF db = "open" /\ f \in watcher[w].batch THEN NoRow ELSE row[f]]
  BY DEF WatcherStep, Event, FlushBatch, TellServer, TellHub, RecordChange, Invalidate, InvalidatePanics,
         TooManyFiles, Ending, WatchFrame
<1>4. view' \in [File -> Text] /\ (\A f \in File : view'[f] \in {view[f], disk[f]})
  BY <1>3
<1>5. row' \in [File -> Row \cup {NoRow}] /\ (\A f \in File : row'[f] \in {row[f], NoRow})
  BY <1>3
<1>6. Queries'
  BY <1>3, <1>4, QueriesStay
<1>7. RowsMatch'
  BY <1>3, <1>5 DEF RowsMatch, Matches
<1>. QED BY <1>2, <1>3, <1>4, <1>5, <1>6, <1>7

\* Shutdown and Initialize.
LEMMA RestartSteps ==
  ASSUME CacheTypes, RowsMatch, Queries, Shutdown \/ Initialize
  PROVE  CacheTypes' /\ RowsMatch' /\ Queries'
<1>. USE DEF CacheTypes
<1>0. Listening \in WatcherRecord /\ \A w \in Watcher : [watcher[w] EXCEPT !.state = "stop"] \in WatcherRecord
  BY DEF Listening, NoWatcher, WatcherRecord, Steps
<1>1. /\ UNCHANGED <<disk, query, artifact>> /\ view' \in {view, disk} /\ row' \in {row, artifact}
      /\ db' \in {"open", "closed"} /\ missed' \in {missed, File} /\ current' \in Watcher \cup {0}
      /\ watcher' = watcher \/ \E w \in Watcher, r \in WatcherRecord : Watch(w, r)
  BY <1>0 DEF Shutdown, Initialize, Ending
<1>2. watcher' \in [Watcher -> WatcherRecord]
  BY <1>1 DEF Watch
<1>3. Queries'
  BY <1>1, QueriesStay
<1>4. RowsMatch'
  BY <1>1 DEF RowsMatch
<1>. QED BY <1>1, <1>2, <1>3, <1>4
-----------------------------------------------------------------------------
(* The goroutines, and the rows a quiet one leaves *)

Holds(r) == r.events \cup r.pending \cup r.batch

\* A step that leaves the goroutines alone and stores only what is on disk.
LEMMA ListenersStay ==
  ASSUME CacheTypes, Listeners, QuietCacheIsCurrent,
         UNCHANGED <<watcher, current, db, disk, missed>>,
         \A f \in File : row'[f] \in {row[f], NoRow} \/ (row'[f].clean => row'[f].own = disk[f])
  PROVE  Listeners' /\ QuietCacheIsCurrent'
<1>1. Listeners'
  BY DEF Listeners
<1>2. QuietCacheIsCurrent'
  BY DEF QuietCacheIsCurrent, Quiet
<1>. QED BY <1>1, <1>2

LEMMA QueryListeners ==
  ASSUME CacheTypes, Queries, Listeners, QuietCacheIsCurrent, NEW q \in Query, QueryStep(q)
  PROVE  Listeners' /\ QuietCacheIsCurrent'
<1>1. UNCHANGED <<watcher, current, db, disk, missed>>
  BY DEF QueryStep, Get, Lookup, Ask, Answered, PutHash, PutStore, Hit, QueryFrame
<1>2. CASE PutStore(q)
  <2>0. query[q] \in QueryRecord /\ QueryOf(query[q], view, disk) /\ query[q].pc = "store"
        /\ query[q].file \in File
    BY <1>2 DEF CacheTypes, Queries, PutStore, QueryOf
  <2>1. PICK r : r = [hash |-> query[q].hash, own |-> query[q].answer, clean |-> ~query[q].touched]
    OBVIOUS
  <2>2. r.clean => r.own = disk[query[q].file]
    BY <2>0, <2>1 DEF QueryOf
  <2>3. row' = row \/ row' = [row EXCEPT ![query[q].file] = r]
    BY <1>2, <2>1 DEF PutStore
  <2>4. \A f \in File : row'[f] \in {row[f], NoRow} \/ (row'[f].clean => row'[f].own = disk[f])
    BY <2>0, <2>2, <2>3 DEF CacheTypes
  <2>. QED BY <1>1, <2>4, ListenersStay
<1>3. CASE ~PutStore(q)
  <2>1. row' = row \/ \E f \in File : row' = [row EXCEPT ![f] = NoRow]
    <3>1. CASE Lookup(q)
      <4>1. query[q].file \in File
        BY <3>1 DEF CacheTypes, Queries, Lookup, QueryOf
      <4>. QED BY <3>1, <4>1 DEF Lookup
    <3>2. CASE ~Lookup(q)
      BY <1>3, <3>2 DEF QueryStep, Get, Ask, Answered, PutHash, Hit
    <3>. QED BY <3>1, <3>2
  <2>2. \A f \in File : row'[f] \in {row[f], NoRow}
    BY <2>1 DEF CacheTypes
  <2>. QED BY <1>1, <2>2, ListenersStay
<1>. QED BY <1>2, <1>3

LEMMA WriteListeners ==
  ASSUME CacheTypes, Listeners, QuietCacheIsCurrent, NEW f \in File, NEW t \in Text, Write(f, t)
  PROVE  Listeners' /\ QuietCacheIsCurrent'
<1>1. /\ disk' = [disk EXCEPT ![f] = t] /\ UNCHANGED <<row, db, current>>
      /\ watcher' = [w \in Watcher |-> IF watcher[w].state = "none" THEN watcher[w]
                                       ELSE [watcher[w] EXCEPT !.events = @ \cup {f}]]
      /\ IF Running # {} THEN missed' = missed ELSE missed' = missed \cup {f}
  BY DEF Write
<1>2. ASSUME NEW w \in Watcher
      PROVE  /\ watcher'[w].state = watcher[w].state /\ WatcherOf(watcher'[w])
             /\ Holds(watcher[w]) \subseteq Holds(watcher'[w])
             /\ watcher[w].state # "none" => f \in Holds(watcher'[w])
  <2>1. watcher[w] \in WatcherRecord /\ WatcherOf(watcher[w])
    BY DEF CacheTypes, Listeners
  <2>2. CASE watcher[w].state = "none"
    BY <1>1, <2>1, <2>2
  <2>3. CASE watcher[w].state # "none"
    <3>1. PICK r : r = [watcher[w] EXCEPT !.events = @ \cup {f}]
      OBVIOUS
    <3>2. /\ r.state = watcher[w].state /\ r.events = watcher[w].events \cup {f} /\ r.batch = watcher[w].batch
          /\ r.step = watcher[w].step /\ r.pending = watcher[w].pending /\ watcher'[w] = r
      BY <1>1, <2>1, <2>3, <3>1 DEF WatcherRecord
    <3>. QED BY <2>1, <2>3, <3>2 DEF WatcherOf, Holds
  <2>. QED BY <2>2, <2>3
<1>3. Listeners'
  <2>1. missed' # File => missed # File
    BY <1>1 DEF CacheTypes
  <2>2. current \in Watcher \cup {0}
    BY DEF CacheTypes
  <2>. QED BY <1>1, <1>2, <2>1, <2>2 DEF Listeners
<1>4. ASSUME NEW g \in File, Quiet(g)', g \notin missed' PROVE Quiet(g) /\ g \notin missed /\ g # f
  <2>1. \A w \in Watcher : g \notin Holds(watcher'[w])
    BY <1>4 DEF Quiet, Holds
  <2>2. Quiet(g) /\ g \notin missed
    BY <1>1, <1>2, <1>4, <2>1 DEF Quiet, Holds
  <2>3. g # f
    <3>1. CASE Running # {}
      <4>1. PICK w \in Watcher : watcher[w].state = "run"
        BY <3>1 DEF Running
      <4>. QED BY <1>2, <2>1, <4>1
    <3>2. CASE Running = {}
      BY <1>1, <1>4, <3>2
    <3>. QED BY <3>1, <3>2
  <2>. QED BY <2>2, <2>3
<1>5. QuietCacheIsCurrent'
  <2>1. \A g \in File : g # f => disk'[g] = disk[g]
    BY <1>1 DEF CacheTypes
  <2>. QED BY <1>1, <1>4, <2>1 DEF QuietCacheIsCurrent
<1>. QED BY <1>3, <1>5

LEMMA MoveListeners ==
  ASSUME CacheTypes, Listeners, QuietCacheIsCurrent, ExportArtifact \/ ImportArtifact
  PROVE  Listeners' /\ QuietCacheIsCurrent'
<1>1. CASE ExportArtifact
  BY <1>1, ListenersStay DEF ExportArtifact, MoveFrame
<1>2. CASE ImportArtifact
  <2>1. missed' = File /\ watcher' = watcher /\ current' = current /\ db' # "closed"
    BY <1>2 DEF ImportArtifact, MoveFrame
  <2>2. Listeners'
    BY <2>1 DEF Listeners
  <2>. QED BY <2>1, <2>2 DEF QuietCacheIsCurrent
<1>. QED BY <1>1, <1>2

\* What a goroutine holds goes from its events to its batch, and leaves the batch
\* when the rows of its files are gone, or the goroutine is.
LEMMA WatcherHolds ==
  ASSUME CacheTypes, Listeners, NEW w \in Watcher, WatcherStep(w)
  PROVE  \E r \in WatcherRecord :
           /\ Watch(w, r) /\ WatcherOf(r)
           /\ r.state = watcher[w].state \/ (r.state # "run" /\ (missed' = File \/ watcher[w].state = "stop"))
           /\ \/ Holds(watcher[w]) \subseteq Holds(r)
              \/ missed' = File
              \/ watcher[w].state = "stop"
              \/ \A f \in Holds(watcher[w]) \ Holds(r) : db = "open" => row'[f] = NoRow
<1>. DEFINE o == watcher[w]
<1>0. o \in WatcherRecord /\ WatcherOf(o) /\ NoWatcher \in WatcherRecord /\ WatcherOf(NoWatcher)
      /\ NoWatcher.state = "none"
  BY DEF CacheTypes, Listeners, NoWatcher, WatcherRecord, Steps, WatcherOf
<1>. HIDE DEF o
<1>1. ASSUME NEW f \in File, Event(w, f)
      PROVE  \E r \in WatcherRecord : Watch(w, r) /\ WatcherOf(r) /\ r.state = o.state /\ Holds(o) \subseteq Holds(r)
  <2>1. PICK r : r = [o EXCEPT !.events = @ \ {f}, !.pending = @ \cup {f}, !.timer = TRUE]
    OBVIOUS
  <2>2. /\ r \in WatcherRecord /\ r.state = o.state /\ r.step = o.step /\ r.batch = o.batch
        /\ r.events = o.events \ {f} /\ r.pending = o.pending \cup {f}
    BY <1>0, <2>1 DEF WatcherRecord
  <2>3. Watch(w, r) /\ o.state # "none"
    BY <1>1, <2>1 DEF Event, o
  <2>. QED BY <1>0, <2>2, <2>3 DEF WatcherOf, Holds
<1>2. ASSUME FlushBatch(w)
      PROVE  \E r \in WatcherRecord : Watch(w, r) /\ WatcherOf(r) /\ r.state = o.state /\ Holds(o) \subseteq Holds(r)
  <2>1. PICK r : r = [o EXCEPT !.timer = FALSE, !.batch = o.pending, !.pending = {}, !.step = "server"]
    OBVIOUS
  <2>2. /\ r \in WatcherRecord /\ r.state = o.state /\ r.step = "server" /\ r.batch = o.pending
        /\ r.events = o.events /\ r.pending = {}
    BY <1>0, <2>1 DEF WatcherRecord, Steps
  <2>3. Watch(w, r) /\ o.state # "none" /\ o.step = "loop"
    BY <1>2, <2>1 DEF FlushBatch, o
  <2>. QED BY <1>0, <2>2, <2>3 DEF WatcherOf, Holds
<1>3. ASSUME TellServer(w) \/ TellHub(w) \/ RecordChange(w)
      PROVE  \E r \in WatcherRecord : Watch(w, r) /\ WatcherOf(r) /\ r.state = o.state /\ Holds(o) \subseteq Holds(r)
  <2>1. PICK s \in {"hub", "record", "cache"} : Watch(w, [o EXCEPT !.step = s]) /\ o.step # "loop"
    BY <1>3 DEF TellServer, TellHub, RecordChange, o
  <2>2. PICK r : r = [o EXCEPT !.step = s]
    OBVIOUS
  <2>3. /\ r \in WatcherRecord /\ r.state = o.state /\ r.step = s /\ r.batch = o.batch
        /\ r.events = o.events /\ r.pending = o.pending
    BY <1>0, <2>1, <2>2 DEF WatcherRecord, Steps
  <2>4. o.state # "none"
    BY <1>0, <2>1 DEF WatcherOf, NoWatcher
  <2>. QED BY <1>0, <2>1, <2>2, <2>3, <2>4 DEF WatcherOf, Holds
<1>4. ASSUME Invalidate(w), o.state # "stop"
      PROVE  \E r \in WatcherRecord : /\ Watch(w, r) /\ WatcherOf(r) /\ r.state = o.state
                                      /\ \A f \in Holds(o) \ Holds(r) : db = "open" => row'[f] = NoRow
  <2>1. PICK r : r = [o EXCEPT !.batch = {}, !.step = "loop"]
    OBVIOUS
  <2>2. /\ r \in WatcherRecord /\ r.state = o.state /\ r.step = "loop" /\ r.batch = {}
        /\ r.events = o.events /\ r.pending = o.pending
    BY <1>0, <2>1 DEF WatcherRecord, Steps
  <2>3. Watch(w, r) /\ o.step = "cache" /\ (\A f \in File : db = "open" /\ f \in o.batch => row'[f] = NoRow)
    BY <1>4, <2>1 DEF Invalidate, o
  <2>4. o.state # "none" /\ o.batch \subseteq File
    BY <1>0, <2>3 DEF WatcherOf, NoWatcher, WatcherRecord
  <2>5. Holds(o) \ Holds(r) \subseteq o.batch
    BY <2>2 DEF Holds
  <2>. QED BY <2>2, <2>3, <2>4, <2>5 DEF WatcherOf
<1>5. ASSUME Invalidate(w), o.state = "stop" PROVE Watch(w, NoWatcher)
  BY <1>5 DEF Invalidate, o
<1>6. ASSUME InvalidatePanics(w) PROVE Watch(w, NoWatcher) /\ missed' = File
  BY <1>6 DEF InvalidatePanics
<1>7. ASSUME TooManyFiles(w)
      PROVE  missed' = File /\ \E r \in WatcherRecord : Watch(w, r) /\ WatcherOf(r) /\ r.state = "stop"
  <2>1. PICK r : r = [o EXCEPT !.state = "stop"]
    OBVIOUS
  <2>2. r \in WatcherRecord /\ r.state = "stop" /\ r.step = o.step /\ r.batch = o.batch
    BY <1>0, <2>1 DEF WatcherRecord
  <2>3. Watch(w, r) /\ missed' = File
    BY <1>7, <2>1 DEF TooManyFiles, Ending, o
  <2>. QED BY <1>0, <2>2, <2>3 DEF WatcherOf
<1>. QED BY <1>0, <1>1, <1>2, <1>3, <1>4, <1>5, <1>6, <1>7 DEF WatcherStep, o

LEMMA WatcherListeners ==
  ASSUME CacheTypes, Listeners, QuietCacheIsCurrent, NEW w \in Watcher, WatcherStep(w)
  PROVE  Listeners' /\ QuietCacheIsCurrent'
<1>0. /\ UNCHANGED <<disk, current, db>>
      /\ missed' \in {missed, File}
      /\ row' = row \/ row' = [f \in File |-> IF db = "open" /\ f \in watcher[w].batch THEN NoRow ELSE row[f]]
  BY DEF WatcherStep, Event, FlushBatch, TellServer, TellHub, RecordChange, Invalidate, InvalidatePanics,
         TooManyFiles, Ending, WatchFrame
<1>1. PICK r \in WatcherRecord :
        /\ Watch(w, r) /\ WatcherOf(r)
        /\ r.state = watcher[w].state \/ (r.state # "run" /\ (missed' = File \/ watcher[w].state = "stop"))
        /\ \/ Holds(watcher[w]) \subseteq Holds(r)
           \/ missed' = File
           \/ watcher[w].state = "stop"
           \/ \A f \in Holds(watcher[w]) \ Holds(r) : db = "open" => row'[f] = NoRow
  BY WatcherHolds
<1>2. watcher' = [watcher EXCEPT ![w] = r] /\ watcher'[w] = r /\ \A v \in Watcher : v # w => watcher'[v] = watcher[v]
  BY <1>1 DEF CacheTypes, Watch
<1>3. Listeners'
  <2>1. \A v \in Watcher : WatcherOf(watcher'[v])
    BY <1>1, <1>2 DEF Listeners
  <2>2. \A v \in Watcher : watcher'[v].state = "run" => v = current' /\ db' # "closed"
    BY <1>0, <1>1, <1>2 DEF Listeners
  <2>3. ASSUME missed' # File
        PROVE  /\ db' = "open" /\ current' # 0 /\ watcher'[current'].state = "run"
               /\ \A v \in Watcher : watcher'[v].state # "stop"
    <3>1. /\ missed # File /\ db = "open" /\ current # 0 /\ watcher[current].state = "run"
          /\ \A v \in Watcher : watcher[v].state # "stop"
      BY <1>0, <2>3 DEF Listeners
    <3>2. current \in Watcher
      BY <3>1 DEF CacheTypes
    <3>. QED BY <1>0, <1>1, <1>2, <2>3, <3>1, <3>2
  <2>. QED BY <2>1, <2>2, <2>3 DEF Listeners
<1>4. ASSUME NEW f \in File, Quiet(f)', f \notin missed', row'[f] # NoRow, row'[f].clean
      PROVE  row'[f].own = disk'[f]
  <2>1. missed' = missed /\ missed # File
    BY <1>0, <1>4
  <2>2. db = "open" /\ watcher[w].state # "stop"
    BY <2>1 DEF Listeners
  <2>3. row'[f] = row[f]
    BY <1>0, <1>4
  <2>4. \A v \in Watcher : f \notin Holds(watcher'[v])
    BY <1>4 DEF Quiet, Holds
  <2>5. f \notin Holds(watcher[w])
    BY <1>1, <1>2, <1>4, <2>1, <2>2, <2>4
  <2>6. Quiet(f)
    BY <1>2, <2>4, <2>5 DEF Quiet, Holds
  <2>. QED BY <1>0, <1>4, <2>1, <2>3, <2>6 DEF QuietCacheIsCurrent
<1>. QED BY <1>3, <1>4 DEF QuietCacheIsCurrent

LEMMA RestartListeners ==
  ASSUME CacheTypes, Listeners, QuietCacheIsCurrent, Shutdown \/ Initialize
  PROVE  Listeners' /\ QuietCacheIsCurrent'
<1>1. CASE Shutdown
  <2>0. current \in Watcher /\ db' = "closed" /\ current' = 0 /\ UNCHANGED <<disk, row>>
    BY <1>1 DEF Shutdown, CacheTypes
  <2>1. CASE watcher[current].state = "run"
    <3>1. PICK r : r = [watcher[current] EXCEPT !.state = "stop"]
      OBVIOUS
    <3>2. watcher' = [watcher EXCEPT ![current] = r] /\ missed' = File
      BY <1>1, <2>1, <3>1 DEF Shutdown, Ending, Watch
    <3>3. /\ watcher'[current] = r /\ r.state = "stop" /\ r.step = watcher[current].step /\ r.batch = watcher[current].batch
          /\ \A v \in Watcher : v # current => watcher'[v] = watcher[v]
      BY <2>0, <3>1, <3>2 DEF CacheTypes, WatcherRecord
    <3>4. \A v \in Watcher : WatcherOf(watcher'[v])
      BY <2>0, <3>3 DEF Listeners, WatcherOf
    <3>5. \A v \in Watcher : watcher'[v].state # "run"
      BY <3>3 DEF Listeners
    <3>. QED BY <3>2, <3>4, <3>5 DEF Listeners, QuietCacheIsCurrent
  <2>2. CASE watcher[current].state # "run"
    <3>1. UNCHANGED <<watcher, missed>> /\ missed = File
      BY <1>1, <2>2 DEF Shutdown, Listeners
    <3>2. \A v \in Watcher : watcher[v].state # "run"
      BY <2>2 DEF Listeners
    <3>. QED BY <3>1, <3>2 DEF Listeners, QuietCacheIsCurrent
  <2>. QED BY <2>1, <2>2
<1>2. CASE Initialize
  <2>1. missed = File /\ missed' = missed /\ db' = "open" /\ \A v \in Watcher : watcher[v].state # "run"
    BY <1>2 DEF Initialize, Listeners
  <2>2. PICK w \in Watcher : current' = w /\ watcher' = [watcher EXCEPT ![w] = Listening]
    BY <1>2 DEF Initialize, Watch
  <2>3. WatcherOf(Listening)
    BY DEF Listening, NoWatcher, WatcherOf
  <2>4. \A v \in Watcher : watcher'[v] = IF v = w THEN Listening ELSE watcher[v]
    BY <2>2 DEF CacheTypes
  <2>. QED BY <2>1, <2>2, <2>3, <2>4 DEF Listeners, QuietCacheIsCurrent
<1>. QED BY <1>1, <1>2
-----------------------------------------------------------------------------
(* The channels *)

ChannelInv == NotifyTypes /\ Flushed /\ StopsFlush

\* A channel that holds a change still does, or has put it into a flight.
Keeps == \A c \in Channel, f \in File : HeldIn(c, f, flight) => HeldIn(c, f, flight)'

LEMMA Changes ==
  ASSUME NEW f \in File
  PROVE  Changed(f) \in Item /\ Changed(f).file = f
BY BoundAssumption DEF Changed, Item

LEMMA Frame ==
  ASSUME ChannelInv, UNCHANGED <<pending, timer, firing, flight, calls, subscribed, closing>>
  PROVE  /\ untold' \subseteq {"diagnostics", "stale"} \X File => ChannelInv'
         /\ Keeps
BY DEF ChannelInv, NotifyTypes, Flushed, StopsFlush, Armed, Keeps, HeldIn

LEMMA PublishStep ==
  ASSUME ChannelInv, NEW f \in File, NEW n \in 0..MaxErrors, Publish(f, n)
  PROVE  /\ ChannelInv' /\ Keeps
         /\ \A u \in untold' \ untold : HeldIn(u[1], u[2], flight)'
<1>1. /\ UNCHANGED <<pending, timer, firing, flight, subscribed, closing>> /\ calls = {}
      /\ calls' = {[channel |-> c, item |-> [file |-> f, errors |-> n]] : c \in subscribed \ {"stale"}}
      /\ untold' = untold \cup {<<x.channel, f>> : x \in {y \in calls' : y.channel = "diagnostics"}}
  BY DEF Publish
<1>2. calls' \subseteq [channel : Channel, item : Item] /\ \A x \in calls' : x.item.file = f
  BY <1>1 DEF ChannelInv, NotifyTypes, Item
<1>3. NotifyTypes'
  BY <1>1, <1>2 DEF ChannelInv, NotifyTypes
<1>4. Flushed' /\ StopsFlush'
  BY <1>1 DEF ChannelInv, Flushed, StopsFlush, Armed
<1>5. Keeps
  BY <1>1 DEF Keeps, HeldIn
<1>6. ASSUME NEW u \in untold' \ untold PROVE HeldIn(u[1], u[2], flight)'
  <2>1. PICK x \in calls' : u = <<x.channel, f>>
    BY <1>1
  <2>. QED BY <1>2, <2>1 DEF HeldIn
<1>. QED BY <1>3, <1>4, <1>5, <1>6 DEF ChannelInv

\* The item called back with is recorded; one it replaces is of the same file.
LEMMA CallbackStep ==
  ASSUME ChannelInv, NEW x \in calls, OnDiagnostic(x)
  PROVE  ChannelInv' /\ Keeps /\ untold' = untold
<1>0. x.channel \in Channel /\ x.item \in Item /\ x \in [channel : Channel, item : Item]
  BY DEF ChannelInv, NotifyTypes
<1>1. /\ UNCHANGED <<firing, flight, subscribed, closing, untold>> /\ calls' = calls \ {x}
      /\ pending' = [pending EXCEPT ![x.channel] = Record(@, x.item)] /\ timer' = timer \cup {x.channel}
  BY DEF OnDiagnostic
<1>2. /\ pending' \in [Channel -> SUBSET Item]
      /\ \A c \in Channel : c # x.channel => pending'[c] = pending[c]
      /\ pending'[x.channel] = Record(pending[x.channel], x.item)
  BY <1>0, <1>1 DEF ChannelInv, NotifyTypes, Record
<1>3. NotifyTypes'
  BY <1>0, <1>1, <1>2 DEF ChannelInv, NotifyTypes
<1>4. Flushed'
  BY <1>1, <1>2 DEF ChannelInv, Flushed, Armed
<1>5. StopsFlush'
  BY <1>1 DEF ChannelInv, StopsFlush
<1>6. ASSUME NEW c \in Channel, NEW f \in File, HeldIn(c, f, flight) PROVE HeldIn(c, f, flight)'
  <2>1. CASE f \in {i.file : i \in pending[c]}
    <3>1. PICK i \in pending[c] : i.file = f
      BY <2>1
    <3>2. CASE c = x.channel
      <4>1. x.item \in pending'[c] /\ (i.file # x.item.file => i \in pending'[c])
        BY <1>2, <3>1, <3>2 DEF Record
      <4>2. \E j \in pending'[c] : j.file = f
        BY <3>1, <4>1
      <4>. QED BY <4>2 DEF HeldIn
    <3>3. CASE c # x.channel
      BY <1>2, <3>1, <3>3 DEF HeldIn
    <3>. QED BY <3>2, <3>3
  <2>2. CASE \E y \in flight : y.channel = c /\ f \in {i.file : i \in y.items}
    BY <1>1, <2>2 DEF HeldIn
  <2>3. CASE \E y \in calls : y.channel = c /\ f = y.item.file
    <3>1. PICK y \in calls : y.channel = c /\ f = y.item.file
      BY <2>3
    <3>2. CASE y = x
      BY <1>2, <3>1, <3>2 DEF HeldIn, Record
    <3>3. CASE y # x
      BY <1>1, <3>1, <3>3 DEF HeldIn
    <3>. QED BY <3>2, <3>3
  <2>. QED BY <1>6, <2>1, <2>2, <2>3 DEF HeldIn
<1>. QED BY <1>1, <1>3, <1>4, <1>5, <1>6 DEF ChannelInv, Keeps

LEMMA TimerStep ==
  ASSUME ChannelInv, NEW c \in Channel, TimerFires(c)
  PROVE  ChannelInv' /\ Keeps /\ untold' = untold
<1>1. /\ UNCHANGED <<pending, flight, calls, subscribed, closing, untold>>
      /\ timer' = timer \ {c} /\ firing' = firing \cup {c}
  BY DEF TimerFires
<1>2. NotifyTypes' /\ Keeps
  BY <1>1 DEF ChannelInv, NotifyTypes, Keeps, HeldIn
<1>3. Flushed' /\ StopsFlush'
  BY <1>1 DEF ChannelInv, Flushed, Armed, StopsFlush
<1>. QED BY <1>1, <1>2, <1>3 DEF ChannelInv

\* A flush puts all it takes into a flight, but of the regressions, of which
\* nothing is promised.
LEMMA TakeKeeps ==
  ASSUME NotifyTypes, NEW c \in Channel, Take(c), calls' = calls
  PROVE  /\ pending' \in [Channel -> SUBSET Item] /\ pending'[c] = {}
         /\ \A d \in Channel : d # c => pending'[d] = pending[d]
         /\ flight' \subseteq [channel : Channel, items : SUBSET Item]
         /\ \A d \in {"diagnostics", "stale"}, f \in File : HeldIn(d, f, flight) => HeldIn(d, f, flight)'
<1>1. pending' = [pending EXCEPT ![c] = {}]
      /\ flight' = IF ToEmit(c) = {} THEN flight ELSE flight \cup {[channel |-> c, items |-> ToEmit(c)]}
  BY DEF Take
<1>2. ToEmit(c) \in SUBSET Item /\ (c # "regression" => ToEmit(c) = pending[c])
  BY DEF ToEmit, NotifyTypes
<1>3. /\ pending' \in [Channel -> SUBSET Item] /\ pending'[c] = {}
      /\ \A d \in Channel : d # c => pending'[d] = pending[d]
  BY <1>1 DEF NotifyTypes
<1>4. flight' \subseteq [channel : Channel, items : SUBSET Item] /\ flight \subseteq flight'
  BY <1>1, <1>2 DEF NotifyTypes
<1>5. ASSUME NEW d \in {"diagnostics", "stale"}, NEW f \in File, HeldIn(d, f, flight) PROVE HeldIn(d, f, flight)'
  <2>0. d \in Channel
    BY DEF Channel
  <2>1. CASE f \in {i.file : i \in pending[d]}
    <3>1. CASE d = c
      <4>1. ToEmit(c) = pending[c] /\ pending[c] # {}
        BY <1>2, <2>1, <3>1
      <4>2. PICK y : y = [channel |-> c, items |-> ToEmit(c)]
        OBVIOUS
      <4>3. y \in flight' /\ y.channel = d /\ f \in {i.file : i \in y.items}
        BY <1>1, <2>1, <3>1, <4>1, <4>2
      <4>. QED BY <4>3 DEF HeldIn
    <3>2. CASE d # c
      BY <1>3, <2>0, <2>1, <3>2 DEF HeldIn
    <3>. QED BY <3>1, <3>2
  <2>2. CASE ~(f \in {i.file : i \in pending[d]})
    BY <1>4, <1>5, <2>2 DEF HeldIn
  <2>. QED BY <2>1, <2>2
<1>. QED BY <1>3, <1>4, <1>5

\* What is promised of a change: not of the regressions.
KeepsTold == \A c \in {"diagnostics", "stale"}, f \in File : HeldIn(c, f, flight) => HeldIn(c, f, flight)'

LEMMA FlushStep ==
  ASSUME ChannelInv, NEW c \in Channel, Flush(c)
  PROVE  ChannelInv' /\ KeepsTold /\ untold' = untold
<1>1. /\ UNCHANGED <<timer, calls, subscribed, closing, untold>>
      /\ firing' = firing \ {c} /\ Take(c)
  BY DEF Flush
<1>2. /\ pending' \in [Channel -> SUBSET Item] /\ pending'[c] = {}
      /\ (\A d \in Channel : d # c => pending'[d] = pending[d])
      /\ flight' \subseteq [channel : Channel, items : SUBSET Item]
      /\ KeepsTold
  BY <1>1, TakeKeeps DEF ChannelInv, KeepsTold
<1>3. NotifyTypes'
  BY <1>1, <1>2 DEF ChannelInv, NotifyTypes
<1>4. Flushed' /\ StopsFlush'
  BY <1>1, <1>2 DEF ChannelInv, Flushed, Armed, StopsFlush
<1>. QED BY <1>1, <1>2, <1>3, <1>4 DEF ChannelInv

LEMMA SendStep ==
  ASSUME ChannelInv, NEW x \in flight, Send(x)
  PROVE  /\ ChannelInv'
         /\ \A u \in untold' : u \in untold /\ (HeldIn(u[1], u[2], flight) => HeldIn(u[1], u[2], flight)')
<1>1. /\ UNCHANGED <<pending, timer, firing, calls, subscribed, closing>> /\ flight' = flight \ {x}
      /\ untold' = {u \in untold : \/ u[1] # x.channel \/ u[2] \notin {i.file : i \in x.items}
                                   \/ HeldIn(u[1], u[2], flight \ {x})}
  BY DEF Send
<1>2. ChannelInv'
  BY <1>1 DEF ChannelInv, NotifyTypes, Flushed, Armed, StopsFlush
<1>3. ASSUME NEW u \in untold', HeldIn(u[1], u[2], flight) PROVE HeldIn(u[1], u[2], flight)'
  <2>1. HeldIn(u[1], u[2], flight \ {x}) => HeldIn(u[1], u[2], flight)'
    BY <1>1 DEF HeldIn
  <2>2. CASE u[1] # x.channel \/ u[2] \notin {i.file : i \in x.items}
    BY <1>3, <2>1, <2>2 DEF HeldIn
  <2>. QED BY <1>1, <2>1, <2>2
<1>. QED BY <1>1, <1>2, <1>3

LEMMA FunctionIsSeq ==
  ASSUME NEW S, NEW n \in Nat, NEW s \in [1..n -> S]
  PROVE  s \in Seq(S) /\ Len(s) = n
OBVIOUS

LEMMA FlushFollows ==
  ASSUME StopsFlush, NEW i \in 1..Len(closing), closing[i][2] = "timer"
  PROVE  \E j \in (i + 1)..Len(closing) : closing[j] = <<closing[i][1], "flush">>
BY DEF StopsFlush

LEMMA CloseStep ==
  ASSUME ChannelInv, Close
  PROVE  ChannelInv' /\ Keeps /\ untold' = untold
<1>1. /\ UNCHANGED <<pending, timer, firing, flight, calls, subscribed, untold>>
      /\ closing' = [i \in 1..9 |-> <<(<<"diagnostics", "regression", "stale">>)[(i + 2) \div 3],
                                      (<<"unsubscribe", "timer", "flush">>)[((i - 1) % 3) + 1]>>]
  BY DEF Close
<1>2. /\ closing' \in [1..9 -> Channel \X {"unsubscribe", "timer", "flush"}]
      /\ closing'[3] = <<"diagnostics", "flush">> /\ closing'[6] = <<"regression", "flush">>
      /\ closing'[9] = <<"stale", "flush">>
      /\ closing'[2][1] = "diagnostics" /\ closing'[5][1] = "regression" /\ closing'[8][1] = "stale"
      /\ \A i \in 1..9 : closing'[i][2] = "timer" => i \in {2, 5, 8}
  <2>1. ASSUME NEW i \in 1..9
        PROVE  /\ closing'[i] \in Channel \X {"unsubscribe", "timer", "flush"}
               /\ closing'[i][2] = "timer" => i \in {2, 5, 8}
    <3>1. (i + 2) \div 3 \in 1..3 /\ ((i - 1) % 3) + 1 \in 1..3
      OBVIOUS
    <3>2. (((i - 1) % 3) + 1 = 2) => i \in {2, 5, 8}
      OBVIOUS
    <3>. DEFINE a == (i + 2) \div 3
                b == ((i - 1) % 3) + 1
    <3>3. closing'[i] = <<(<<"diagnostics", "regression", "stale">>)[a], (<<"unsubscribe", "timer", "flush">>)[b]>>
      BY <1>1
    <3>4. a \in 1..3 /\ b \in 1..3 /\ (b = 2 => i \in {2, 5, 8})
      BY <3>1, <3>2
    <3>. HIDE DEF a, b
    <3>5. (<<"diagnostics", "regression", "stale">>)[a] \in Channel
      BY <3>4 DEF Channel
    <3>6. (<<"unsubscribe", "timer", "flush">>)[b] \in {"unsubscribe", "timer", "flush"}
          /\ ((<<"unsubscribe", "timer", "flush">>)[b] = "timer" => b = 2)
      BY <3>4
    <3>. QED BY <3>3, <3>4, <3>5, <3>6
  <2>2. DOMAIN closing' = 1..9 /\ closing' = [i \in 1..9 |-> closing'[i]]
    BY <1>1
  <2>3. closing' \in [1..9 -> Channel \X {"unsubscribe", "timer", "flush"}]
    BY <2>1, <2>2
  <2>4. closing'[3] = <<"diagnostics", "flush">> /\ closing'[2] = <<"diagnostics", "timer">>
    BY <1>1
  <2>5. closing'[6] = <<"regression", "flush">> /\ closing'[5] = <<"regression", "timer">>
    BY <1>1
  <2>6. closing'[9] = <<"stale", "flush">> /\ closing'[8] = <<"stale", "timer">>
    BY <1>1
  <2>. QED BY <2>1, <2>3, <2>4, <2>5, <2>6
<1>3. closing' \in Seq(Channel \X {"unsubscribe", "timer", "flush"}) /\ Len(closing') = 9
  <2>. DEFINE S == Channel \X {"unsubscribe", "timer", "flush"}
  <2>1. closing' \in [1..9 -> S] /\ 9 \in Nat
    BY <1>2
  <2>. HIDE DEF S
  <2>2. closing' \in Seq(S) /\ Len(closing') = 9
    BY <2>1, FunctionIsSeq
  <2>. QED BY <2>2 DEF S
<1>4. NotifyTypes' /\ Keeps
  BY <1>1, <1>3 DEF ChannelInv, NotifyTypes, Keeps, HeldIn
<1>5. Flushed'
  BY <1>2, <1>3 DEF Flushed, Armed, Channel
<1>6. StopsFlush'
  <2>1. ASSUME NEW i \in 1..9, closing'[i][2] = "timer"
        PROVE  \E j \in (i + 1)..9 : closing'[j] = <<closing'[i][1], "flush">>
    <3>1. i + 1 \in (i + 1)..9 /\ closing'[i + 1] = <<closing'[i][1], "flush">>
      BY <1>2, <2>1
    <3>. QED BY <3>1
  <2>. QED BY <1>3, <2>1 DEF StopsFlush
<1>. QED BY <1>1, <1>4, <1>5, <1>6 DEF ChannelInv

LEMMA StopStep ==
  ASSUME ChannelInv, Stop
  PROVE  ChannelInv' /\ KeepsTold /\ untold' = untold
<1>. DEFINE c == closing[1][1]
            step == closing[1][2]
            S == Channel \X {"unsubscribe", "timer", "flush"}
<1>1. /\ UNCHANGED <<firing, calls, untold>> /\ closing # <<>> /\ closing' = Tail(closing)
      /\ subscribed' = IF step = "unsubscribe" THEN subscribed \ {c} ELSE subscribed
      /\ timer' = IF step = "timer" THEN timer \ {c} ELSE timer
      /\ IF step = "flush" THEN Take(c) ELSE UNCHANGED <<pending, flight, prev>>
  BY DEF Stop
<1>2. closing \in Seq(S)
  BY DEF ChannelInv, NotifyTypes
<1>3. /\ closing[1] \in S /\ closing' \in Seq(S) /\ Len(closing) \in Nat /\ Len(closing) > 0
      /\ Len(closing') = Len(closing) - 1 /\ (\A i \in 1..Len(closing') : closing'[i] = closing[i + 1])
  <2>. HIDE DEF S
  <2>. QED BY <1>1, <1>2
<1>4. c \in Channel /\ step \in {"unsubscribe", "timer", "flush"}
  BY <1>3
<1>5. closing[1] = <<c, step>>
  BY <1>3
<1>. HIDE DEF c, step, S
<1>6. /\ pending' \in [Channel -> SUBSET Item] /\ (step = "flush" => pending'[c] = {})
      /\ \A d \in Channel : pending'[d] # {} => pending'[d] = pending[d]
      /\ flight' \subseteq [channel : Channel, items : SUBSET Item]
      /\ KeepsTold
  <2>1. CASE step = "flush"
    BY <1>1, <1>4, <2>1, TakeKeeps DEF ChannelInv, KeepsTold
  <2>2. CASE step # "flush"
    BY <1>1, <2>2 DEF ChannelInv, NotifyTypes, KeepsTold, HeldIn
  <2>. QED BY <2>1, <2>2
<1>7. NotifyTypes'
  BY <1>1, <1>3, <1>6 DEF ChannelInv, NotifyTypes, S
<1>8. StopsFlush'
  <2>1. ASSUME NEW i \in 1..Len(closing'), closing'[i][2] = "timer"
        PROVE  \E j \in (i + 1)..Len(closing') : closing'[j] = <<closing'[i][1], "flush">>
    <3>1. i + 1 \in 1..Len(closing) /\ closing'[i] = closing[i + 1]
      BY <1>3
    <3>2. PICK k \in 1..Len(closing) : k = i + 1 /\ closing'[i] = closing[k]
      BY <3>1
    <3>3. PICK j \in (k + 1)..Len(closing) : closing[j] = <<closing[k][1], "flush">>
      BY <2>1, <3>2, FlushFollows DEF ChannelInv
    <3>4. j - 1 \in (i + 1)..Len(closing') /\ closing'[j - 1] = closing[j]
      BY <1>3, <3>2
    <3>. QED BY <3>2, <3>3, <3>4
  <2>. QED BY <2>1 DEF StopsFlush
<1>9. ASSUME NEW d \in Channel, pending'[d] # {} PROVE Armed(d)'
  <2>1. Armed(d) /\ ~(d = c /\ step = "flush")
    BY <1>6, <1>9 DEF ChannelInv, Flushed
  <2>2. CASE d \in firing
    BY <1>1, <2>2 DEF Armed
  <2>3. CASE d \in timer /\ ~(d = c /\ step = "timer")
    BY <1>1, <2>3 DEF Armed
  <2>4. CASE d = c /\ step = "timer"
    <3>0. PICK k \in 1..Len(closing) : k = 1 /\ closing[k][1] = c /\ closing[k][2] = "timer"
      BY <1>3, <1>5, <2>4
    <3>1. PICK j \in (k + 1)..Len(closing) : closing[j] = <<c, "flush">>
      BY <3>0, FlushFollows DEF ChannelInv
    <3>2. j \in 2..Len(closing)
      BY <1>3, <3>0, <3>1
    <3>3. j - 1 \in 1..Len(closing') /\ closing'[j - 1] = closing[j]
      BY <1>3, <3>2
    <3>4. closing'[j - 1] = <<d, "flush">>
      BY <2>4, <3>1, <3>3
    <3>. QED BY <3>3, <3>4 DEF Armed
  <2>5. CASE \E i \in 1..Len(closing) : closing[i] = <<d, "flush">>
    <3>1. PICK i \in 1..Len(closing) : closing[i] = <<d, "flush">>
      BY <2>5
    <3>2. i # 1
      BY <1>5, <2>1, <3>1
    <3>3. i - 1 \in 1..Len(closing') /\ closing'[i - 1] = <<d, "flush">>
      BY <1>3, <3>1, <3>2
    <3>. QED BY <3>3 DEF Armed
  <2>. QED BY <2>1, <2>2, <2>3, <2>4, <2>5 DEF Armed
<1>10. Flushed'
  BY <1>9 DEF Flushed
<1>. QED BY <1>1, <1>6, <1>7, <1>8, <1>10 DEF ChannelInv
-----------------------------------------------------------------------------
(* Changes not yet told *)

\* A step that tells the channels nothing new of what was untold.
LEMMA UntoldKept ==
  ASSUME NotifyTypes, Untold, KeepsTold, untold' \subseteq untold,
         \A f \in File, w \in Watcher :
           <<"stale", f>> \in untold' /\ HasToTell(watcher[w], f) =>
             \/ HeldIn("stale", f, flight)'
             \/ \E v \in Watcher : HasToTell(watcher'[v], f)
  PROVE  Untold'
<1>1. ASSUME NEW u \in untold'
      PROVE  \/ HeldIn(u[1], u[2], flight)'
             \/ u[1] = "stale" /\ \E w \in Watcher : HasToTell(watcher'[w], u[2])
  <2>1. u \in untold /\ u[1] \in {"diagnostics", "stale"} /\ u[2] \in File /\ u = <<u[1], u[2]>>
    BY DEF NotifyTypes
  <2>2. CASE HeldIn(u[1], u[2], flight)
    BY <2>1, <2>2 DEF KeepsTold
  <2>3. CASE u[1] = "stale" /\ \E w \in Watcher : HasToTell(watcher[w], u[2])
    BY <2>1, <2>3
  <2>. QED BY <2>1, <2>2, <2>3 DEF Untold
<1>. QED BY <1>1 DEF Untold

\* Steps of the channels.
LEMMA NotifySteps ==
  ASSUME ChannelInv, Untold, NotifyNext, UNCHANGED refVars
  PROVE  ChannelInv' /\ Untold'
<1>0. watcher' = watcher
  BY DEF refVars
<1>1. ASSUME NEW f \in File, NEW n \in 0..MaxErrors, Publish(f, n) PROVE ChannelInv' /\ Untold'
  <2>1. ChannelInv' /\ Keeps /\ (\A u \in untold' \ untold : HeldIn(u[1], u[2], flight)')
    BY <1>1, PublishStep
  <2>2. ASSUME NEW u \in untold' \cap untold
        PROVE  HeldIn(u[1], u[2], flight)' \/ (u[1] = "stale" /\ \E w \in Watcher : HasToTell(watcher'[w], u[2]))
    <3>1. u[1] \in Channel /\ u[2] \in File
      BY DEF ChannelInv, NotifyTypes, Channel
    <3>. QED BY <1>0, <2>1, <3>1 DEF Untold, Keeps
  <2>3. Untold'
    BY <2>1, <2>2 DEF Untold
  <2>. QED BY <2>1, <2>3
<1>2. CASE \/ \E x \in calls : OnDiagnostic(x)
           \/ \E c \in Channel : TimerFires(c) \/ Flush(c)
           \/ Close \/ Stop
  <2>1. ChannelInv' /\ (Keeps \/ KeepsTold) /\ untold' = untold
    BY <1>2, CallbackStep, TimerStep, FlushStep, CloseStep, StopStep
  <2>2. KeepsTold
    BY <2>1 DEF Keeps, KeepsTold, Channel
  <2>. QED BY <1>0, <2>1, <2>2, UntoldKept DEF ChannelInv
<1>3. ASSUME NEW x \in flight, Send(x) PROVE ChannelInv' /\ Untold'
  <2>1. ChannelInv' /\ \A u \in untold' : u \in untold /\ (HeldIn(u[1], u[2], flight) => HeldIn(u[1], u[2], flight)')
    BY <1>3, SendStep
  <2>2. Untold'
    BY <1>0, <2>1 DEF Untold
  <2>. QED BY <2>1, <2>2
<1>. QED BY <1>1, <1>2, <1>3 DEF NotifyNext

\* Steps that leave the channels and the goroutines alone.
LEMMA OtherUntold ==
  ASSUME ChannelInv, Untold, (\E q \in Query : QueryStep(q)) \/ ExportArtifact \/ ImportArtifact
  PROVE  ChannelInv' /\ Untold'
<1>1. UNCHANGED <<watcher, pending, timer, firing, flight, calls, subscribed, closing, untold>>
  BY DEF QueryStep, Get, Lookup, Ask, Answered, PutHash, PutStore, Hit, QueryFrame, notifyVars, HubFrame,
         ExportArtifact, ImportArtifact, MoveFrame
<1>2. ChannelInv' /\ KeepsTold
  BY <1>1, Frame DEF ChannelInv, NotifyTypes, Keeps, KeepsTold, Channel
<1>. QED BY <1>1, <1>2, UntoldKept DEF ChannelInv

LEMMA WriteUntold ==
  ASSUME CacheTypes, ChannelInv, Untold, NEW f \in File, NEW t \in Text, Write(f, t)
  PROVE  ChannelInv' /\ Untold'
<1>1. /\ UNCHANGED <<pending, timer, firing, flight, calls, subscribed, closing>>
      /\ watcher' = [w \in Watcher |-> IF watcher[w].state = "none" THEN watcher[w]
                                       ELSE [watcher[w] EXCEPT !.events = @ \cup {f}]]
      /\ IF Running # {} THEN untold' = untold \cup {<<"stale", f>>} ELSE untold' = untold
  BY DEF Write, HubFrame
<1>2. ChannelInv' /\ KeepsTold
  BY <1>1, Frame DEF ChannelInv, NotifyTypes, Keeps, KeepsTold, Channel
<1>3. ASSUME NEW w \in Watcher, watcher[w].state = "run"
      PROVE  \A g \in File : g = f \/ HasToTell(watcher[w], g) => HasToTell(watcher'[w], g)
  <2>1. PICK r : r = [watcher[w] EXCEPT !.events = @ \cup {f}]
    OBVIOUS
  <2>2. /\ r.state = "run" /\ r.events = watcher[w].events \cup {f} /\ r.batch = watcher[w].batch
        /\ r.step = watcher[w].step /\ r.pending = watcher[w].pending /\ watcher'[w] = r
    BY <1>1, <1>3, <2>1 DEF CacheTypes, WatcherRecord
  <2>. QED BY <2>2 DEF HasToTell
<1>4. ASSUME NEW u \in untold'
      PROVE  \/ HeldIn(u[1], u[2], flight)'
             \/ u[1] = "stale" /\ \E w \in Watcher : HasToTell(watcher'[w], u[2])
  <2>1. CASE u \in untold
    <3>1. u[1] \in {"diagnostics", "stale"} /\ u[2] \in File
      BY <2>1 DEF ChannelInv, NotifyTypes
    <3>2. CASE HeldIn(u[1], u[2], flight)
      BY <1>2, <3>1, <3>2 DEF KeepsTold
    <3>3. CASE u[1] = "stale" /\ \E w \in Watcher : HasToTell(watcher[w], u[2])
      BY <1>3, <3>1, <3>3 DEF HasToTell
    <3>. QED BY <2>1, <3>2, <3>3 DEF Untold
  <2>2. CASE u \notin untold
    <3>1. u = <<"stale", f>> /\ Running # {}
      BY <1>1, <2>2
    <3>2. PICK w \in Watcher : watcher[w].state = "run"
      BY <3>1 DEF Running
    <3>. QED BY <1>3, <3>1, <3>2
  <2>. QED BY <2>1, <2>2
<1>. QED BY <1>2, <1>4 DEF Untold

\* The hub's variables stay, and what was untold stays or is dropped.
LEMMA HubStays ==
  ASSUME ChannelInv, UNCHANGED <<pending, timer, firing, flight, calls, subscribed, closing>>,
         untold' \in {untold, {u \in untold : u[1] # "stale"}}
  PROVE  ChannelInv' /\ KeepsTold
<1>1. untold' \subseteq {"diagnostics", "stale"} \X File
  BY DEF ChannelInv, NotifyTypes
<1>. QED BY <1>1, Frame DEF Keeps, KeepsTold, Channel

LEMMA RecordStep ==
  ASSUME CacheTypes, ChannelInv, NEW w \in Watcher, RecordChange(w)
  PROVE  /\ ChannelInv' /\ KeepsTold /\ untold' = untold
         /\ \A f \in watcher[w].batch : HeldIn("stale", f, flight)'
<1>0. /\ UNCHANGED <<firing, flight, calls, subscribed, closing, untold>> /\ timer' = timer \cup {"stale"}
      /\ pending' = [pending EXCEPT !["stale"] = @ \cup {Changed(f) : f \in watcher[w].batch}]
      /\ watcher[w].batch \subseteq File
  BY DEF RecordChange, OnFileChange, CacheTypes, WatcherRecord
<1>1. \A f \in watcher[w].batch : Changed(f) \in Item /\ Changed(f).file = f
  BY <1>0, Changes
<1>2. /\ pending' \in [Channel -> SUBSET Item]
      /\ pending'["stale"] = pending["stale"] \cup {Changed(f) : f \in watcher[w].batch}
      /\ \A c \in Channel : pending[c] \subseteq pending'[c] /\ (c # "stale" => pending'[c] = pending[c])
  BY <1>0, <1>1 DEF ChannelInv, NotifyTypes, Channel
<1>3. NotifyTypes'
  BY <1>0, <1>2 DEF ChannelInv, NotifyTypes, Channel
<1>4. Flushed' /\ StopsFlush'
  BY <1>0, <1>2 DEF ChannelInv, Flushed, Armed, StopsFlush
<1>5. ASSUME NEW c \in Channel, NEW f \in File, HeldIn(c, f, flight) PROVE HeldIn(c, f, flight)'
  <2>1. CASE f \in {i.file : i \in pending[c]}
    BY <1>2, <2>1 DEF HeldIn
  <2>2. CASE ~(f \in {i.file : i \in pending[c]})
    BY <1>0, <1>5, <2>2 DEF HeldIn
  <2>. QED BY <2>1, <2>2
<1>6. ASSUME NEW f \in watcher[w].batch PROVE HeldIn("stale", f, flight)'
  <2>1. Changed(f) \in pending'["stale"] /\ Changed(f).file = f
    BY <1>1, <1>2
  <2>. QED BY <2>1 DEF HeldIn
<1>7. KeepsTold
  BY <1>5 DEF KeepsTold, Channel
<1>. QED BY <1>0, <1>3, <1>4, <1>6, <1>7 DEF ChannelInv

\* A goroutine goes on to r and has still to tell what it had, but for what it has
\* recorded or what is untold no more.
LEMMA TellsOn ==
  ASSUME CacheTypes, NotifyTypes, Untold, KeepsTold, untold' \subseteq untold,
         NEW w \in Watcher, NEW r, Watch(w, r),
         \A f \in File : <<"stale", f>> \in untold' /\ HasToTell(watcher[w], f) =>
                            HeldIn("stale", f, flight)' \/ HasToTell(r, f)
  PROVE  Untold'
<1>1. watcher'[w] = r /\ \A v \in Watcher : v # w => watcher'[v] = watcher[v]
  BY DEF Watch, CacheTypes
<1>2. ASSUME NEW f \in File, NEW v \in Watcher, <<"stale", f>> \in untold', HasToTell(watcher[v], f)
      PROVE  HeldIn("stale", f, flight)' \/ \E x \in Watcher : HasToTell(watcher'[x], f)
  <2>1. CASE v = w
    BY <1>1, <1>2, <2>1
  <2>2. CASE v # w
    BY <1>1, <1>2, <2>2
  <2>. QED BY <2>1, <2>2
<1>. QED BY <1>2, UntoldKept

LEMMA WatcherUntold ==
  ASSUME CacheTypes, ChannelInv, Untold, Listeners, NEW w \in Watcher, WatcherStep(w)
  PROVE  ChannelInv' /\ Untold'
<1>. DEFINE o == watcher[w]
<1>0. o \in WatcherRecord /\ NotifyTypes /\ WatcherOf(o)
  BY DEF CacheTypes, ChannelInv, Listeners
<1>. HIDE DEF o
<1>1. ASSUME NEW f \in File, Event(w, f) PROVE ChannelInv' /\ Untold'
  <2>1. ChannelInv' /\ KeepsTold /\ untold' = untold
    BY <1>1, HubStays DEF Event, notifyVars
  <2>2. PICK r : r = [o EXCEPT !.events = @ \ {f}, !.pending = @ \cup {f}, !.timer = TRUE]
    OBVIOUS
  <2>3. /\ r.state = o.state /\ r.step = o.step /\ r.batch = o.batch
        /\ r.events = o.events \ {f} /\ r.pending = o.pending \cup {f} /\ Watch(w, r)
    BY <1>0, <1>1, <2>2 DEF WatcherRecord, Event, o
  <2>4. \A g \in File : HasToTell(o, g) => HasToTell(r, g)
    BY <2>3 DEF HasToTell
  <2>. QED BY <1>0, <2>1, <2>3, <2>4, TellsOn DEF o
<1>2. ASSUME FlushBatch(w) PROVE ChannelInv' /\ Untold'
  <2>1. ChannelInv' /\ KeepsTold /\ untold' = untold
    BY <1>2, HubStays DEF FlushBatch, notifyVars
  <2>2. PICK r : r = [o EXCEPT !.timer = FALSE, !.batch = o.pending, !.pending = {}, !.step = "server"]
    OBVIOUS
  <2>3. /\ r.state = o.state /\ r.step = "server" /\ r.batch = o.pending /\ o.step = "loop"
        /\ r.events = o.events /\ r.pending = {} /\ Watch(w, r)
    BY <1>0, <1>2, <2>2 DEF WatcherRecord, FlushBatch, o
  <2>4. \A g \in File : HasToTell(o, g) => HasToTell(r, g)
    BY <2>3 DEF HasToTell
  <2>. QED BY <1>0, <2>1, <2>3, <2>4, TellsOn DEF o
<1>3. ASSUME NEW s \in {"hub", "record", "cache"}, Watch(w, [o EXCEPT !.step = s])
      PROVE  \E r : /\ Watch(w, r) /\ r.state = o.state /\ r.events = o.events /\ r.pending = o.pending
                    /\ r.batch = o.batch /\ r.step = s
  <2>1. PICK r : r = [o EXCEPT !.step = s]
    OBVIOUS
  <2>2. /\ r.state = o.state /\ r.events = o.events /\ r.pending = o.pending
        /\ r.batch = o.batch /\ r.step = s
    BY <1>0, <2>1 DEF WatcherRecord
  <2>. QED BY <1>3, <2>1, <2>2
<1>4. ASSUME TellServer(w) PROVE ChannelInv' /\ Untold'
  <2>1. ChannelInv' /\ KeepsTold /\ untold' = untold
    BY <1>4, HubStays DEF TellServer, notifyVars
  <2>2. PICK r : /\ Watch(w, r) /\ r.state = o.state /\ r.events = o.events /\ r.pending = o.pending
                 /\ r.batch = o.batch /\ r.step = "hub"
    BY <1>3, <1>4 DEF TellServer, o
  <2>3. \A g \in File : HasToTell(o, g) => HasToTell(r, g)
    BY <2>2 DEF HasToTell
  <2>. QED BY <1>0, <2>1, <2>2, <2>3, TellsOn DEF o
<1>5. ASSUME TellHub(w) PROVE ChannelInv' /\ Untold'
  <2>0. /\ UNCHANGED <<pending, timer, firing, flight, calls, subscribed, closing>>
        /\ untold' = IF "stale" \in subscribed THEN untold ELSE {u \in untold : u[1] # "stale"}
    BY <1>5 DEF TellHub, HubFrame
  <2>1. ChannelInv' /\ KeepsTold /\ untold' \subseteq untold
    BY <2>0, HubStays
  <2>2. PICK r : /\ Watch(w, r) /\ r.state = o.state /\ r.events = o.events /\ r.pending = o.pending
                 /\ r.batch = o.batch
                 /\ r.step = IF "stale" \in subscribed /\ o.batch # {} THEN "record" ELSE "cache"
    BY <1>3, <1>5 DEF TellHub, o
  <2>3. \A g \in File : <<"stale", g>> \in untold' /\ HasToTell(o, g) => HasToTell(r, g)
    BY <2>0, <2>2 DEF HasToTell
  <2>. QED BY <1>0, <2>1, <2>2, <2>3, TellsOn DEF o
<1>6. ASSUME RecordChange(w) PROVE ChannelInv' /\ Untold'
  <2>1. ChannelInv' /\ KeepsTold /\ untold' = untold /\ (\A f \in o.batch : HeldIn("stale", f, flight)')
    BY <1>6, RecordStep DEF o
  <2>2. PICK r : /\ Watch(w, r) /\ r.state = o.state /\ r.events = o.events /\ r.pending = o.pending
                 /\ r.batch = o.batch /\ r.step = "cache"
    BY <1>3, <1>6 DEF RecordChange, o
  <2>3. \A g \in File : HasToTell(o, g) => HasToTell(r, g) \/ g \in o.batch
    BY <2>2 DEF HasToTell
  <2>. QED BY <1>0, <2>1, <2>2, <2>3, TellsOn DEF o
<1>7. ASSUME Invalidate(w) PROVE ChannelInv' /\ Untold'
  <2>1. ChannelInv' /\ KeepsTold /\ untold' = untold
    BY <1>7, HubStays DEF Invalidate, notifyVars
  <2>2. CASE o.state = "stop"
    <3>1. Watch(w, NoWatcher)
      BY <1>7, <2>2 DEF Invalidate, o
    <3>2. \A g \in File : ~HasToTell(o, g)
      BY <2>2 DEF HasToTell
    <3>. QED BY <1>0, <2>1, <3>1, <3>2, TellsOn DEF o
  <2>3. CASE o.state # "stop"
    <3>1. PICK r : r = [o EXCEPT !.batch = {}, !.step = "loop"]
      OBVIOUS
    <3>2. /\ r.state = o.state /\ r.events = o.events /\ r.pending = o.pending /\ Watch(w, r) /\ o.step = "cache"
      BY <1>0, <1>7, <2>3, <3>1 DEF WatcherRecord, Invalidate, o
    <3>3. \A g \in File : HasToTell(o, g) => HasToTell(r, g)
      BY <3>2 DEF HasToTell
    <3>. QED BY <1>0, <2>1, <3>2, <3>3, TellsOn DEF o
  <2>. QED BY <2>2, <2>3
<1>8. ASSUME InvalidatePanics(w) \/ TooManyFiles(w) PROVE ChannelInv' /\ Untold'
  <2>1. /\ UNCHANGED <<pending, timer, firing, flight, calls, subscribed, closing>>
        /\ untold' = {u \in untold : u[1] # "stale"}
    BY <1>8 DEF InvalidatePanics, TooManyFiles, Ending, HubFrame
  <2>2. ChannelInv' /\ KeepsTold
    BY <2>1, HubStays
  <2>. QED BY <1>0, <2>1, <2>2, UntoldKept
<1>. QED BY <1>1, <1>2, <1>4, <1>5, <1>6, <1>7, <1>8 DEF WatcherStep

LEMMA RestartUntold ==
  ASSUME CacheTypes, ChannelInv, Untold, Listeners, Shutdown \/ Initialize
  PROVE  ChannelInv' /\ Untold'
<1>0. NotifyTypes
  BY DEF ChannelInv
<1>1. CASE Shutdown
  <2>1. /\ UNCHANGED <<pending, timer, firing, flight, calls, subscribed, closing>>
        /\ \/ untold' = {u \in untold : u[1] # "stale"}
           \/ watcher' = watcher /\ untold' = untold
    BY <1>1 DEF Shutdown, Ending, HubFrame
  <2>2. ChannelInv' /\ KeepsTold
    BY <2>1, HubStays
  <2>. QED BY <1>0, <2>1, <2>2, UntoldKept
<1>2. CASE Initialize
  <2>1. UNCHANGED <<pending, timer, firing, flight, calls, subscribed, closing, untold>>
    BY <1>2 DEF Initialize, notifyVars
  <2>2. ChannelInv' /\ KeepsTold
    BY <2>1, HubStays
  <2>3. PICK w \in Watcher : watcher[w].state = "none" /\ Watch(w, Listening)
    BY <1>2 DEF Initialize
  <2>4. \A f \in File : ~HasToTell(watcher[w], f)
    BY <2>3 DEF HasToTell
  <2>. QED BY <1>0, <2>1, <2>2, <2>3, <2>4, TellsOn
<1>. QED BY <1>1, <1>2
-----------------------------------------------------------------------------
(* The theorems *)

LEMMA InitRef == Init => RefInv
<1>. SUFFICES ASSUME Init PROVE RefInv
  OBVIOUS
<1>1. PICK t \in Text : disk = [f \in File |-> t]
  BY DEF Init
<1>2. ASSUME NEW f \in File
      PROVE  /\ row[f] \in Row \cup {NoRow} /\ Matches(row[f])
             /\ f \in missed \/ row[f] = NoRow \/ row[f].own = disk[f]
  <2>1. row[f] \in {NoRow} \cup {[hash |-> x, own |-> x, clean |-> TRUE] : x \in Text}
    BY DEF Init, OldRow
  <2>2. f \in missed \/ row[f] = NoRow \/ row[f].own = disk[f]
    BY DEF Init
  <2>3. CASE row[f] = NoRow
    BY <2>2, <2>3 DEF Matches
  <2>4. CASE row[f] # NoRow
    <3>1. PICK x \in Text : row[f] = [hash |-> x, own |-> x, clean |-> TRUE]
      BY <2>1, <2>4
    <3>2. row[f] \in Row /\ row[f].own = row[f].hash
      BY <3>1 DEF Row
    <3>. QED BY <2>2, <3>2 DEF Matches
  <2>. QED BY <2>3, <2>4
<1>3. Listening \in WatcherRecord /\ NoWatcher \in WatcherRecord /\ NoQuery \in QueryRecord
  BY DEF Listening, NoWatcher, NoQuery, WatcherRecord, QueryRecord, QueryPCs, Steps
<1>4. CacheTypes
  <2>1. row \in [File -> Row \cup {NoRow}] /\ artifact \in [File -> Row \cup {NoRow}]
    BY <1>2 DEF Init
  <2>2. query \in [Query -> QueryRecord] /\ watcher \in [Watcher -> WatcherRecord]
    BY <1>3 DEF Init
  <2>. QED BY <1>1, <2>1, <2>2, WatcherAssumption DEF Init, CacheTypes
<1>5. RowsMatch
  BY <1>2 DEF RowsMatch, Init, Matches
<1>6. Queries
  BY DEF Queries, QueryOf, Init, NoQuery
<1>7. Listeners
  <2>1. \A w \in Watcher : watcher[w] = IF w = 1 THEN Listening ELSE NoWatcher
    BY DEF Init
  <2>2. /\ Listening.state = "run" /\ NoWatcher.state = "none" /\ WatcherOf(Listening) /\ WatcherOf(NoWatcher)
    BY DEF Listening, NoWatcher, WatcherOf
  <2>3. current = 1 /\ db = "open" /\ 1 \in Watcher
    BY WatcherAssumption DEF Init
  <2>. QED BY <2>1, <2>2, <2>3 DEF Listeners
<1>8. QuietCacheIsCurrent
  BY <1>2 DEF QuietCacheIsCurrent
<1>9. NotifyTypes
  BY DEF Init, NotifyInit, NotifyTypes
<1>10. Untold /\ Flushed /\ StopsFlush
  BY DEF Init, NotifyInit, Untold, Flushed, StopsFlush
<1>. QED BY <1>4, <1>5, <1>6, <1>7, <1>8, <1>9, <1>10 DEF RefInv

LEMMA NextRef == RefInv /\ [Next]_vars => RefInv'
<1>. SUFFICES ASSUME RefInv, [Next]_vars PROVE RefInv'
  OBVIOUS
<1>. USE DEF RefInv, ChannelInv
<1>1. ASSUME NEW f \in File, NEW t \in Text, Write(f, t) PROVE RefInv'
  BY <1>1, WriteStep, WriteListeners, WriteUntold
<1>2. ASSUME NEW q \in Query, QueryStep(q) PROVE RefInv'
  BY <1>2, QuerySteps, QueryListeners, OtherUntold
<1>3. ASSUME ExportArtifact \/ ImportArtifact PROVE RefInv'
  BY <1>3, MoveSteps, MoveListeners, OtherUntold
<1>4. ASSUME NEW w \in Watcher, WatcherStep(w) PROVE RefInv'
  BY <1>4, WatcherSteps, WatcherListeners, WatcherUntold
<1>5. ASSUME Shutdown \/ Initialize PROVE RefInv'
  BY <1>5, RestartSteps, RestartListeners, RestartUntold
<1>6. ASSUME UNCHANGED refVars PROVE CacheTypes' /\ RowsMatch' /\ Queries' /\ Listeners' /\ QuietCacheIsCurrent'
  BY <1>6 DEF refVars, CacheTypes, RowsMatch, Queries, Listeners, QuietCacheIsCurrent, Quiet
<1>7. ASSUME NotifyNext, UNCHANGED refVars PROVE RefInv'
  BY <1>6, <1>7, NotifySteps
<1>8. ASSUME UNCHANGED vars PROVE RefInv'
  <2>1. UNCHANGED <<refVars, watcher, pending, timer, firing, flight, calls, subscribed, closing, untold>>
    BY <1>8 DEF vars, refVars, notifyVars
  <2>2. ChannelInv' /\ KeepsTold
    BY <2>1, HubStays
  <2>3. Untold'
    BY <2>1, <2>2, UntoldKept
  <2>. QED BY <1>6, <2>1, <2>2, <2>3
<1>. QED BY <1>1, <1>2, <1>3, <1>4, <1>5, <1>7, <1>8 DEF Next, QueryStep, WatcherStep

\* The inductive invariant, for every value of the constants.
THEOREM ReferencesInvariant == Spec => []RefInv
BY InitRef, NextRef, PTL DEF Spec

\* The shape of the state, and never two goroutines that listen: a restart starts
\* one only after Shutdown told the one before it to stop (client.go:3467-3471).
THEOREM ReferencesTypeCorrect == Spec => []TypeOK
<1>1. RefInv => TypeOK
  <2>. SUFFICES ASSUME RefInv PROVE TypeOK
    OBVIOUS
  <2>1. Running \subseteq {current}
    BY DEF RefInv, Listeners, Running
  <2>2. Cardinality(Running) <= 1
    <3>1. IsFiniteSet({current}) /\ Cardinality({current}) = 1
      BY FS_Singleton
    <3>. QED BY <2>1, <3>1, FS_Subset
  <2>. QED BY <2>2 DEF RefInv, CacheTypes, NotifyTypes, TypeOK
<1>. QED BY <1>1, ReferencesInvariant, PTL

\* A hit of the cache is of the contents the query hashed, for any number of queries,
\* files, watchers, exports and imports (cache.go:105-119, 140-152).
THEOREM HitsAreOfTheFile == Spec => []HitsMatchTheFile
<1>1. RefInv => HitsMatchTheFile
  <2>. SUFFICES ASSUME RefInv, NEW q \in Query, query[q].pc = "hit", query[q].answer.clean
                PROVE  query[q].answer.own = query[q].hash
    BY DEF HitsMatchTheFile
  <2>1. /\ query[q].answer \in Row /\ query[q].hash = query[q].answer.hash
        /\ Matches(query[q].answer)
    BY DEF RefInv, Queries, QueryOf
  <2>2. query[q].answer # NoRow
    BY <2>1, NoRowAssumption
  <2>. QED BY <2>1, <2>2 DEF Matches
<1>. QED BY <1>1, ReferencesInvariant, PTL

\* Once the watcher is quiet about a file, no row fetched before its last write is
\* left of it, for any number of files, queries and goroutines (client.go:3536-3546).
THEOREM QuietRowsAreCurrent == Spec => []QuietCacheIsCurrent
<1>1. RefInv => QuietCacheIsCurrent
  BY DEF RefInv
<1>. QED BY <1>1, ReferencesInvariant, PTL

\* No change is lost between the watcher or the read loop and the client, whatever
\* order timers, new items and Close come in (stale.go:44-60, diagnostics.go:49-87).
THEOREM ChangesAreTold == Spec => []NothingUntold
<1>1. RefInv => NothingUntold
  <2>. SUFFICES ASSUME RefInv, NEW u \in untold, ~HeldIn(u[1], u[2], flight)
                PROVE  u[1] = "stale" /\ ~Quiet(u[2])
    BY DEF NothingUntold, RefInv, Flushed
  <2>1. u[1] = "stale" /\ \E w \in Watcher : HasToTell(watcher[w], u[2])
    BY DEF RefInv, Untold
  <2>. QED BY <2>1 DEF HasToTell, Quiet
<1>. QED BY <1>1, ReferencesInvariant, PTL
=============================================================================
