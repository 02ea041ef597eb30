------------------------------ MODULE References ------------------------------
(* Reference queries through the persistent cache, and the file watcher that keeps
   the cache, the language server and the client up to date (internal/lsp/cache.go,
   cache_artifact.go, the watcher of client.go, queryReferencesParallel).

   A row of the cache is the answer for a symbol of one file, stored with the hash
   of that file.  The answer also depends on other files.  Writes to files come from
   outside; the watcher learns of them through events, collects them for a while,
   and then tells the server, the notification hub and the cache, in this order. *)
EXTENDS Notify, FiniteSets

CONSTANTS Text,       \* contents of a file; its hash is its content
          Query,      \* concurrent reference queries
          Watcher,    \* watcher goroutines, one per start of the server
          NoRow

\* the hash stored, the contents the answer was computed from, and whether the file
\* was left alone while the answer was fetched
Row == [hash : Text, own : Text, clean : BOOLEAN]

ASSUME NoRowAssumption == NoRow \notin Text \cup Row
ASSUME WatcherAssumption == 1 \in Watcher /\ 0 \notin Watcher

VARIABLES disk,    \* contents of the files
          view,    \* the server: contents it answers from
          row,     \* the cache: rows by the file of the symbol
          db,      \* the connection: "open", "closed", or "nil" after a failed import
          query,   \* what each query is doing
          watcher, \* what each watcher goroutine is doing
          current, \* the watcher whose stop channel the client holds, 0 when none
          artifact, \* an exported cache
          missed   \* history: files written while no watcher listened

refVars == <<disk, view, row, db, query, watcher, current, artifact, missed>>
vars == <<refVars, notifyVars>>
-----------------------------------------------------------------------------
NoWatcher == [state |-> "none", events |-> {}, pending |-> {}, timer |-> FALSE, batch |-> {}, step |-> "loop"]
Listening == [NoWatcher EXCEPT !.state = "run"]
NoQuery == [pc |-> "idle", file |-> NoRow, hash |-> NoRow, answer |-> NoRow, touched |-> FALSE]


HubFrame == UNCHANGED <<pending, timer, firing, flight, calls, prev, subscribed, closing, closed, errors>>

\* The database outlives the program: rows of earlier runs may be there, and may be
\* of files written since.
OldRow == {NoRow} \cup {[hash |-> t, own |-> t, clean |-> TRUE] : t \in Text}

Init ==
  /\ NotifyInit
  /\ \E t \in Text : disk = [f \in File |-> t]
  /\ view = disk /\ db = "open" /\ row \in [File -> OldRow]
  /\ missed = {f \in File : row[f] # NoRow /\ row[f].own # disk[f]}
  /\ query = [q \in Query |-> NoQuery]
  /\ watcher = [w \in Watcher |-> IF w = 1 THEN Listening ELSE NoWatcher] /\ current = 1
  /\ artifact = [f \in File |-> NoRow]

Running == {w \in Watcher : watcher[w].state = "run"}

\* Somebody writes a file: every open fsnotify watcher queues an event.
Write(f, t) ==
  /\ Outside /\ t # disk[f]
  /\ disk' = [disk EXCEPT ![f] = t]
  /\ watcher' = [w \in Watcher |-> IF watcher[w].state = "none" THEN watcher[w]
                                   ELSE [watcher[w] EXCEPT !.events = @ \cup {f}]]
  /\ query' = [q \in Query |-> IF query[q].pc \in {"asked", "hash", "store"} /\ query[q].file = f
                                 THEN [query[q] EXCEPT !.touched = TRUE] ELSE query[q]]
  /\ IF Running # {} THEN untold' = untold \cup {<<"stale", f>>} /\ UNCHANGED missed
     ELSE missed' = missed \cup {f} /\ UNCHANGED untold
  /\ UNCHANGED <<view, row, db, current, artifact>> /\ HubFrame
-----------------------------------------------------------------------------
(* SymbolRefCache and queryReferencesParallel *)

Go(q, rec) == query' = [query EXCEPT ![q] = rec]
QueryFrame == UNCHANGED <<disk, watcher, current, artifact, missed, notifyVars>>

\* Get hashes the file before it takes the cache's mutex.
Get(q, f) ==
  /\ query[q].pc = "idle" /\ Outside
  /\ Go(q, [NoQuery EXCEPT !.pc = "lookup", !.file = f, !.hash = disk[f]])
  /\ UNCHANGED <<disk, view, row, db, watcher, current, artifact, missed, untold>> /\ HubFrame

\* mutant
LookupUnchecked(q) ==
  LET f == query[q].file IN
  /\ query[q].pc = "lookup" /\ db # "nil"
  /\ IF db = "open" /\ row[f] # NoRow
     THEN Go(q, [query[q] EXCEPT !.pc = "hit", !.answer = row[f]])
     ELSE Go(q, [query[q] EXCEPT !.pc = "ask", !.hash = NoRow, !.touched = FALSE])
  /\ UNCHANGED <<view, db, row>> /\ QueryFrame

\* Under the mutex: a row with another hash is evicted.  A closed database is a miss.
\* (With no database, after a failed import, the call panics: no step.)
Lookup(q) ==
  LET f == query[q].file
      found == db = "open" /\ row[f] # NoRow
      valid == found /\ row[f].hash = query[q].hash IN
  /\ query[q].pc = "lookup" /\ db # "nil"
  /\ \/ /\ valid
        /\ Go(q, [query[q] EXCEPT !.pc = "hit", !.answer = row[f]]) /\ UNCHANGED row
     \/ /\ ~valid
        /\ row' = IF found THEN [row EXCEPT ![f] = NoRow] ELSE row
        /\ Go(q, [query[q] EXCEPT !.pc = "ask", !.hash = NoRow, !.touched = FALSE])
  /\ UNCHANGED <<view, db>> /\ QueryFrame

\* WithDocument reads the file and opens it at the server.
Ask(q) ==
  LET f == query[q].file IN
  /\ query[q].pc = "ask" /\ view' = [view EXCEPT ![f] = disk[f]]
  /\ Go(q, [query[q] EXCEPT !.pc = "asked"])
  /\ UNCHANGED <<row, db>> /\ QueryFrame

\* The server answers, or the query times out and nothing is stored.
Answered(q) ==
  /\ query[q].pc = "asked"
  /\ \/ Go(q, [query[q] EXCEPT !.pc = "hash", !.answer = view[query[q].file]])
     \/ Go(q, NoQuery)
  /\ UNCHANGED <<view, row, db>> /\ QueryFrame

\* Put hashes the file again, then stores the row under the mutex.
PutHash(q) ==
  /\ query[q].pc = "hash"
  /\ Go(q, [query[q] EXCEPT !.pc = "store", !.hash = disk[query[q].file]])
  /\ UNCHANGED <<view, row, db>> /\ QueryFrame
PutStore(q) ==
  /\ query[q].pc = "store" /\ db # "nil"
  /\ row' = IF db = "open"
            THEN [row EXCEPT ![query[q].file] = [hash |-> query[q].hash, own |-> query[q].answer,
                                                 clean |-> ~query[q].touched]]
            ELSE row
  /\ Go(q, NoQuery) /\ UNCHANGED <<view, db>> /\ QueryFrame

\* The query returns the row it found.
Hit(q) == query[q].pc = "hit" /\ Go(q, NoQuery) /\ UNCHANGED <<view, row, db>> /\ QueryFrame

\* ExportArtifact and ImportArtifact, under the mutex.  An import that cannot
\* rename the new file over the database leaves the cache without a connection,
\* until another import succeeds.
MoveFrame == Outside /\ UNCHANGED <<disk, view, query, watcher, current, untold>> /\ HubFrame
ExportArtifact == db = "open" /\ artifact' = row /\ UNCHANGED <<row, db, missed>> /\ MoveFrame
ImportArtifact ==
  /\ db # "closed" /\ missed' = File /\ UNCHANGED artifact /\ MoveFrame
  /\ \/ row' = artifact /\ db' = "open"
     \/ db' = "nil" /\ UNCHANGED row
-----------------------------------------------------------------------------
(* The watcher goroutine *)

Watch(w, rec) == watcher' = [watcher EXCEPT ![w] = rec]
WatchFrame == UNCHANGED <<disk, query, current, artifact, missed>>

\* An event is added to the batch and the timer starts anew.
Event(w, f) ==
  /\ watcher[w].state \in {"run", "stop"} /\ watcher[w].step = "loop" /\ f \in watcher[w].events
  /\ Watch(w, [watcher[w] EXCEPT !.events = @ \ {f}, !.pending = @ \cup {f}, !.timer = TRUE])
  /\ WatchFrame /\ UNCHANGED <<view, row, db, notifyVars>>

\* The timer fires, or the goroutine is told to stop: the batch is flushed.
FlushBatch(w) ==
  /\ watcher[w].step = "loop"
  /\ \/ watcher[w].state = "run" /\ watcher[w].timer
     \/ watcher[w].state = "stop"
  /\ Watch(w, [watcher[w] EXCEPT !.timer = FALSE, !.batch = watcher[w].pending, !.pending = {}, !.step = "server"])
  /\ WatchFrame /\ UNCHANGED <<view, row, db, notifyVars>>

\* didChangeWatchedFiles: the server reads the files again.
TellServer(w) ==
  /\ watcher[w].step = "server"
  /\ view' = [f \in File |-> IF f \in watcher[w].batch THEN disk[f] ELSE view[f]]
  /\ Watch(w, [watcher[w] EXCEPT !.step = "hub"])
  /\ WatchFrame /\ UNCHANGED <<row, db, notifyVars>>

\* The file-change callback: OnFileChange checks `stopped`, then records.
TellHub(w) ==
  /\ watcher[w].step = "hub"
  /\ Watch(w, [watcher[w] EXCEPT !.step = IF "stale" \in subscribed /\ watcher[w].batch # {} THEN "record" ELSE "cache"])
  /\ untold' = IF "stale" \in subscribed THEN untold ELSE {u \in untold : u[1] # "stale"}
  /\ WatchFrame /\ UNCHANGED <<view, row, db, events>> /\ HubFrame
RecordChange(w) ==
  /\ watcher[w].step = "record" /\ OnFileChange(watcher[w].batch)
  /\ Watch(w, [watcher[w] EXCEPT !.step = "cache"])
  /\ WatchFrame /\ UNCHANGED <<view, row, db, firing, flight, calls, prev, subscribed, closing, closed,
                               errors, events, untold>>

\* mutant
InvalidateNothing(w) ==
  /\ watcher[w].step = "cache" /\ UNCHANGED row
  /\ Watch(w, IF watcher[w].state = "stop" THEN NoWatcher ELSE [watcher[w] EXCEPT !.batch = {}, !.step = "loop"])
  /\ WatchFrame /\ UNCHANGED <<view, db, notifyVars>>

\* InvalidateFile for every file of the batch; a goroutine told to stop ends.
Invalidate(w) ==
  /\ watcher[w].step = "cache" /\ (db # "nil" \/ watcher[w].batch = {})
  /\ row' = [f \in File |-> IF db = "open" /\ f \in watcher[w].batch THEN NoRow ELSE row[f]]
  /\ Watch(w, IF watcher[w].state = "stop" THEN NoWatcher ELSE [watcher[w] EXCEPT !.batch = {}, !.step = "loop"])
  /\ WatchFrame /\ UNCHANGED <<view, db, notifyVars>>

\* Without a database InvalidateFile panics: recovered, but the watcher is gone.
InvalidatePanics(w) ==
  /\ watcher[w].step = "cache" /\ db = "nil" /\ watcher[w].batch # {}
  /\ Watch(w, NoWatcher) /\ missed' = File /\ untold' = {u \in untold : u[1] # "stale"}
  /\ UNCHANGED <<disk, view, row, db, query, current, artifact, events>> /\ HubFrame

\* A goroutine is told to stop: what it holds it flushes; events it has not read are lost.
Ending(w) == /\ Watch(w, [watcher[w] EXCEPT !.state = "stop"])
             /\ missed' = File /\ untold' = {u \in untold : u[1] # "stale"}

\* The process holds too many file descriptors: the watcher ends itself, and the
\* client still holds its stop channel.
TooManyFiles(w) ==
  /\ watcher[w].state = "run" /\ watcher[w].step = "loop" /\ Outside /\ Ending(w)
  /\ UNCHANGED <<disk, view, row, db, query, current, artifact>> /\ HubFrame

\* Shutdown closes the cache, then the watcher's stop channel.
Shutdown ==
  /\ current # 0 /\ db = "open" /\ Outside
  /\ db' = "closed" /\ current' = 0
  /\ IF watcher[current].state = "run" THEN Ending(current) ELSE UNCHANGED <<watcher, missed, untold>>
  /\ UNCHANGED <<disk, view, row, query, artifact>> /\ HubFrame

\* Initialize opens the database again, imports the exported cache when the database
\* is empty, and starts a new watcher; the server that starts reads the files anew.
Initialize ==
  /\ db = "closed" /\ db' = "open" /\ view' = disk
  /\ row' = IF \A f \in File : row[f] = NoRow THEN artifact ELSE row
  /\ \E w \in Watcher \ {1} : watcher[w].state = "none" /\ current' = w /\ Watch(w, Listening)
  /\ UNCHANGED <<disk, query, artifact, missed, notifyVars>>

Next ==
  \/ \E f \in File, t \in Text : Write(f, t)
  \/ \E q \in Query : \/ \E f \in File : Get(q, f)
                      \/ Lookup(q) \/ Ask(q) \/ Answered(q) \/ PutHash(q) \/ PutStore(q) \/ Hit(q)
  \/ ExportArtifact \/ ImportArtifact
  \/ \E w \in Watcher : \/ \E f \in File : Event(w, f)
                        \/ FlushBatch(w) \/ TellServer(w) \/ TellHub(w) \/ RecordChange(w) \/ Invalidate(w) \/ InvalidatePanics(w)
                        \/ TooManyFiles(w)
  \/ Shutdown \/ Initialize
  \/ NotifyNext /\ UNCHANGED refVars

Spec == Init /\ [][Next]_vars
-----------------------------------------------------------------------------
(* Properties *)

\* The shape of the state, and never two goroutines listening (client.go:3467-3471).
TypeOK ==
  /\ disk \in [File -> Text] /\ view \in [File -> Text]
  /\ db \in {"open", "closed", "nil"} /\ current \in Watcher \cup {0}
  /\ \A c \in Channel : pending[c] \subseteq Item
  /\ timer \subseteq Channel /\ firing \subseteq Channel
  /\ Cardinality(Running) <= 1

\* An answer served from the cache was computed from the contents the file had when
\* the query hashed it, unless the file was written while the answer was fetched
\* (cache.go:105-119, 140-152): that row pairs an old answer with the new hash.
HitsMatchTheFile ==
  \A q \in Query : query[q].pc = "hit" /\ query[q].answer.clean => query[q].answer.own = query[q].hash

\* A watcher has nothing of the file left to do.
Quiet(f) == \A w \in Watcher : f \notin watcher[w].events \cup watcher[w].pending \cup watcher[w].batch

\* Once the watcher has dealt with every event, no row is left that was fetched
\* before the last write of its file (client.go:3536-3546): the events, the batch and
\* the late store of a query in flight leave nothing behind.  Not claimed for files
\* written while no watcher listened, or after an import.
QuietCacheIsCurrent ==
  \A f \in File : Quiet(f) /\ f \notin missed /\ row[f] # NoRow /\ row[f].clean => row[f].own = disk[f]

\* No change on its way to the client is lost: it is with the watcher, recorded by
\* its channel, or in flight, and a channel that holds something will be flushed,
\* whatever order timers, new items and Close come in (stale.go:44-60, diagnostics.go:49-87).
NothingUntold ==
  /\ \A u \in untold : \/ HeldIn(u[1], u[2], flight)
                       \/ u[1] = "stale" /\ ~Quiet(u[2])
  /\ \A c \in Channel : pending[c] # {} => Armed(c)
==============================================================================
