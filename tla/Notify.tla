-------------------------------- MODULE Notify --------------------------------
(* The notification hub and its debounced channels (internal/notify,
   cmd/agent-lsp/notifications.go).

   Three channels collect what they are told in `pending` under a lock of their own
   and send it when a timer, reset by every new item, fires: diagnostic summaries,
   error regressions, and stale references.  A timer that has fired can no longer
   be stopped: its flush runs beside whatever comes next.  A flush takes the items
   under the lock and sends them after it, through a hub that drops what it is
   given while no session is connected or once it is closed. *)
EXTENDS Naturals, Sequences

CONSTANTS File,       \* documents and source files
          MaxErrors,  \* bound: errors of a document
          MaxEvents   \* bound: what happens from outside, all kinds together

ASSUME BoundAssumption == MaxErrors \in Nat /\ MaxEvents \in Nat

Channel == {"diagnostics", "regression", "stale"}

VARIABLES pending,    \* items recorded and not yet flushed, by channel
          timer,      \* channels whose timer is armed
          firing,     \* channels whose timer has fired, the flush waiting for the lock
          flight,     \* [channel, items]: flushed, about to be sent
          calls,      \* [channel, item]: callbacks the read loop is still to call
          prev,       \* diagChangeTracker.prev: errors of each file at its last flush
          subscribed, \* channels with a callback registered and not told to stop
          closing,    \* Hub.Close: the steps of its stop functions left to run
          closed,     \* Hub.closed
          errors,     \* the server: errors last published, by file
          events,     \* counter of the bound
          untold      \* history: <<channel, file>> changed and not yet sent or dropped

notifyVars == <<pending, timer, firing, flight, calls, prev, subscribed, closing, closed, errors, events, untold>>
-----------------------------------------------------------------------------
Item == [file : File, errors : 0..MaxErrors]
Changed(f) == [file |-> f, errors |-> 0]

NotifyInit ==
  /\ pending = [c \in Channel |-> {}] /\ timer = {} /\ firing = {} /\ flight = {} /\ calls = {}
  /\ prev = [f \in File |-> 0] /\ errors = [f \in File |-> 0]
  /\ subscribed = Channel /\ closing = <<>> /\ closed = FALSE
  /\ events = 0 /\ untold = {}

Outside == events < MaxEvents /\ events' = events + 1

\* pending[uri] = counts: the last item of a file replaces the one before.
Record(items, item) == {i \in items : i.file # item.file} \cup {item}

\* publishDiagnostics: the read loop takes the subscribed callbacks, then calls them
\* without the lock, before it reads the next message.
Publish(f, n) ==
  /\ Outside /\ calls = {} /\ errors' = [errors EXCEPT ![f] = n]
  /\ calls' = {[channel |-> c, item |-> [file |-> f, errors |-> n]] : c \in subscribed \ {"stale"}}
  /\ untold' = untold \cup {<<x.channel, f>> : x \in {y \in calls' : y.channel = "diagnostics"}}
  /\ UNCHANGED <<pending, timer, firing, flight, prev, subscribed, closing, closed>>

\* OnDiagnostic: record, and reset the timer - also of a channel stopped meanwhile.
OnDiagnostic(x) ==
  /\ x \in calls /\ calls' = calls \ {x}
  /\ pending' = [pending EXCEPT ![x.channel] = Record(@, x.item)]
  /\ timer' = timer \cup {x.channel}
  /\ UNCHANGED <<firing, flight, prev, subscribed, closing, closed, errors, events, untold>>

\* OnFileChange, past its check of `stopped`.
OnFileChange(files) ==
  /\ pending' = [pending EXCEPT !["stale"] = @ \cup {Changed(f) : f \in files}]
  /\ timer' = timer \cup {"stale"}

\* The interval passes: time.AfterFunc starts the flush.
TimerFires(c) ==
  /\ c \in timer /\ timer' = timer \ {c} /\ firing' = firing \cup {c}
  /\ UNCHANGED <<pending, flight, calls, prev, subscribed, closing, closed, errors, events, untold>>

\* mutant
OnlyIncreases(c) == {i \in pending[c] : i.errors > prev[i.file]}

\* What a flush sends: all items, but of the regressions only the increases.
ToEmit(c) == IF c = "regression" THEN {i \in pending[c] : i.errors > prev[i.file]} ELSE pending[c]

\* flush: snapshot and clear under the lock.
Take(c) ==
  /\ pending' = [pending EXCEPT ![c] = {}]
  /\ flight' = IF ToEmit(c) = {} THEN flight ELSE flight \cup {[channel |-> c, items |-> ToEmit(c)]}
  /\ prev' = IF c # "regression" THEN prev
             ELSE [f \in File |-> IF \E i \in pending[c] : i.file = f
                                  THEN (CHOOSE i \in pending[c] : i.file = f).errors ELSE prev[f]]

Flush(c) ==
  /\ c \in firing /\ firing' = firing \ {c} /\ Take(c)
  /\ UNCHANGED <<timer, calls, subscribed, closing, closed, errors, events, untold>>

\* Channel c holds the change of file f: about to be recorded, recorded, or in one of the flights xs.
HeldIn(c, f, xs) == \/ f \in {i.file : i \in pending[c]}
                    \/ \E x \in xs : x.channel = c /\ f \in {i.file : i \in x.items}
                    \/ \E x \in calls : x.channel = c /\ f = x.item.file

\* Hub.Send: sent, or dropped when closed or without a session.  Either way the
\* hub's part is done, and the files of the items are settled for the channel.
Send(x) ==
  /\ x \in flight /\ flight' = flight \ {x}
  /\ untold' = {u \in untold : \/ u[1] # x.channel \/ u[2] \notin {i.file : i \in x.items}
                               \/ HeldIn(u[1], u[2], flight \ {x})}
  /\ UNCHANGED <<pending, timer, firing, calls, prev, subscribed, closing, closed, errors, events>>

\* Close: from here the hub drops what it is given; then the stop functions run one
\* after the other, each unsubscribing, stopping its timer and flushing.
Close ==
  /\ ~closed /\ Outside /\ closed' = TRUE
  /\ closing' = [i \in 1..9 |-> <<(<<"diagnostics", "regression", "stale">>)[(i + 2) \div 3],
                                  (<<"unsubscribe", "timer", "flush">>)[((i - 1) % 3) + 1]>>]
  /\ UNCHANGED <<pending, timer, firing, flight, calls, prev, subscribed, errors, untold>>

Stop ==
  /\ closing # <<>> /\ closing' = Tail(closing)
  /\ LET c == closing[1][1]  step == closing[1][2] IN
     /\ subscribed' = IF step = "unsubscribe" THEN subscribed \ {c} ELSE subscribed
     /\ timer' = IF step = "timer" THEN timer \ {c} ELSE timer
     /\ IF step = "flush" THEN Take(c) ELSE UNCHANGED <<pending, flight, prev>>
  /\ UNCHANGED <<firing, calls, closed, errors, events, untold>>

NotifyNext ==
  \/ \E f \in File, n \in 0..MaxErrors : Publish(f, n)
  \/ \E x \in calls : OnDiagnostic(x)
  \/ \E c \in Channel : TimerFires(c) \/ Flush(c)
  \/ \E x \in flight : Send(x)
  \/ Close \/ Stop

\* Something will flush the channel.
Armed(c) == c \in timer \cup firing \/ \E i \in 1..Len(closing) : closing[i] = <<c, "flush">>
==============================================================================
