---------------------------- MODULE Notifications ----------------------------
(***************************************************************************)
(* Notifications to users: NotificationHandler pushes to the user's        *)
(* WebSocket session or marks the user as having unread ones, publishes to *)
(* the topic notification.store, and consumeLoop hands the messages to     *)
(* NotificationStoreHandler, which buffers them and writes batches to      *)
(* MySQL when the batch is full or its ticker fires.  A session opened     *)
(* with sync=1 is sent the unread rows, which are then marked read.        *)
(*                                                                         *)
(* One partition of notification.store is modelled.  The old producers of  *)
(* notification.push, whose consumer calls Deliver as well, are not.       *)
(***************************************************************************)
EXTENDS Integers, Sequences

CONSTANTS
  Users, Sessions, UserOf,   \* WebSocket sessions and whose they are
  Syncing,                   \* bound: sessions that may be opened with sync=1
  Notes, Target,             \* notifications and whom they are for
  Other,                     \* notifications that comments, follows and so on cause
  BatchSize,                 \* rows buffered before the consumer flushes
  None,
  KafkaFaults,  \* a publish may fail, also after the message was taken; a commit may fail
  DbFaults,     \* a statement on notifications may fail, also after it took effect
  IdleTimeout,  \* idle sessions are closed
  Crashes       \* bound: times the process stops and starts again

ASSUME NotesAssumption ==
  /\ UserOf \in [Sessions -> Users]
  /\ Target \in [Notes -> Users]
  /\ Other \subseteq Notes /\ Syncing \subseteq Sessions
  /\ BatchSize \in Nat \ {0}
  /\ Crashes \in Nat
  /\ None \notin {"unread", "read"}

VARIABLES
  conns,      \* Conns: user -> session
  timer,      \* idleTimers: user -> state of the user's idle timer
  sess,       \* state of each WebSocket session
  sync,       \* syncUnreadNotifications, one goroutine per session
  job,        \* deliverNotificationPayload and its goroutine, per notification
  topic,      \* notification.store
  pos,        \* messages consumeLoop has fetched
  committed,  \* committed offset
  loop,       \* step of consumeLoop
  buffer,     \* NotificationStoreHandler.buffer
  batch,      \* what each caller of flush has copied out of the buffer
  rows,       \* table notifications, by event_id: is_read
  flag,       \* Redis notify:has_unread:<user>
  crashes

sockets == <<conns, timer, sess, sync>>
kafka   == <<topic, pos, committed, loop>>
store   == <<buffer, batch>>
mysql   == <<rows>>
nvars   == <<sockets, job, kafka, store, mysql, flag, crashes>>

Message  == [note : Notes, read : BOOLEAN]
Flushers == {"loop", "ticker"}
JobSteps == {"idle", "load", "write", "archive", "flag", "offline", "fallback", "done"}
Job      == [step : JobSteps, via : Sessions \cup {None}, read : BOOLEAN]
SyncJob  == [step : {"off", "check", "query", "send", "clear", "mark"}, todo : SUBSET Notes]
NoJob    == [step |-> "idle", via |-> None, read |-> FALSE]
NoSync   == [step |-> "off", todo |-> {}]

NotesTypeOK ==
  /\ conns \in [Users -> Sessions \cup {None}]
  /\ timer \in [Users -> {"off", "armed", "fired", "loose"}]
  /\ sess \in [Sessions -> {"new", "open", "closed", "gone"}]
  /\ sync \in [Sessions -> SyncJob]
  /\ job \in [Notes -> Job]
  /\ topic \in Seq(Message)
  /\ committed \in 0..pos /\ pos \in 0..Len(topic)
  /\ loop \in {"fetch", "drain", "write", "commit"}
  /\ buffer \in Seq(Message)
  /\ batch \in [Flushers -> Seq(Message)]
  /\ rows \in [Notes -> {None, "unread", "read"}]
  /\ flag \in [Users -> BOOLEAN]
  /\ crashes \in 0..Crashes

NotesInit ==
  /\ conns = [u \in Users |-> None] /\ timer = [u \in Users |-> "off"]
  /\ sess = [s \in Sessions |-> "new"] /\ sync = [s \in Sessions |-> NoSync]
  /\ job = [n \in Notes |-> NoJob]
  /\ topic = <<>> /\ pos = 0 /\ committed = 0 /\ loop = "fetch"
  /\ buffer = <<>> /\ batch = [f \in Flushers |-> <<>>]
  /\ rows = [n \in Notes |-> None]
  /\ flag = [u \in Users |-> FALSE]
  /\ crashes = 0

-----------------------------------------------------------------------------
(* The idle timer.  "fired": the timer has run out and its function has    *)
(* not looked at the map yet; "loose": so, and the map's entry is gone.    *)

touchWSIdleTimer(u) ==
  timer' = [timer EXCEPT ![u] = IF IdleTimeout THEN "armed" ELSE @]

Cleared(t) == IF t \in {"fired", "loose"} THEN "loose" ELSE "off"

TimerFires(u) ==
  /\ timer[u] = "armed"
  /\ timer' = [timer EXCEPT ![u] = "fired"]
  /\ UNCHANGED <<conns, sess, sync, job, kafka, store, mysql, flag, crashes>>

(* The timer's function: whatever session the user has now is closed.      *)
forceIdleDisconnect(u) ==
  /\ timer[u] \in {"fired", "loose"}
  /\ timer' = [timer EXCEPT ![u] = "off"]
  /\ LET s == conns[u]
     IN  IF s = None THEN UNCHANGED <<conns, sess>>
         ELSE IF sess[s] = "open"
              THEN sess' = [sess EXCEPT ![s] = "closed"] /\ UNCHANGED conns
              ELSE conns' = [conns EXCEPT ![u] = None] /\ UNCHANGED sess
  /\ UNCHANGED <<sync, job, kafka, store, mysql, flag, crashes>>

-----------------------------------------------------------------------------
(* Sessions.                                                               *)

(* HandleWS and the connect hook; q is the query's sync=1.                 *)
Connect(s, q) ==
  /\ q => s \in Syncing
  /\ sess[s] = "new"
  /\ sess' = [sess EXCEPT ![s] = "open"]
  /\ touchWSIdleTimer(UserOf[s])
  /\ conns' = [conns EXCEPT ![UserOf[s]] = s]
  /\ sync' = [sync EXCEPT ![s] = IF q THEN [@ EXCEPT !.step = "check"] ELSE @]
  /\ UNCHANGED <<job, kafka, store, mysql, flag, crashes>>

ClientCloses(s) ==
  /\ sess[s] = "open"
  /\ sess' = [sess EXCEPT ![s] = "closed"]
  /\ UNCHANGED <<conns, timer, sync, job, kafka, store, mysql, flag, crashes>>

(* The disconnect hook drops the user's entry, whichever session it holds. *)
KeptEntry(u, s) == conns[u]
Entry(u, s) == None

Disconnected(s) ==
  /\ sess[s] = "closed"
  /\ sess' = [sess EXCEPT ![s] = "gone"]
  /\ timer' = [timer EXCEPT ![UserOf[s]] = Cleared(@)]
  /\ conns' = [conns EXCEPT ![UserOf[s]] = Entry(UserOf[s], s)]
  /\ UNCHANGED <<sync, job, kafka, store, mysql, flag, crashes>>

-----------------------------------------------------------------------------
(* Delivery: NotifyPushOrStore and PushNotification, then a goroutine.     *)

NextStep(n, step) == job' = [job EXCEPT ![n].step = step]

Deliver(n) ==
  /\ job[n].step = "idle"
  /\ NextStep(n, "load")

Notify(n) ==
  /\ Deliver(n)
  /\ UNCHANGED <<sockets, kafka, store, mysql, flag, crashes>>

PushLoads(n) ==
  /\ job[n].step = "load"
  /\ LET s == conns[Target[n]]
     IN  job' = [job EXCEPT ![n].step = IF s = None THEN "flag" ELSE "write", ![n].via = s]
  /\ UNCHANGED <<sockets, kafka, store, mysql, flag, crashes>>

PushWrites(n) ==
  /\ job[n].step = "write"
  /\ LET u == Target[n]
     IN  IF sess[job[n].via] = "open"
         THEN /\ touchWSIdleTimer(u)
              /\ job' = [job EXCEPT ![n].step = "archive", ![n].read = TRUE, ![n].via = None]
              /\ UNCHANGED conns
         ELSE /\ conns' = [conns EXCEPT ![u] = None]
              /\ job' = [job EXCEPT ![n].step = "flag", ![n].via = None]
              /\ UNCHANGED timer
  /\ UNCHANGED <<sess, sync, kafka, store, mysql, flag, crashes>>

(* persistOfflineNotification sets the mark before it publishes.           *)
SetHasUnread(n) ==
  /\ job[n].step = "flag"
  /\ flag' = [flag EXCEPT ![Target[n]] = TRUE]
  /\ NextStep(n, "offline")
  /\ UNCHANGED <<sockets, kafka, store, mysql, crashes>>

PublishNotificationStore(n) ==
  /\ job[n].step \in {"archive", "offline"}
  /\ \/ topic' = Append(topic, [note |-> n, read |-> job[n].read]) /\ NextStep(n, "done")
     \/ /\ KafkaFaults
        /\ NextStep(n, "fallback")
        /\ \/ UNCHANGED topic
           \/ topic' = Append(topic, [note |-> n, read |-> job[n].read])
  /\ UNCHANGED <<sockets, pos, committed, loop, store, mysql, flag, crashes>>

(* An INSERT that leaves an existing event_id alone.                       *)
Row(read) == IF read THEN "read" ELSE "unread"
BatchCreateNotifications(msgs) ==
  [n \in Notes |->
     IF rows[n] # None \/ ~\E i \in DOMAIN msgs : msgs[i].note = n THEN rows[n]
     ELSE Row(msgs[CHOOSE i \in DOMAIN msgs : /\ msgs[i].note = n
                                              /\ \A j \in 1..(i - 1) : msgs[j].note # n].read)]

FallbackWrites(n) ==
  /\ job[n].step = "fallback"
  /\ rows' = BatchCreateNotifications(<<[note |-> n, read |-> job[n].read]>>)
  /\ NextStep(n, "done")
  /\ UNCHANGED <<sockets, kafka, store, flag, crashes>>

(* The error of the synchronous write is only logged.                      *)
FallbackFails(n) ==
  /\ DbFaults
  /\ job[n].step = "fallback"
  /\ NextStep(n, "done")
  /\ UNCHANGED <<sockets, kafka, store, mysql, flag, crashes>>

-----------------------------------------------------------------------------
(* consumeLoop with ProcessNotificationStoreMessage, and the store's flush *)

BatchFull(b) == Len(b) >= BatchSize

FetchMessage ==
  /\ loop = "fetch" /\ pos < Len(topic)
  /\ pos' = pos + 1
  /\ buffer' = Append(buffer, topic[pos'])
  /\ loop' = IF BatchFull(buffer') THEN "drain" ELSE "commit"
  /\ UNCHANGED <<sockets, job, topic, committed, batch, mysql, flag, crashes>>

(* flush copies the buffer and empties it under the mutex.  The ticker's   *)
(* flush returns on an empty buffer; so does the loop's, which commits.    *)
DrainFull(f) ==
  /\ BatchFull(buffer) /\ batch[f] = <<>>
  /\ f = "loop" => loop = "drain"
  /\ batch' = [batch EXCEPT ![f] = buffer]
  /\ buffer' = <<>>
  /\ loop' = IF f = "loop" THEN "write" ELSE loop
  /\ UNCHANGED <<sockets, job, topic, pos, committed, mysql, flag, crashes>>

Drain(f) ==
  /\ batch[f] = <<>>
  /\ f = "loop" => loop = "drain"
  /\ IF buffer = <<>>
     THEN f = "loop" /\ loop' = "commit" /\ UNCHANGED store
     ELSE /\ batch' = [batch EXCEPT ![f] = buffer]
          /\ buffer' = <<>>
          /\ loop' = IF f = "loop" THEN "write" ELSE loop
  /\ UNCHANGED <<sockets, job, topic, pos, committed, mysql, flag, crashes>>

FlushWrites(f) ==
  /\ batch[f] # <<>>
  /\ rows' = BatchCreateNotifications(batch[f])
  /\ batch' = [batch EXCEPT ![f] = <<>>]
  /\ loop' = IF f = "loop" THEN "commit" ELSE loop
  /\ UNCHANGED <<sockets, job, topic, pos, committed, buffer, flag, crashes>>

(* The failed batch goes back in front of what has arrived since.          *)
NotPutBack(b) == buffer
PutBack(b) == b \o buffer

FlushFails(f) ==
  /\ DbFaults
  /\ batch[f] # <<>>
  /\ rows' \in {rows, BatchCreateNotifications(batch[f])}
  /\ buffer' = PutBack(batch[f])
  /\ batch' = [batch EXCEPT ![f] = <<>>]
  /\ loop' = IF f = "loop" THEN "fetch" ELSE loop
  /\ UNCHANGED <<sockets, job, topic, pos, committed, flag, crashes>>

CommitNext ==
  /\ loop = "commit"
  /\ committed' = pos + 1
  /\ loop' = "fetch"
  /\ UNCHANGED <<sockets, job, topic, pos, store, mysql, flag, crashes>>

CommitMessages ==
  /\ loop = "commit"
  /\ committed' \in IF KafkaFaults THEN {committed, pos} ELSE {pos}
  /\ loop' = "fetch"
  /\ UNCHANGED <<sockets, job, topic, pos, store, mysql, flag, crashes>>

-----------------------------------------------------------------------------
(* syncUnreadNotifications of session s.                                   *)

SyncStep(s, step, todo) == sync' = [sync EXCEPT ![s] = [step |-> step, todo |-> todo]]

HasUnread(s) ==
  /\ sync[s].step = "check"
  /\ SyncStep(s, IF flag[UserOf[s]] THEN "query" ELSE "off", {})
  /\ UNCHANGED <<conns, timer, sess, job, kafka, store, mysql, flag, crashes>>

Unread(u) == {n \in Notes : Target[n] = u /\ rows[n] = "unread"}

GetUnreadByUserID(s) ==
  /\ sync[s].step = "query"
  /\ LET found == Unread(UserOf[s])
     IN  \/ found # {} /\ SyncStep(s, "send", found)
         \/ (DbFaults \/ found = {}) /\ SyncStep(s, "off", {})
  /\ UNCHANGED <<conns, timer, sess, job, kafka, store, mysql, flag, crashes>>

SyncSends(s) ==
  /\ sync[s].step = "send"
  /\ IF sess[s] = "open"
     THEN /\ touchWSIdleTimer(UserOf[s])
          /\ \E n \in sync[s].todo :
               SyncStep(s, IF sync[s].todo = {n} THEN "clear" ELSE "send", sync[s].todo \ {n})
     ELSE SyncStep(s, "off", {}) /\ UNCHANGED timer
  /\ UNCHANGED <<conns, sess, job, kafka, store, mysql, flag, crashes>>

ClearHasUnread(s) ==
  /\ sync[s].step = "clear"
  /\ flag' = [flag EXCEPT ![UserOf[s]] = FALSE]
  /\ SyncStep(s, "mark", {})
  /\ UNCHANGED <<conns, timer, sess, job, kafka, store, mysql, crashes>>

(* The UPDATE takes every unread row of the user, sent or not.             *)
MarkReadByUserID(s) ==
  /\ sync[s].step = "mark"
  /\ \/ rows' = [n \in Notes |-> IF n \in Unread(UserOf[s]) THEN "read" ELSE rows[n]]
     \/ DbFaults /\ UNCHANGED rows
  /\ SyncStep(s, "off", {})
  /\ UNCHANGED <<conns, timer, sess, job, kafka, store, flag, crashes>>

-----------------------------------------------------------------------------
(* Everything in memory is lost; the consumer starts at its offset.        *)
NotesCrash ==
  /\ crashes < Crashes
  /\ crashes' = crashes + 1
  /\ conns' = [u \in Users |-> None] /\ timer' = [u \in Users |-> "off"]
  /\ sess' = [s \in Sessions |-> IF sess[s] = "new" THEN "new" ELSE "gone"]
  /\ sync' = [s \in Sessions |-> NoSync]
  /\ job' = [n \in Notes |-> IF job[n].step = "idle" THEN NoJob ELSE [NoJob EXCEPT !.step = "done"]]
  /\ pos' = committed /\ loop' = "fetch"
  /\ buffer' = <<>> /\ batch' = [f \in Flushers |-> <<>>]
  /\ UNCHANGED <<topic, committed, mysql, flag>>

JobStep(n) == \/ PushLoads(n) \/ PushWrites(n) \/ SetHasUnread(n)
              \/ PublishNotificationStore(n) \/ FallbackWrites(n) \/ FallbackFails(n)
SyncStepOf(s) == \/ HasUnread(s) \/ GetUnreadByUserID(s) \/ SyncSends(s)
                 \/ ClearHasUnread(s) \/ MarkReadByUserID(s)

NotesNext ==
  \/ \E n \in Other : Notify(n)
  \/ \E n \in Notes : JobStep(n)
  \/ \E s \in Sessions : \/ \E q \in BOOLEAN : Connect(s, q)
                         \/ ClientCloses(s) \/ Disconnected(s) \/ SyncStepOf(s)
  \/ \E u \in Users : TimerFires(u) \/ forceIdleDisconnect(u)
  \/ FetchMessage \/ CommitMessages
  \/ \E f \in Flushers : Drain(f) \/ FlushWrites(f) \/ FlushFails(f)

(* The goroutines and the ticker run; MySQL answers from time to time.     *)
NotesFairness ==
  /\ \A n \in Notes : WF_nvars(JobStep(n))
  /\ WF_nvars(FetchMessage \/ CommitMessages \/ Drain("loop"))
  /\ WF_nvars(Drain("ticker"))
  /\ \A f \in Flushers : SF_nvars(FlushWrites(f))

-----------------------------------------------------------------------------
(* Where a notification is between NotifyPushOrStore and its row.          *)
In(n, msgs) == \E i \in DOMAIN msgs : msgs[i].note = n
Held(n) ==
  \/ job[n].step \notin {"idle", "done"}
  \/ \E i \in (pos + 1)..Len(topic) : topic[i].note = n
  \/ In(n, buffer) \/ \E f \in Flushers : In(n, batch[f])
  \/ rows[n] # None

(* No step loses a notification on its way through goroutine, topic,       *)
(* buffer and batch, whatever statements fail and whichever of the loop    *)
(* and the ticker flushes; only a crash, and the failed synchronous write  *)
(* after a failed publish, do.                                             *)
KeptUnlessCrash ==
  [][\A n \in Notes : Held(n) /\ ~Held(n)' => crashes' # crashes \/ FallbackFails(n)]_nvars

(* A notification that is not lost gets its row: the ticker writes what    *)
(* never fills a batch, and a refused batch is written later.              *)
EventuallyStored == \A n \in Notes : Held(n) ~> (rows[n] # None \/ ~Held(n))

(* The table of connections never holds a session whose disconnect hook    *)
(* has run: such an entry would stay for good, and the user would count as *)
(* online to no one's benefit until the next push.                         *)
NoGoneSession == \A u \in Users : conns[u] # None => sess[conns[u]] # "gone" /\ UserOf[conns[u]] = u
=============================================================================
