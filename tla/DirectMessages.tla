---------------------------- MODULE DirectMessages ----------------------------
(***************************************************************************)
(* Direct messages on top of the notifications: DMHandler.SendMessage      *)
(* writes the row, drops the four cached lists it appears in, pushes to    *)
(* the recipient's WebSocket session or counts the message as unread, and  *)
(* hands a notification over to NotificationHandler.  ListPeers and        *)
(* ListMessages fill the cached lists on a miss.                           *)
(*                                                                         *)
(* A message names its sender and recipient; content, names and the limit  *)
(* of 50 entries per list are left out.                                    *)
(***************************************************************************)
EXTENDS Notifications, FiniteSets

CONSTANTS
  DMs, From, To, NoteOf,  \* messages, their two users and their notification
  Miss,                   \* a key that is not in Redis
  Listed,                 \* bound: the keys of the lists that are asked for
  Deletes,                \* bound: calls of DeleteConversation
  Expiring                \* messages that reach their seven days

ASSUME DMAssumption ==
  /\ IsFiniteSet(DMs)
  /\ From \in [DMs -> Users] /\ To \in [DMs -> Users]
  /\ \A m \in DMs : From[m] # To[m]
  /\ NoteOf \in [DMs -> Notes]
  /\ \A m \in DMs : Target[NoteOf[m]] = To[m] /\ NoteOf[m] \notin Other
  /\ Expiring \subseteq DMs /\ Deletes \in Nat

VARIABLES
  table,    \* direct_messages: state of each message's row
  cache,    \* Redis dm:peers:<u> and dm:conv:<u>:<v>
  unread,   \* Redis dm:unread:<u>
  call,     \* DMHandler.SendMessage, per message
  reader,   \* a list request per key that has missed the cache
  wipe      \* the DeleteConversation call under way and the calls left

dmvars == <<table, cache, unread, call, reader, wipe>>
vars   == <<nvars, dmvars>>

dmPeersKey(u)   == <<u>>
dmConvKey(u, v) == <<u, v>>
Keys == {dmPeersKey(u) : u \in Users}
          \cup {dmConvKey(p[1], p[2]) : p \in {q \in Users \X Users : q[1] # q[2]}}

(* The keys a message or a deleted conversation appears in, in the order   *)
(* the code drops them.                                                    *)
Dropped(u, v) == <<dmPeersKey(u), dmPeersKey(v), dmConvKey(u, v), dmConvKey(v, u)>>

Visible == {m \in DMs : table[m] = "live"}
ListMessagesBetween(u, v) == {m \in Visible : {From[m], To[m]} = {u, v}}
PeersOf(u) == {v \in Users : \E m \in Visible : {From[m], To[m]} = {u, v}}
Answer(k) == IF Len(k) = 1 THEN PeersOf(k[1]) ELSE ListMessagesBetween(k[1], k[2])

CallSteps == {"idle", "drop", "online", "push", "write", "count", "notify", "done"}
NoWipe == [users |-> <<>>, todo |-> <<>>]

DMTypeOK ==
  /\ table \in [DMs -> {"none", "live", "expired", "deleted"}]
  /\ \A k \in Keys : cache[k] \in {Miss} \cup (SUBSET DMs) \cup (SUBSET Users)
  /\ unread \in [Users -> 0..Cardinality(DMs)]
  /\ \A m \in DMs : /\ call[m].step \in CallSteps
                    /\ call[m].via \in Sessions \cup {None}
                    /\ Len(call[m].todo) <= 4
  /\ \A k \in Keys : reader[k].step \in {"idle", "query", "set"}
  /\ wipe.left \in 0..Deletes /\ Len(wipe.run.todo) <= 4

DMInit ==
  /\ table = [m \in DMs |-> "none"]
  /\ cache = [k \in Keys |-> Miss]
  /\ unread = [u \in Users |-> 0]
  /\ call = [m \in DMs |-> [step |-> "idle", via |-> None, todo |-> <<>>]]
  /\ reader = [k \in Keys |-> [step |-> "idle", list |-> {}]]
  /\ wipe = [run |-> NoWipe, left |-> Deletes]

-----------------------------------------------------------------------------
(* SendMessage.                                                            *)

CallStep(m, step) == call' = [call EXCEPT ![m].step = step, ![m].via = None]

(* The INSERT; its error, also one after the row was written, ends the     *)
(* call without dropping a key.                                            *)
Inserted(m) == [table EXCEPT ![m] = "live"]

CreateMessage(m) ==
  /\ call[m].step = "idle"
  /\ \/ /\ table' = Inserted(m)
        /\ call' = [call EXCEPT ![m].step = "drop", ![m].todo = Dropped(From[m], To[m])]
     \/ /\ DbFaults
        /\ table' \in {table, Inserted(m)}
        /\ CallStep(m, "done")
  /\ UNCHANGED <<nvars, cache, unread, reader, wipe>>

Invalidate(k) == cache' = [cache EXCEPT ![k] = Miss]

SendInvalidates(m) ==
  /\ call[m].step = "drop"
  /\ Invalidate(Head(call[m].todo))
  /\ call' = [call EXCEPT ![m].todo = Tail(@),
                          ![m].step = IF Len(call[m].todo) = 1 THEN "online" ELSE @]
  /\ UNCHANGED <<nvars, table, unread, reader, wipe>>

Online(u) == conns[u] # None /\ sess[conns[u]] = "open"

isUserOnline(m) ==
  /\ call[m].step = "online"
  /\ CallStep(m, IF Online(To[m]) THEN "push" ELSE "count")
  /\ UNCHANGED <<nvars, table, cache, unread, reader, wipe>>

(* pushDMToUser looks the session up again, then writes to it.             *)
PushLookupEnds(m) ==
  /\ call[m].step = "push"
  /\ LET s == conns[To[m]]
     IN  call' = [call EXCEPT ![m].step = IF s = None THEN "done" ELSE "write", ![m].via = s]
  /\ UNCHANGED <<nvars, table, cache, unread, reader, wipe>>

PushLookup(m) ==
  /\ call[m].step = "push"
  /\ LET s == conns[To[m]]
     IN  call' = [call EXCEPT ![m].step = IF s = None THEN "notify" ELSE "write", ![m].via = s]
  /\ UNCHANGED <<nvars, table, cache, unread, reader, wipe>>

pushDMToUser(m) ==
  /\ call[m].step = "write"
  /\ IF sess[call[m].via] = "open"
     THEN touchWSIdleTimer(To[m]) /\ UNCHANGED conns
     ELSE conns' = [conns EXCEPT ![To[m]] = None] /\ UNCHANGED timer
  /\ CallStep(m, "notify")
  /\ UNCHANGED <<sess, sync, job, kafka, store, mysql, flag, crashes>>
  /\ UNCHANGED <<table, cache, unread, reader, wipe>>

IncrUnread(m) ==
  /\ call[m].step = "count"
  /\ unread' = [unread EXCEPT ![To[m]] = @ + 1]
  /\ CallStep(m, "notify")
  /\ UNCHANGED <<nvars, table, cache, reader, wipe>>

NotifyRecipient(m) ==
  /\ call[m].step = "notify"
  /\ Deliver(NoteOf[m])
  /\ CallStep(m, "done")
  /\ UNCHANGED <<sockets, kafka, store, mysql, flag, crashes>>
  /\ UNCHANGED <<table, cache, unread, reader, wipe>>

-----------------------------------------------------------------------------
(* ListPeers and ListMessages; a hit changes nothing.                      *)

ListMisses(k) ==
  /\ reader[k].step = "idle" /\ cache[k] = Miss
  /\ reader' = [reader EXCEPT ![k].step = "query"]
  /\ UNCHANGED <<nvars, table, cache, unread, call, wipe>>

(* ListPeers leaves out a peer whose name cannot be read.                  *)
Found(k) == IF Len(k) = 1 /\ DbFaults THEN SUBSET Answer(k) ELSE {Answer(k)}

ListQueries(k) ==
  /\ reader[k].step = "query"
  /\ \/ \E list \in Found(k) : reader' = [reader EXCEPT ![k] = [step |-> "set", list |-> list]]
     \/ DbFaults /\ reader' = [reader EXCEPT ![k].step = "idle"]
  /\ UNCHANGED <<nvars, table, cache, unread, call, wipe>>

ListSets(k) ==
  /\ reader[k].step = "set"
  /\ cache' = [cache EXCEPT ![k] = reader[k].list]
  /\ reader' = [reader EXCEPT ![k] = [step |-> "idle", list |-> {}]]
  /\ UNCHANGED <<nvars, table, unread, call, wipe>>

(* Entries are written with a lifetime, 30 s for peers and 1 min for       *)
(* conversations.                                                          *)
NoTtl(k) == FALSE /\ UNCHANGED vars
EntryExpires(k) ==
  /\ cache[k] # Miss
  /\ Invalidate(k)
  /\ UNCHANGED <<nvars, table, unread, call, reader, wipe>>

-----------------------------------------------------------------------------
(* DeleteConversation, DeleteExpired and ClearUnread.                      *)

(* The error of the DELETE, also one after it took effect, ends the call.  *)
Emptied(u, v) == [m \in DMs |-> IF {From[m], To[m]} = {u, v} /\ table[m] # "none"
                                THEN "deleted" ELSE table[m]]

DeleteConversation(u, v) ==
  /\ wipe.run = NoWipe /\ wipe.left > 0
  /\ \/ /\ table' = Emptied(u, v)
        /\ wipe' = [run |-> [users |-> <<u, v>>, todo |-> Dropped(u, v)], left |-> wipe.left - 1]
     \/ /\ DbFaults
        /\ table' \in {table, Emptied(u, v)}
        /\ wipe' = [wipe EXCEPT !.left = @ - 1]
  /\ UNCHANGED <<nvars, cache, unread, call, reader>>

DeleteInvalidates ==
  /\ wipe.run.todo # <<>>
  /\ Invalidate(Head(wipe.run.todo))
  /\ wipe' = [wipe EXCEPT !.run.todo = Tail(@)]
  /\ UNCHANGED <<nvars, table, unread, call, reader>>

(* The count of each side is dropped whole, other peers' messages in it.   *)
DeleteClearsUnread ==
  /\ wipe.run.users # <<>> /\ wipe.run.todo = <<>>
  /\ LET u == Head(wipe.run.users)
     IN  unread' = [unread EXCEPT ![u] = 0]
  /\ wipe' = [wipe EXCEPT !.run = IF Len(wipe.run.users) = 1 THEN NoWipe
                                  ELSE [wipe.run EXCEPT !.users = Tail(@)]]
  /\ UNCHANGED <<nvars, table, cache, call, reader>>

MessageExpires(m) ==
  /\ m \in Expiring /\ table[m] = "live"
  /\ table' = [table EXCEPT ![m] = "expired"]
  /\ UNCHANGED <<nvars, cache, unread, call, reader, wipe>>

DeleteExpired ==
  /\ \E m \in DMs : table[m] = "expired"
  /\ table' = [m \in DMs |-> IF table[m] = "expired" THEN "deleted" ELSE table[m]]
  /\ UNCHANGED <<nvars, cache, unread, call, reader, wipe>>

ClearUnread(u) ==
  /\ unread[u] > 0
  /\ unread' = [unread EXCEPT ![u] = 0]
  /\ UNCHANGED <<nvars, table, cache, call, reader, wipe>>

-----------------------------------------------------------------------------
Stop == NotesCrash /\ UNCHANGED <<table, cache, unread>>
          /\ call' = [m \in DMs |-> IF call[m].step = "idle" THEN call[m]
                                    ELSE [step |-> "done", via |-> None, todo |-> <<>>]]
          /\ reader' = [k \in Keys |-> [step |-> "idle", list |-> {}]]
          /\ wipe' = [wipe EXCEPT !.run = NoWipe]

SendStep(m) == \/ SendInvalidates(m) \/ isUserOnline(m) \/ PushLookup(m)
               \/ pushDMToUser(m) \/ IncrUnread(m) \/ NotifyRecipient(m)

Init == NotesInit /\ DMInit
Next ==
  \/ NotesNext /\ UNCHANGED dmvars
  \/ \E m \in DMs : CreateMessage(m) \/ SendStep(m) \/ MessageExpires(m)
  \/ \E k \in Listed : ListMisses(k) \/ ListQueries(k) \/ ListSets(k) \/ EntryExpires(k)
  \/ \E u, v \in Users : u # v /\ DeleteConversation(u, v)
  \/ DeleteInvalidates \/ DeleteClearsUnread \/ DeleteExpired
  \/ \E u \in Users : ClearUnread(u)
  \/ Stop

(* Redis entries expire, requests run to their end, and so do the          *)
(* notifications' goroutines.                                              *)
Fairness ==
  /\ \A m \in DMs : WF_vars(SendStep(m))
  /\ \A k \in Listed : WF_vars(EntryExpires(k)) /\ WF_vars(ListQueries(k) \/ ListSets(k))
  /\ NotesFairness

Spec == Init /\ [][Next]_vars /\ Fairness

-----------------------------------------------------------------------------
(* Every variable has its type; no unread counter exceeds the messages.    *)
TypeOK == NotesTypeOK /\ DMTypeOK

(* A list that slow requests, a failed INSERT, DeleteConversation or the   *)
(* expiry of messages left stale in Redis does not stay there: once the    *)
(* messages are at rest, every cached list is missing or what MySQL says.  *)
(* This is said of the lists in Listed: a list of peers may keep leaving   *)
(* out a peer as long as look-ups keep failing.                            *)
ListsConverge == \A k \in Listed : <>[](cache[k] = Miss \/ cache[k] = Answer(k))

(* The recipient of a stored message is reminded of it: also when the      *)
(* session seen online is closed or replaced before the push, which then   *)
(* neither writes nor counts, a notification reaches its table (while the  *)
(* process runs and the topic takes messages).                             *)
DmReminded == \A m \in DMs : call[m].step = "drop" ~> rows[NoteOf[m]] # None
===============================================================================
