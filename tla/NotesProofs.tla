----------------------------- MODULE NotesProofs -----------------------------
(***************************************************************************)
(* Proofs about Notifications and DirectMessages: the types of their       *)
(* state, the bound on the unread counters, the table of connections, and  *)
(* that a notification is kept on its way to its row, and the reminder of  *)
(* a message from the call that stores it.                                 *)
(***************************************************************************)
EXTENDS DirectMessages, FiniteSetTheorems, SequenceTheorems, TLAPS

-----------------------------------------------------------------------------
(* Types of the notifications.                                             *)

RowStates == {None, "unread", "read"}

(* A batch gives every notification in it a row and takes none away.       *)
LEMMA BatchRows ==
  ASSUME rows \in [Notes -> RowStates], NEW msgs \in Seq(Message)
  PROVE  /\ BatchCreateNotifications(msgs) \in [Notes -> RowStates]
         /\ \A n \in Notes : /\ rows[n] # None => BatchCreateNotifications(msgs)[n] # None
                             /\ In(n, msgs) => BatchCreateNotifications(msgs)[n] # None
<1>1. \A b : Row(b) \in {"unread", "read"}
  BY DEF Row
<1> QED BY <1>1, NotesAssumption DEF BatchCreateNotifications, In, RowStates

(* No session, no message and no row when the process starts.              *)
LEMMA NotesInitTyped ==
  ASSUME NotesInit
  PROVE  NotesTypeOK
<1>1. <<>> \in Seq(Message) /\ Len(<<>>) = 0
  OBVIOUS
<1> QED BY <1>1, NotesAssumption DEF NotesInit, NotesTypeOK, NoSync, SyncJob, NoJob, Job, JobSteps

(* What a step on the sockets changes is typed.                            *)
LEMMA SocketsTyped ==
  ASSUME NotesTypeOK, NEW s \in Sessions, NEW q \in BOOLEAN,
         Connect(s, q) \/ ClientCloses(s) \/ Disconnected(s)
  PROVE  NotesTypeOK'
<1>0. UserOf[s] \in Users
  BY NotesAssumption
<1>1. CASE Connect(s, q)
  <2>1. timer' \in [Users -> {"off", "armed", "fired", "loose"}]
    BY <1>1 DEF Connect, touchWSIdleTimer, NotesTypeOK
  <2>2. sync' \in [Sessions -> SyncJob]
    BY <1>1, ZenonT(60) DEF Connect, NotesTypeOK, SyncJob
  <2> QED BY <1>0, <1>1, <2>1, <2>2 DEF Connect, NotesTypeOK, kafka, store, mysql
<1>2. CASE ClientCloses(s)
  BY <1>2 DEF ClientCloses, NotesTypeOK, kafka, store, mysql
<1>3. CASE Disconnected(s)
  <2>1. timer' \in [Users -> {"off", "armed", "fired", "loose"}]
    BY <1>3 DEF Disconnected, Cleared, NotesTypeOK
  <2> QED BY <1>0, <1>3, <2>1 DEF Disconnected, Entry, NotesTypeOK, kafka, store, mysql
<1> QED BY <1>1, <1>2, <1>3

(* The idle timer and the forced disconnect.                               *)
LEMMA TimersTyped ==
  ASSUME NotesTypeOK, NEW u \in Users, TimerFires(u) \/ forceIdleDisconnect(u)
  PROVE  NotesTypeOK'
<1>1. CASE TimerFires(u)
  BY <1>1 DEF TimerFires, NotesTypeOK, kafka, store, mysql
<1>2. CASE forceIdleDisconnect(u)
  <2>1. /\ conns' \in [Users -> Sessions \cup {None}]
        /\ sess' \in [Sessions -> {"new", "open", "closed", "gone"}]
    BY <1>2 DEF forceIdleDisconnect, NotesTypeOK
  <2> QED BY <1>2, <2>1 DEF forceIdleDisconnect, NotesTypeOK, kafka, store, mysql
<1> QED BY <1>1, <1>2

(* A notification's job at another step keeps its type.                    *)
LEMMA JobChanges ==
  ASSUME NotesTypeOK, NEW n \in Notes, NEW t \in JobSteps, NEW v \in Sessions \cup {None}
  PROVE  /\ [job EXCEPT ![n].step = t, ![n].via = v] \in [Notes -> Job]
         /\ [job EXCEPT ![n].step = t, ![n].read = TRUE, ![n].via = v] \in [Notes -> Job]
<1>1. job \in [Notes -> Job]
  BY DEF NotesTypeOK
<1>2. /\ [job[n] EXCEPT !.step = t] \in Job
      /\ \A j \in Job : [j EXCEPT !.via = v] \in Job /\ [j EXCEPT !.read = TRUE] \in Job
  BY <1>1 DEF Job
<1>3. \A g \in [Notes -> Job], j \in Job : [g EXCEPT ![n] = j] \in [Notes -> Job]
  OBVIOUS
<1> DEFINE g == [job EXCEPT ![n].step = t]
           h == [g EXCEPT ![n].read = TRUE]
<1>4. g \in [Notes -> Job]
  BY <1>1, <1>2, <1>3
<1>5. [g EXCEPT ![n].via = v] \in [Notes -> Job] /\ h \in [Notes -> Job]
  <2> HIDE DEF g
  <2> QED BY <1>2, <1>3, <1>4 DEF h
<1>6. [h EXCEPT ![n].via = v] \in [Notes -> Job]
  <2> HIDE DEF h
  <2> QED BY <1>2, <1>3, <1>5
<1> QED BY <1>5, <1>6 DEF g, h

(* The steps from the event to the push and the publish.                   *)
LEMMA JobsTyped ==
  ASSUME NotesTypeOK, NEW n \in Notes, Notify(n) \/ JobStep(n)
  PROVE  NotesTypeOK'
<1>0. /\ Target[n] \in Users
      /\ \A r \in BOOLEAN : [note |-> n, read |-> r] \in Message /\ <<[note |-> n, read |-> r]>> \in Seq(Message)
  BY NotesAssumption DEF Message
<1>1. CASE Notify(n)
  BY <1>1 DEF Notify, Deliver, NextStep, NotesTypeOK, Job, JobSteps, sockets, kafka, store, mysql
<1>2. CASE PushLoads(n)
  <2>1. job' \in [Notes -> Job]
    <3>1. conns[Target[n]] \in Sessions \cup {None}
      BY <1>0 DEF NotesTypeOK
    <3>2. {"flag", "write"} \subseteq JobSteps
      BY DEF JobSteps
    <3> QED BY <1>2, <3>1, <3>2, JobChanges DEF PushLoads
  <2> QED BY <1>2, <2>1 DEF PushLoads, NotesTypeOK, sockets, kafka, store, mysql
<1>3. CASE PushWrites(n)
  <2>1. job' \in [Notes -> Job]
    <3>1. "archive" \in JobSteps /\ "flag" \in JobSteps
      BY DEF JobSteps
    <3>2. \/ job' = [job EXCEPT ![n].step = "archive", ![n].read = TRUE, ![n].via = None]
          \/ job' = [job EXCEPT ![n].step = "flag", ![n].via = None]
      BY <1>3 DEF PushWrites
    <3>3. None \in Sessions \cup {None}
      OBVIOUS
    <3>4. CASE job' = [job EXCEPT ![n].step = "archive", ![n].read = TRUE, ![n].via = None]
      <4>1. [job EXCEPT ![n].step = "archive", ![n].read = TRUE, ![n].via = None] \in [Notes -> Job]
        BY <3>1, <3>3, JobChanges
      <4> QED BY <3>4, <4>1
    <3>5. CASE job' = [job EXCEPT ![n].step = "flag", ![n].via = None]
      <4>1. [job EXCEPT ![n].step = "flag", ![n].via = None] \in [Notes -> Job]
        BY <3>1, <3>3, JobChanges
      <4> QED BY <3>5, <4>1
    <3> QED BY <3>2, <3>4, <3>5
  <2>2. /\ timer' \in [Users -> {"off", "armed", "fired", "loose"}]
        /\ conns' \in [Users -> Sessions \cup {None}]
    <3>1. CASE sess[job[n].via] = "open"
      BY <1>0, <1>3, <3>1 DEF PushWrites, touchWSIdleTimer, NotesTypeOK
    <3>2. CASE sess[job[n].via] # "open"
      <4>1. conns' = [conns EXCEPT ![Target[n]] = None] /\ timer' = timer
        BY <1>3, <3>2 DEF PushWrites
      <4> QED BY <1>0, <4>1 DEF NotesTypeOK
    <3> QED BY <3>1, <3>2
  <2> QED BY <1>3, <2>1, <2>2 DEF PushWrites, NotesTypeOK, kafka, store, mysql
<1>4. CASE SetHasUnread(n)
  BY <1>0, <1>4 DEF SetHasUnread, NextStep, NotesTypeOK, Job, JobSteps, sockets, kafka, store, mysql
<1>5. CASE PublishNotificationStore(n)
  <2>1. job' \in [Notes -> Job]
    BY <1>5, SMTT(60) DEF PublishNotificationStore, NextStep, NotesTypeOK, Job, JobSteps
  <2>2. topic' \in Seq(Message) /\ Len(topic') \in {Len(topic), Len(topic) + 1}
    <3>1. job[n].read \in BOOLEAN
      BY DEF NotesTypeOK, Job
    <3>2. \A m \in Message : Append(topic, m) \in Seq(Message) /\ Len(Append(topic, m)) = Len(topic) + 1
      BY DEF NotesTypeOK
    <3> QED BY <1>0, <1>5, <3>1, <3>2 DEF PublishNotificationStore, NotesTypeOK
  <2>3. pos \in 0..Len(topic')
    BY <2>2, LenProperties DEF NotesTypeOK
  <2> QED BY <1>5, <2>1, <2>2, <2>3 DEF PublishNotificationStore, NotesTypeOK, sockets, store, mysql
<1>6. CASE FallbackWrites(n)
  <2>1. job' \in [Notes -> Job]
    BY <1>6 DEF FallbackWrites, NextStep, NotesTypeOK, Job, JobSteps
  <2>2. rows' \in [Notes -> RowStates]
    <3>1. job[n].read \in BOOLEAN
      BY DEF NotesTypeOK, Job
    <3> QED BY <1>0, <1>6, <3>1, BatchRows DEF FallbackWrites, NotesTypeOK, RowStates
  <2> QED BY <1>6, <2>1, <2>2 DEF FallbackWrites, NotesTypeOK, RowStates, sockets, kafka, store
<1>7. CASE FallbackFails(n)
  BY <1>7 DEF FallbackFails, NextStep, NotesTypeOK, Job, JobSteps, sockets, kafka, store, mysql
<1> QED BY <1>1, <1>2, <1>3, <1>4, <1>5, <1>6, <1>7 DEF JobStep

(* The consumer's buffer and its flushes.                                  *)
LEMMA StoreTyped ==
  ASSUME NotesTypeOK, NEW f \in Flushers,
         FetchMessage \/ CommitMessages \/ Drain(f) \/ FlushWrites(f) \/ FlushFails(f)
  PROVE  NotesTypeOK'
<1>0. /\ buffer \in Seq(Message) /\ batch[f] \in Seq(Message) /\ <<>> \in Seq(Message)
      /\ \A g \in [Flushers -> Seq(Message)], b \in Seq(Message) : [g EXCEPT ![f] = b] \in [Flushers -> Seq(Message)]
  BY DEF NotesTypeOK
<1>1. CASE FetchMessage
  <2>1. pos \in Nat /\ Len(topic) \in Nat /\ pos + 1 \in 1..Len(topic) /\ committed \in 0..pos
    BY <1>1, LenProperties DEF FetchMessage, NotesTypeOK
  <2>2. topic[pos + 1] \in Message
    BY <2>1, ElementOfSeq DEF NotesTypeOK
  <2>3. buffer' \in Seq(Message)
    BY <1>0, <1>1, <2>2 DEF FetchMessage
  <2>4. committed' \in 0..pos' /\ pos' \in 0..Len(topic')
    BY <1>1, <2>1 DEF FetchMessage
  <2> QED BY <1>1, <2>3, <2>4 DEF FetchMessage, NotesTypeOK, sockets, mysql
<1>2. CASE CommitMessages
  <2>1. committed' \in 0..pos
    BY <1>2, LenProperties DEF CommitMessages, NotesTypeOK
  <2> QED BY <1>2, <2>1 DEF CommitMessages, NotesTypeOK, sockets, store, mysql
<1>3. CASE Drain(f)
  <2>1. /\ buffer' \in Seq(Message) /\ batch' \in [Flushers -> Seq(Message)]
        /\ loop' \in {"fetch", "drain", "write", "commit"}
    BY <1>0, <1>3 DEF Drain, store, NotesTypeOK
  <2> QED BY <1>3, <2>1 DEF Drain, NotesTypeOK, sockets, mysql
<1>4. CASE FlushWrites(f)
  <2>1. rows' \in [Notes -> RowStates]
    BY <1>0, <1>4, BatchRows DEF FlushWrites, NotesTypeOK, RowStates
  <2>2. batch' \in [Flushers -> Seq(Message)]
    BY <1>0, <1>4 DEF FlushWrites, NotesTypeOK
  <2> QED BY <1>4, <2>1, <2>2 DEF FlushWrites, NotesTypeOK, RowStates, sockets
<1>5. CASE FlushFails(f)
  <2>1. rows' \in [Notes -> RowStates]
    BY <1>0, <1>5, BatchRows DEF FlushFails, NotesTypeOK, RowStates
  <2>2. batch' \in [Flushers -> Seq(Message)] /\ buffer' \in Seq(Message)
    <3>1. PutBack(batch[f]) \in Seq(Message)
      BY <1>0, ConcatProperties DEF PutBack
    <3> QED BY <1>0, <1>5, <3>1 DEF FlushFails, NotesTypeOK
  <2> QED BY <1>5, <2>1, <2>2 DEF FlushFails, NotesTypeOK, RowStates, sockets
<1> QED BY <1>1, <1>2, <1>3, <1>4, <1>5

(* The unread rows sent when a session opens.                              *)
LEMMA SyncTyped ==
  ASSUME NotesTypeOK, NEW s \in Sessions, SyncStepOf(s)
  PROVE  NotesTypeOK'
<1>0. UserOf[s] \in Users /\ \A u \in Users : Unread(u) \in SUBSET Notes
  BY NotesAssumption DEF Unread
<1>1. CASE HasUnread(s)
  BY <1>0, <1>1 DEF HasUnread, SyncStep, NotesTypeOK, SyncJob, kafka, store, mysql
<1>2. CASE GetUnreadByUserID(s)
  <2>1. sync' \in [Sessions -> SyncJob]
    <3>1. \A t \in {"send", "off"}, d \in SUBSET Notes : [step |-> t, todo |-> d] \in SyncJob
      BY DEF SyncJob
    <3>2. PICK t \in {"send", "off"}, d \in SUBSET Notes : sync' = [sync EXCEPT ![s] = [step |-> t, todo |-> d]]
      BY <1>0, <1>2 DEF GetUnreadByUserID, SyncStep
    <3> QED BY <3>1, <3>2 DEF NotesTypeOK
  <2> QED BY <1>2, <2>1 DEF GetUnreadByUserID, NotesTypeOK, kafka, store, mysql
<1>3. CASE SyncSends(s)
  <2>1. sync[s].todo \in SUBSET Notes
    BY DEF NotesTypeOK, SyncJob
  <2>2. sync' \in [Sessions -> SyncJob]
    BY <1>3, <2>1, SMTT(60) DEF SyncSends, SyncStep, NotesTypeOK, SyncJob
  <2>3. timer' \in [Users -> {"off", "armed", "fired", "loose"}]
    BY <1>3 DEF SyncSends, touchWSIdleTimer, NotesTypeOK
  <2> QED BY <1>3, <2>2, <2>3 DEF SyncSends, NotesTypeOK, kafka, store, mysql
<1>4. CASE ClearHasUnread(s)
  <2>1. sync' \in [Sessions -> SyncJob]
    BY <1>4 DEF ClearHasUnread, SyncStep, NotesTypeOK, SyncJob
  <2> QED BY <1>4, <2>1 DEF ClearHasUnread, NotesTypeOK, kafka, store, mysql
<1>5. CASE MarkReadByUserID(s)
  <2>1. sync' \in [Sessions -> SyncJob]
    BY <1>5 DEF MarkReadByUserID, SyncStep, NotesTypeOK, SyncJob
  <2>2. rows' \in [Notes -> RowStates]
    BY <1>5 DEF MarkReadByUserID, NotesTypeOK, RowStates
  <2> QED BY <1>5, <2>1, <2>2 DEF MarkReadByUserID, NotesTypeOK, RowStates, kafka, store
<1> QED BY <1>1, <1>2, <1>3, <1>4, <1>5 DEF SyncStepOf

(* A crash drops what is in memory.                                        *)
LEMMA CrashTyped ==
  ASSUME NotesTypeOK, NotesCrash
  PROVE  NotesTypeOK'
<1>1. <<>> \in Seq(Message)
  OBVIOUS
<1>2. committed \in Nat /\ committed \in 0..committed /\ committed \in 0..Len(topic)
  BY LenProperties DEF NotesTypeOK
<1>3. job' \in [Notes -> Job] /\ sync' \in [Sessions -> SyncJob]
  BY DEF NotesCrash, NoJob, NoSync, Job, JobSteps, SyncJob
<1>4. crashes' \in 0..Crashes
  BY NotesAssumption DEF NotesCrash, NotesTypeOK
<1> QED BY <1>1, <1>2, <1>3, <1>4 DEF NotesCrash, NotesTypeOK, mysql

(* The types are inductive.                                                *)
LEMMA NotesNextTyped ==
  ASSUME NotesTypeOK, NotesNext
  PROVE  NotesTypeOK'
BY SocketsTyped, TimersTyped, JobsTyped, StoreTyped, SyncTyped, NotesAssumption
DEF NotesNext, Flushers
-----------------------------------------------------------------------------
(* Types of the direct messages, and the bound on the unread counters: a   *)
(* message counts once, on its way to the notification.                    *)

Lists     == (SUBSET DMs) \cup (SUBSET Users)
ShortKeys == {q \in Seq(Keys) : Len(q) <= 4}
CallRecs  == [step : CallSteps, via : Sessions \cup {None}, todo : ShortKeys]
Past      == {"notify", "done"}
Counted   == {m \in DMs : call[m].step \in Past}

ListInv ==
  /\ table \in [DMs -> {"none", "live", "expired", "deleted"}]
  /\ cache \in [Keys -> {Miss} \cup Lists]
  /\ reader \in [Keys -> [step : {"idle", "query", "set"}, list : Lists]]
  /\ wipe \in [run : [users : Seq(Users), todo : ShortKeys], left : 0..Deletes]
CallInv ==
  /\ call \in [DMs -> CallRecs]
  /\ \A m \in DMs : call[m].step = "drop" => call[m].todo # <<>>
CountInv ==
  /\ unread \in [Users -> Nat]
  /\ \A u \in Users : unread[u] <= Cardinality(Counted)
DMInv == NotesTypeOK /\ ListInv /\ CallInv /\ CountInv

(* The keys to drop, one by one.                                           *)
LEMMA DroppedKeys ==
  /\ <<>> \in ShortKeys
  /\ \A u, v \in Users : u # v => Dropped(u, v) \in ShortKeys /\ Dropped(u, v) # <<>>
  /\ \A q \in ShortKeys : q # <<>> => /\ Head(q) \in Keys /\ Tail(q) \in ShortKeys
                                      /\ Len(q) # 1 => Tail(q) # <<>>
<1>1. <<>> \in ShortKeys
  BY DEF ShortKeys
<1>2. ASSUME NEW u \in Users, NEW v \in Users, u # v
      PROVE  Dropped(u, v) \in ShortKeys /\ Dropped(u, v) # <<>>
  <2>1. /\ dmPeersKey(u) \in Keys /\ dmPeersKey(v) \in Keys
        /\ dmConvKey(u, v) \in Keys /\ dmConvKey(v, u) \in Keys
    <3>1. \A a, b \in Users : a # b => dmConvKey(a, b) \in {dmConvKey(p[1], p[2]) : p \in {q \in Users \X Users : q[1] # q[2]}}
      <4>1. SUFFICES ASSUME NEW a \in Users, NEW b \in Users, a # b
                     PROVE  \E p \in {q \in Users \X Users : q[1] # q[2]} : dmConvKey(a, b) = dmConvKey(p[1], p[2])
        OBVIOUS
      <4>2. <<a, b>> \in {q \in Users \X Users : q[1] # q[2]}
        BY <4>1
      <4> QED BY <4>2
    <3> QED BY <1>2, <3>1 DEF Keys
  <2>2. \A a, b, c, d \in Keys : /\ <<a, b, c, d>> \in Seq(Keys) /\ Len(<<a, b, c, d>>) = 4
                                 /\ <<a, b, c, d>> # <<>>
    OBVIOUS
  <2> QED BY <2>1, <2>2 DEF Dropped, ShortKeys
<1>3. ASSUME NEW q \in ShortKeys, q # <<>>
      PROVE  Head(q) \in Keys /\ Tail(q) \in ShortKeys /\ (Len(q) # 1 => Tail(q) # <<>>)
  <2>1. q \in Seq(Keys) /\ Len(q) <= 4
    BY DEF ShortKeys
  <2>2. Head(q) \in Keys /\ Tail(q) \in Seq(Keys) /\ Len(Tail(q)) = Len(q) - 1 /\ Len(q) \in Nat
    BY <1>3, <2>1, HeadTailProperties, LenProperties
  <2>3. Len(q) # 1 => Tail(q) # <<>>
    <3>1. Len(q) # 1 => Len(Tail(q)) # 0
      BY <2>2
    <3>2. Len(<<>>) = 0
      OBVIOUS
    <3> QED BY <3>1, <3>2
  <2>4. Len(Tail(q)) <= 4
    BY <2>1, <2>2
  <2> QED BY <2>2, <2>3, <2>4 DEF ShortKeys
<1> QED BY <1>1, <1>2, <1>3

(* The messages that were counted unread are finitely many.                *)
LEMMA CountedFinite ==
  /\ IsFiniteSet(Counted) /\ Cardinality(Counted) \in Nat /\ Cardinality(Counted) <= Cardinality(DMs)
  /\ IsFiniteSet(DMs) /\ Cardinality(DMs) \in Nat
<1>1. Counted \subseteq DMs
  BY DEF Counted
<1> QED BY <1>1, DMAssumption, FS_Subset, FS_CardinalityType

(* The invariant gives the types TLC checks.                               *)
LEMMA DMInvTypes == DMInv => TypeOK
<1> SUFFICES ASSUME DMInv
             PROVE  TypeOK
  OBVIOUS
<1>1. unread \in [Users -> 0..Cardinality(DMs)]
  <2>1. \A a, b, c \in Nat : a <= b /\ b <= c => a \in 0..c
    OBVIOUS
  <2> QED BY <2>1, CountedFinite DEF DMInv, CountInv
<1>2. \A k \in Keys : cache[k] \in {Miss} \cup (SUBSET DMs) \cup (SUBSET Users)
  BY DEF DMInv, ListInv, Lists
<1>3. \A m \in DMs : /\ call[m].step \in CallSteps /\ call[m].via \in Sessions \cup {None}
                     /\ Len(call[m].todo) <= 4
  BY DEF DMInv, CallInv, CallRecs, ShortKeys
<1>4. /\ \A k \in Keys : reader[k].step \in {"idle", "query", "set"}
      /\ wipe.left \in 0..Deletes /\ Len(wipe.run.todo) <= 4
  BY DEF DMInv, ListInv, ShortKeys
<1> QED BY <1>1, <1>2, <1>3, <1>4 DEF TypeOK, DMTypeOK, DMInv, ListInv

(* It holds before the first message.                                      *)
LEMMA DMInitTyped ==
  ASSUME Init
  PROVE  DMInv
<1>1. NotesTypeOK
  BY NotesInitTyped DEF Init
<1>2. ListInv
  <2>1. {} \in Lists /\ Deletes \in 0..Deletes /\ <<>> \in Seq(Users) /\ <<>> \in ShortKeys
    BY DroppedKeys, DMAssumption DEF Lists
  <2> QED BY <2>1 DEF Init, DMInit, ListInv, NoWipe
<1>3. CallInv
  BY DroppedKeys DEF Init, DMInit, CallInv, CallRecs, CallSteps
<1>4. CountInv
  BY CountedFinite DEF Init, DMInit, CountInv
<1> QED BY <1>1, <1>2, <1>3, <1>4 DEF DMInv

-----------------------------------------------------------------------------
(* A call of SendMessage goes on; a message stays counted.                 *)
CallGoes(m) ==
  \E r \in CallRecs : /\ call' = [call EXCEPT ![m] = r]
                      /\ r.step = "drop" => r.todo # <<>>
                      /\ call[m].step \in Past => r.step \in Past

(* A call that goes on: the counted messages grow by it at most.           *)
LEMMA CallKept ==
  ASSUME CallInv, NEW m \in DMs, CallGoes(m)
  PROVE  /\ CallInv' /\ Cardinality(Counted)' \in Nat /\ Cardinality(Counted) <= Cardinality(Counted)'
         /\ call[m].step \notin Past /\ call'[m].step \in Past =>
              Cardinality(Counted) + 1 <= Cardinality(Counted)'
<1>1. PICK r \in CallRecs : /\ call' = [call EXCEPT ![m] = r]
                            /\ r.step = "drop" => r.todo # <<>>
                            /\ call[m].step \in Past => r.step \in Past
  BY DEF CallGoes
<1>2. CallInv'
  BY <1>1 DEF CallInv
<1>3. Counted \subseteq Counted' /\ Counted' \subseteq DMs
  BY <1>1 DEF Counted, CallInv
<1>4. IsFiniteSet(Counted') /\ Cardinality(Counted') \in Nat
  BY <1>3, DMAssumption, FS_Subset, FS_CardinalityType
<1>5. Cardinality(Counted) <= Cardinality(Counted')
  BY <1>3, <1>4, FS_Subset
<1>6. ASSUME call[m].step \notin Past, call'[m].step \in Past
      PROVE  Cardinality(Counted) + 1 <= Cardinality(Counted')
  <2>1. Counted \cup {m} \subseteq Counted' /\ m \notin Counted
    BY <1>3, <1>6 DEF Counted
  <2>2. Cardinality(Counted \cup {m}) = Cardinality(Counted) + 1
    BY <2>1, CountedFinite, FS_AddElement
  <2> QED BY <1>4, <2>1, <2>2, FS_Subset
<1> QED BY <1>2, <1>4, <1>5, <1>6

(* A counter that stays is covered by what was counted before.             *)
LEMMA CountKept ==
  ASSUME CountInv, UNCHANGED unread, Cardinality(Counted)' \in Nat, Cardinality(Counted) <= Cardinality(Counted)'
  PROVE  CountInv'
<1>1. \A a, b, c \in Nat : a <= b /\ b <= c => a <= c
  OBVIOUS
<1> QED BY <1>1, CountedFinite DEF CountInv

(* Steps of a call that leave notifications and counters alone.            *)
LEMMA CallsTyped ==
  ASSUME DMInv, NEW m \in DMs,
         CreateMessage(m) \/ SendInvalidates(m) \/ isUserOnline(m) \/ PushLookup(m)
  PROVE  DMInv'
<1>0. /\ call[m] \in CallRecs /\ call[m].todo \in ShortKeys
      /\ \A t \in CallSteps, v \in Sessions \cup {None} :
           [call[m] EXCEPT !.step = t, !.via = v] \in CallRecs /\ [call[m] EXCEPT !.step = t, !.via = v].step = t
      /\ \A t \in CallSteps, q \in ShortKeys :
           /\ [call[m] EXCEPT !.step = t, !.todo = q] \in CallRecs
           /\ [call[m] EXCEPT !.step = t, !.todo = q].step = t /\ [call[m] EXCEPT !.step = t, !.todo = q].todo = q
      /\ From[m] \in Users /\ To[m] \in Users /\ From[m] # To[m]
  BY DMAssumption DEF DMInv, CallInv, CallRecs
<1>1. CASE CreateMessage(m)
  <2>1. CallGoes(m)
    <3>1. CASE call' = [call EXCEPT ![m].step = "drop", ![m].todo = Dropped(From[m], To[m])]
      <4> DEFINE r == [call[m] EXCEPT !.step = "drop", !.todo = Dropped(From[m], To[m])]
      <4>1. Dropped(From[m], To[m]) \in ShortKeys /\ Dropped(From[m], To[m]) # <<>>
        BY <1>0, DroppedKeys
      <4>2. call' = [call EXCEPT ![m] = r]
        BY <3>1 DEF DMInv, CallInv
      <4>3. r \in CallRecs /\ r.step = "drop" /\ r.todo # <<>>
        <5>1. "drop" \in CallSteps
          BY DEF CallSteps
        <5> HIDE DEF r
        <5>2. /\ [call[m] EXCEPT !.step = "drop", !.todo = Dropped(From[m], To[m])] \in CallRecs
              /\ [call[m] EXCEPT !.step = "drop", !.todo = Dropped(From[m], To[m])].step = "drop"
              /\ [call[m] EXCEPT !.step = "drop", !.todo = Dropped(From[m], To[m])].todo = Dropped(From[m], To[m])
          BY <1>0, <4>1, <5>1
        <5> QED BY <4>1, <5>2 DEF r
      <4> QED BY <1>1, <4>2, <4>3 DEF CallGoes, CreateMessage, Past
    <3>2. CASE CallStep(m, "done")
      <4> DEFINE r == [call[m] EXCEPT !.step = "done", !.via = None]
      <4>1. call' = [call EXCEPT ![m] = r]
        BY <3>2 DEF DMInv, CallInv, CallStep
      <4>2. r \in CallRecs /\ r.step = "done"
        BY <1>0 DEF CallSteps
      <4> QED BY <4>1, <4>2 DEF CallGoes, Past
    <3> QED BY <1>1, <3>1, <3>2 DEF CreateMessage
  <2>2. ListInv'
    BY <1>1 DEF CreateMessage, Inserted, DMInv, ListInv
  <2> QED BY <1>1, <2>1, <2>2, CallKept, CountKept DEF CreateMessage, DMInv, nvars, NotesTypeOK, sockets, kafka, store, mysql
<1>2. CASE SendInvalidates(m)
  <2>1. call[m].todo # <<>> /\ call[m].step \notin Past
    BY <1>2 DEF SendInvalidates, DMInv, CallInv, Past
  <2>2. CallGoes(m)
    <3> DEFINE t == IF Len(call[m].todo) = 1 THEN "online" ELSE "drop"
               r == [call[m] EXCEPT !.step = t, !.todo = Tail(call[m].todo)]
    <3>1. call' = [call EXCEPT ![m] = r]
      BY <1>2 DEF SendInvalidates, DMInv, CallInv
    <3>2. t \in CallSteps /\ Tail(call[m].todo) \in ShortKeys /\ (t = "drop" => Tail(call[m].todo) # <<>>)
      BY <1>0, <2>1, DroppedKeys DEF CallSteps
    <3>3. r \in CallRecs /\ (r.step = "drop" => r.todo # <<>>)
      <4> HIDE DEF t
      <4> QED BY <1>0, <3>2
    <3> QED BY <2>1, <3>1, <3>3 DEF CallGoes
  <2>3. ListInv'
    BY <1>2 DEF SendInvalidates, Invalidate, DMInv, ListInv
  <2> QED BY <1>2, <2>2, <2>3, CallKept, CountKept DEF SendInvalidates, DMInv, nvars, NotesTypeOK, sockets, kafka, store, mysql
<1>3. CASE isUserOnline(m) \/ PushLookup(m)
  <2>1. CallGoes(m)
    <3>1. conns[To[m]] \in Sessions \cup {None}
      BY <1>0 DEF DMInv, NotesTypeOK
    <3>2. \E t \in CallSteps \ {"drop"}, v \in Sessions \cup {None} :
            call' = [call EXCEPT ![m].step = t, ![m].via = v]
      BY <1>3, <3>1 DEF isUserOnline, PushLookup, CallStep, CallSteps
    <3>3. PICK t \in CallSteps \ {"drop"}, v \in Sessions \cup {None} :
            call' = [call EXCEPT ![m].step = t, ![m].via = v]
      BY <3>2
    <3> DEFINE r == [call[m] EXCEPT !.step = t, !.via = v]
    <3>4. call' = [call EXCEPT ![m] = r]
      BY <3>3 DEF DMInv, CallInv
    <3>5. r \in CallRecs /\ r.step # "drop"
      BY <1>0, <3>3
    <3>6. call[m].step \notin Past
      BY <1>3 DEF isUserOnline, PushLookup, Past
    <3> QED BY <3>4, <3>5, <3>6 DEF CallGoes
  <2>2. UNCHANGED <<nvars, table, cache, unread, reader, wipe>>
    BY <1>3 DEF isUserOnline, PushLookup
  <2>3. ListInv' /\ NotesTypeOK'
    BY <2>2 DEF DMInv, ListInv, nvars, NotesTypeOK, sockets, kafka, store, mysql
  <2> QED BY <2>1, <2>2, <2>3, CallKept, CountKept DEF DMInv
<1> QED BY <1>1, <1>2, <1>3

(* The push, the notification and the increment of the unread count.       *)
LEMMA PushTyped ==
  ASSUME DMInv, NEW m \in DMs, pushDMToUser(m) \/ NotifyRecipient(m) \/ IncrUnread(m)
  PROVE  DMInv'
<1>0. call[m] \in CallRecs /\ To[m] \in Users /\ NoteOf[m] \in Notes
  BY DMAssumption DEF DMInv, CallInv
<1>1. PICK t \in Past : CallStep(m, t)
  BY DEF pushDMToUser, NotifyRecipient, IncrUnread, Past
<1> DEFINE r == [call[m] EXCEPT !.step = t, !.via = None]
<1>2. call' = [call EXCEPT ![m] = r]
  BY <1>1 DEF DMInv, CallInv, CallStep
<1>3. r \in CallRecs /\ r.step = t
  BY <1>0 DEF CallRecs, CallSteps, Past
<1> HIDE DEF r
<1>4. CallGoes(m)
  <2>1. r.step # "drop" /\ r.step \in Past
    BY <1>3 DEF Past
  <2> QED BY <1>2, <1>3, <2>1 DEF CallGoes
<1>5. ListInv'
  BY DEF pushDMToUser, NotifyRecipient, IncrUnread, DMInv, ListInv
<1>6. NotesTypeOK'
  <2>1. CASE pushDMToUser(m)
    <3>1. /\ conns' \in [Users -> Sessions \cup {None}]
          /\ timer' \in [Users -> {"off", "armed", "fired", "loose"}]
      <4>1. \/ conns' = conns /\ touchWSIdleTimer(To[m])
            \/ conns' = [conns EXCEPT ![To[m]] = None] /\ timer' = timer
        BY <2>1 DEF pushDMToUser
      <4>2. touchWSIdleTimer(To[m]) => timer' \in [Users -> {"off", "armed", "fired", "loose"}]
        BY <1>0 DEF touchWSIdleTimer, DMInv, NotesTypeOK
      <4> QED BY <1>0, <4>1, <4>2 DEF DMInv, NotesTypeOK
    <3> QED BY <2>1, <3>1 DEF pushDMToUser, DMInv, NotesTypeOK, kafka, store, mysql
  <2>2. CASE NotifyRecipient(m)
    <3>1. Notify(NoteOf[m])
      BY <2>2 DEF NotifyRecipient, Notify
    <3> QED BY <1>0, <3>1, JobsTyped DEF DMInv
  <2>3. CASE IncrUnread(m)
    BY <2>3 DEF IncrUnread, DMInv, NotesTypeOK, nvars, sockets, kafka, store, mysql
  <2> QED BY <2>1, <2>2, <2>3
<1>7. CountInv'
  <2>1. CASE unread' = unread
    BY <1>4, <2>1, CallKept, CountKept DEF DMInv
  <2>2. CASE IncrUnread(m)
    <3>1. /\ unread' = [unread EXCEPT ![To[m]] = unread[To[m]] + 1]
          /\ call[m].step \notin Past /\ call'[m].step \in Past
      BY <1>2, <1>3, <2>2 DEF IncrUnread, DMInv, CountInv, CallInv, Past
    <3>2. /\ Cardinality(Counted)' \in Nat /\ Cardinality(Counted) \in Nat
          /\ Cardinality(Counted) + 1 <= Cardinality(Counted)'
      BY <1>4, <3>1, CallKept, CountedFinite DEF DMInv
    <3>3. \A a, b, c \in Nat : a <= b /\ b + 1 <= c => a <= c /\ a + 1 <= c
      OBVIOUS
    <3> QED BY <1>0, <3>1, <3>2, <3>3 DEF DMInv, CountInv
  <2> QED BY <2>1, <2>2 DEF pushDMToUser, NotifyRecipient
<1> QED BY <1>4, <1>5, <1>6, <1>7, CallKept DEF DMInv

(* Readers, the removal of messages and the end of keys.                   *)
LEMMA ListsTyped ==
  ASSUME DMInv,
         \/ \E k \in Listed : ListMisses(k) \/ ListQueries(k) \/ ListSets(k) \/ EntryExpires(k)
         \/ \E u, v \in Users : u # v /\ DeleteConversation(u, v)
         \/ DeleteInvalidates \/ DeleteClearsUnread \/ DeleteExpired
         \/ \E u \in Users : ClearUnread(u)
         \/ \E m \in DMs : MessageExpires(m)
  PROVE  DMInv'
<1>1. UNCHANGED <<nvars, call>>
  BY DEF ListMisses, ListQueries, ListSets, EntryExpires, DeleteConversation, DeleteInvalidates,
         DeleteClearsUnread, DeleteExpired, ClearUnread, MessageExpires
<1>2. NotesTypeOK' /\ CallInv' /\ Cardinality(Counted)' = Cardinality(Counted)
  BY <1>1 DEF DMInv, CallInv, Counted, NotesTypeOK, nvars, sockets, kafka, store, mysql
<1>3. /\ wipe.run \in [users : Seq(Users), todo : ShortKeys] /\ wipe.left \in 0..Deletes
      /\ wipe.run.users \in Seq(Users) /\ wipe.run.todo \in ShortKeys
      /\ NoWipe \in [users : Seq(Users), todo : ShortKeys]
  <2>1. <<>> \in Seq(Users)
    OBVIOUS
  <2> QED BY <2>1, DroppedKeys DEF DMInv, ListInv, NoWipe
<1>4. CASE \E k \in Listed : ListMisses(k) \/ ListQueries(k) \/ ListSets(k) \/ EntryExpires(k)
  <2>1. PICK k \in Listed : ListMisses(k) \/ ListQueries(k) \/ ListSets(k) \/ EntryExpires(k)
    BY <1>4
  <2>2. UNCHANGED <<unread, wipe, table>>
    BY <2>1 DEF ListMisses, ListQueries, ListSets, EntryExpires
  <2>3. reader' \in [Keys -> [step : {"idle", "query", "set"}, list : Lists]]
    <3>1. ASSUME k \in Keys, NEW list \in Found(k)
          PROVE  list \in Lists
      <4>1. Answer(k) \in Lists
        BY <3>1 DEF Answer, PeersOf, ListMessagesBetween, Visible, Lists
      <4>2. list \subseteq Answer(k)
        BY <3>1 DEF Found
      <4> QED BY <4>1, <4>2 DEF Lists
    <3>2. {} \in Lists
      BY DEF Lists
    <3>3. \/ reader' = reader
          \/ reader' = [reader EXCEPT ![k].step = "query"]
          \/ reader' = [reader EXCEPT ![k].step = "idle"]
          \/ \E list \in Found(k) : reader' = [reader EXCEPT ![k] = [step |-> "set", list |-> list]]
          \/ reader' = [reader EXCEPT ![k] = [step |-> "idle", list |-> {}]]
      BY <2>1 DEF ListMisses, ListQueries, ListSets, EntryExpires
    <3>4. k \in Keys => reader[k] \in [step : {"idle", "query", "set"}, list : Lists]
      BY DEF DMInv, ListInv
    <3>5. \A g \in [Keys -> [step : {"idle", "query", "set"}, list : Lists]],
             x \in [step : {"idle", "query", "set"}, list : Lists] :
            [g EXCEPT ![k] = x] \in [Keys -> [step : {"idle", "query", "set"}, list : Lists]]
      OBVIOUS
    <3>6. CASE k \in Keys
      <4>1. /\ [reader[k] EXCEPT !.step = "query"] \in [step : {"idle", "query", "set"}, list : Lists]
            /\ [reader[k] EXCEPT !.step = "idle"] \in [step : {"idle", "query", "set"}, list : Lists]
            /\ \A list \in Found(k) :
                 [step |-> "set", list |-> list] \in [step : {"idle", "query", "set"}, list : Lists]
            /\ [step |-> "idle", list |-> {}] \in [step : {"idle", "query", "set"}, list : Lists]
        BY <3>1, <3>2, <3>4, <3>6
      <4>2. reader \in [Keys -> [step : {"idle", "query", "set"}, list : Lists]]
        BY DEF DMInv, ListInv
      <4>3. \/ reader' = reader
            \/ \E x \in [step : {"idle", "query", "set"}, list : Lists] : reader' = [reader EXCEPT ![k] = x]
        BY <3>3, <4>1, <4>2
      <4> QED BY <3>5, <4>2, <4>3
    <3>7. CASE k \notin Keys
      BY <3>3, <3>7 DEF DMInv, ListInv
    <3> QED BY <3>6, <3>7
  <2>4. cache' \in [Keys -> {Miss} \cup Lists]
    BY <2>1 DEF ListMisses, ListQueries, ListSets, EntryExpires, Invalidate, DMInv, ListInv
  <2> QED BY <1>2, <2>2, <2>3, <2>4, CountKept, CountedFinite DEF DMInv, ListInv
<1>5. CASE \E u, v \in Users : u # v /\ DeleteConversation(u, v)
  <2>1. PICK u \in Users, v \in Users : u # v /\ DeleteConversation(u, v)
    BY <1>5
  <2>2. <<u, v>> \in Seq(Users) /\ Dropped(u, v) \in ShortKeys /\ wipe.left - 1 \in 0..Deletes
    BY <1>3, <2>1, DroppedKeys, DMAssumption DEF DeleteConversation
  <2>3. wipe' \in [run : [users : Seq(Users), todo : ShortKeys], left : 0..Deletes]
    <3>1. wipe \in [run : [users : Seq(Users), todo : ShortKeys], left : 0..Deletes]
      BY DEF DMInv, ListInv
    <3>2. /\ [run |-> [users |-> <<u, v>>, todo |-> Dropped(u, v)], left |-> wipe.left - 1]
               \in [run : [users : Seq(Users), todo : ShortKeys], left : 0..Deletes]
          /\ [wipe EXCEPT !.left = wipe.left - 1]
               \in [run : [users : Seq(Users), todo : ShortKeys], left : 0..Deletes]
      <4> QED BY <2>2, <3>1
    <3>3. \/ wipe' = [run |-> [users |-> <<u, v>>, todo |-> Dropped(u, v)], left |-> wipe.left - 1]
          \/ wipe' = [wipe EXCEPT !.left = wipe.left - 1]
      BY <2>1 DEF DeleteConversation
    <3> QED BY <3>2, <3>3
  <2>4. table' \in [DMs -> {"none", "live", "expired", "deleted"}]
    <3>1. table \in [DMs -> {"none", "live", "expired", "deleted"}]
      BY DEF DMInv, ListInv
    <3>2. table' = table \/ table' = Emptied(u, v)
      BY <2>1 DEF DeleteConversation
    <3> QED BY <3>1, <3>2 DEF Emptied
  <2> QED BY <1>2, <2>1, <2>3, <2>4, CountKept, CountedFinite DEF DeleteConversation, DMInv, ListInv
<1>6. CASE DeleteInvalidates
  <2>1. Tail(wipe.run.todo) \in ShortKeys
    BY <1>3, <1>6, DroppedKeys DEF DeleteInvalidates
  <2> DEFINE run == [wipe.run EXCEPT !.todo = Tail(wipe.run.todo)]
  <2>2. run \in [users : Seq(Users), todo : ShortKeys]
    BY <1>3, <2>1
  <2>3. wipe' = [wipe EXCEPT !.run = run]
    BY <1>6 DEF DeleteInvalidates, DMInv, ListInv
  <2> HIDE DEF run
  <2>4. wipe' \in [run : [users : Seq(Users), todo : ShortKeys], left : 0..Deletes]
    BY <2>2, <2>3 DEF DMInv, ListInv
  <2>5. cache' \in [Keys -> {Miss} \cup Lists]
    BY <1>6 DEF DeleteInvalidates, Invalidate, DMInv, ListInv
  <2> QED BY <1>2, <1>6, <2>4, <2>5, CountKept, CountedFinite DEF DeleteInvalidates, DMInv, ListInv
<1>7. CASE DeleteClearsUnread
  <2> DEFINE run == IF Len(wipe.run.users) = 1 THEN NoWipe ELSE [wipe.run EXCEPT !.users = Tail(wipe.run.users)]
  <2>1. run \in [users : Seq(Users), todo : ShortKeys]
    <3>1. Tail(wipe.run.users) \in Seq(Users)
      BY <1>3, <1>7, HeadTailProperties DEF DeleteClearsUnread
    <3> QED BY <1>3, <3>1
  <2>2. wipe' = [wipe EXCEPT !.run = run]
    <3>1. CASE Len(wipe.run.users) = 1
      BY <1>7, <3>1 DEF DeleteClearsUnread
    <3>2. CASE Len(wipe.run.users) # 1
      BY <1>7, <3>2 DEF DeleteClearsUnread, DMInv, ListInv
    <3> QED BY <3>1, <3>2
  <2> HIDE DEF run
  <2>3. wipe' \in [run : [users : Seq(Users), todo : ShortKeys], left : 0..Deletes]
    BY <2>1, <2>2 DEF DMInv, ListInv
  <2>4. CountInv'
    <3>1. unread' = [unread EXCEPT ![Head(wipe.run.users)] = 0]
      BY <1>7 DEF DeleteClearsUnread
    <3>2. PICK h : unread' = [unread EXCEPT ![h] = 0]
      BY <3>1
    <3>3. /\ unread \in [Users -> Nat] /\ Cardinality(Counted) \in Nat
          /\ \A u \in Users : unread[u] <= Cardinality(Counted)
      BY CountedFinite DEF DMInv, CountInv
    <3>4. unread' \in [Users -> Nat] /\ \A u \in Users : unread'[u] \in {0, unread[u]}
      BY <3>2, <3>3
    <3>5. \A u \in Users : unread'[u] <= Cardinality(Counted)
      BY <3>3, <3>4
    <3> QED BY <1>2, <3>4, <3>5 DEF CountInv
  <2> QED BY <1>2, <1>7, <2>3, <2>4 DEF DeleteClearsUnread, DMInv, ListInv
<1>8. CASE DeleteExpired \/ \E m \in DMs : MessageExpires(m)
  <2>1. table' \in [DMs -> {"none", "live", "expired", "deleted"}]
    BY <1>8 DEF DeleteExpired, MessageExpires, DMInv, ListInv
  <2>2. UNCHANGED <<cache, unread, reader, wipe>>
    BY <1>8 DEF DeleteExpired, MessageExpires
  <2> QED BY <1>2, <2>1, <2>2, CountKept, CountedFinite DEF DMInv, ListInv
<1>9. CASE \E u \in Users : ClearUnread(u)
  <2>1. CountInv'
    BY <1>2, <1>9, CountedFinite DEF ClearUnread, DMInv, CountInv
  <2>2. UNCHANGED <<table, cache, reader, wipe>>
    BY <1>9 DEF ClearUnread
  <2> QED BY <1>2, <2>1, <2>2 DEF DMInv, ListInv
<1> QED BY <1>4, <1>5, <1>6, <1>7, <1>8, <1>9

(* A stop of the process keeps the invariant.                              *)
LEMMA StopTyped ==
  ASSUME DMInv, Stop
  PROVE  DMInv'
<1>1. NotesTypeOK'
  BY CrashTyped DEF Stop, DMInv
<1>2. ListInv'
  <2>1. {} \in Lists
    BY DEF Lists
  <2>2. NoWipe \in [users : Seq(Users), todo : ShortKeys]
    <3>1. <<>> \in Seq(Users)
      OBVIOUS
    <3> QED BY <3>1, DroppedKeys DEF NoWipe
  <2> QED BY <2>1, <2>2 DEF Stop, DMInv, ListInv
<1>3. \A m \in DMs : call'[m] \in CallRecs /\ call'[m].step \in {"idle", "done"}
                     /\ (call[m].step \in Past => call'[m].step \in Past)
  BY DroppedKeys DEF Stop, DMInv, CallInv, CallRecs, CallSteps, Past
<1>4. CallInv'
  <2>1. call' \in [DMs -> CallRecs]
    BY <1>3 DEF Stop
  <2> QED BY <1>3, <2>1 DEF CallInv
<1>5. CountInv'
  <2>1. Counted \subseteq Counted' /\ Counted' \subseteq DMs
    BY <1>3 DEF Counted
  <2>2. Cardinality(Counted') \in Nat /\ Cardinality(Counted) <= Cardinality(Counted')
    BY <2>1, DMAssumption, FS_Subset, FS_CardinalityType
  <2> QED BY <2>2, CountKept DEF Stop, DMInv
<1> QED BY <1>1, <1>2, <1>4, <1>5 DEF DMInv

(* The invariant is inductive.                                             *)
LEMMA DMNextTyped ==
  ASSUME DMInv, [Next]_vars
  PROVE  DMInv'
<1>1. CASE UNCHANGED vars
  BY <1>1 DEF vars, dmvars, nvars, sockets, kafka, store, mysql, DMInv, NotesTypeOK, ListInv, CallInv,
              CountInv, Counted
<1>2. CASE NotesNext /\ UNCHANGED dmvars
  BY <1>2, NotesNextTyped DEF dmvars, DMInv, ListInv, CallInv, CountInv, Counted
<1>3. CASE \E m \in DMs : CreateMessage(m) \/ SendStep(m)
  BY <1>3, CallsTyped, PushTyped DEF SendStep
<1> QED BY <1>1, <1>2, <1>3, ListsTyped, StopTyped DEF Next

(* It holds at every moment of every run.                                  *)
LEMMA DMInvariant == Spec => []DMInv
BY DMInitTyped, DMNextTyped, PTL DEF Spec

(* The tables, queues and requests have their types, committed offsets are *)
(* of messages consumed, and no unread counter exceeds the messages sent.  *)
THEOREM NotesTypes == Spec => []TypeOK
BY DMInvariant, DMInvTypes, PTL

-----------------------------------------------------------------------------
(* The table of connections.                                               *)

(* A session that goes is taken out of the table of connections.           *)
LEMMA GoneSessionStep ==
  ASSUME DMInv, NoGoneSession, NotesNext
  PROVE  NoGoneSession'
<1>1. conns \in [Users -> Sessions \cup {None}] /\ sess \in [Sessions -> {"new", "open", "closed", "gone"}]
  BY DEF DMInv, NotesTypeOK
<1>2. ASSUME UNCHANGED <<conns, sess>>
      PROVE  NoGoneSession'
  BY <1>2 DEF NoGoneSession
<1>3. ASSUME NEW n \in Notes, Notify(n) \/ JobStep(n)
      PROVE  NoGoneSession'
  <2>1. \/ UNCHANGED <<conns, sess>>
        \/ conns' = [conns EXCEPT ![Target[n]] = None] /\ sess' = sess
    BY <1>3 DEF Notify, JobStep, PushLoads, PushWrites, SetHasUnread, PublishNotificationStore, FallbackWrites,
                FallbackFails, sockets
  <2> QED BY <1>1, <1>2, <2>1 DEF NoGoneSession
<1>4. ASSUME NEW s \in Sessions, NEW q \in BOOLEAN, Connect(s, q)
      PROVE  NoGoneSession'
  <2>1. /\ conns' = [conns EXCEPT ![UserOf[s]] = s] /\ sess' = [sess EXCEPT ![s] = "open"]
        /\ UserOf[s] \in Users
    BY <1>4, NotesAssumption DEF Connect
  <2> QED BY <1>1, <2>1 DEF NoGoneSession
<1>5. ASSUME NEW s \in Sessions, ClientCloses(s) \/ Disconnected(s)
      PROVE  NoGoneSession'
  <2>1. UserOf[s] \in Users
    BY NotesAssumption
  <2>2. \/ sess' = [sess EXCEPT ![s] = "closed"] /\ conns' = conns
        \/ sess' = [sess EXCEPT ![s] = "gone"] /\ conns' = [conns EXCEPT ![UserOf[s]] = None]
    BY <1>5 DEF ClientCloses, Disconnected, Entry
  <2> QED BY <1>1, <2>1, <2>2 DEF NoGoneSession
<1>6. ASSUME NEW s \in Sessions, SyncStepOf(s)
      PROVE  NoGoneSession'
  BY <1>2, <1>6 DEF SyncStepOf, HasUnread, GetUnreadByUserID, SyncSends, ClearHasUnread, MarkReadByUserID
<1>7. ASSUME NEW u \in Users, TimerFires(u) \/ forceIdleDisconnect(u)
      PROVE  NoGoneSession'
  <2>1. \/ UNCHANGED <<conns, sess>>
        \/ sess' = [sess EXCEPT ![conns[u]] = "closed"] /\ conns' = conns
        \/ conns' = [conns EXCEPT ![u] = None] /\ sess' = sess
    BY <1>7 DEF TimerFires, forceIdleDisconnect
  <2> QED BY <1>1, <1>2, <2>1 DEF NoGoneSession
<1>8. ASSUME NEW f \in Flushers, FetchMessage \/ CommitMessages \/ Drain(f) \/ FlushWrites(f) \/ FlushFails(f)
      PROVE  NoGoneSession'
  BY <1>2, <1>8 DEF FetchMessage, CommitMessages, Drain, FlushWrites, FlushFails, sockets
<1>9. "loop" \in Flushers /\ Other \subseteq Notes
  BY NotesAssumption DEF Flushers
<1> QED BY <1>3, <1>4, <1>5, <1>6, <1>7, <1>8, <1>9 DEF NotesNext

(* So the table never holds a session that is gone.                        *)
LEMMA GoneSessionNext ==
  ASSUME DMInv, NoGoneSession, [Next]_vars
  PROVE  NoGoneSession'
<1>1. ASSUME UNCHANGED <<conns, sess>>
      PROVE  NoGoneSession'
  BY <1>1 DEF NoGoneSession
<1>2. CASE UNCHANGED vars
  BY <1>1, <1>2 DEF vars, nvars, sockets
<1>3. ASSUME NEW m \in DMs, CreateMessage(m) \/ SendStep(m) \/ MessageExpires(m)
      PROVE  NoGoneSession'
  <2>1. \/ UNCHANGED <<conns, sess>>
        \/ conns' = [conns EXCEPT ![To[m]] = None] /\ sess' = sess
    BY <1>3 DEF CreateMessage, SendStep, MessageExpires, SendInvalidates, isUserOnline, PushLookup, pushDMToUser,
                IncrUnread, NotifyRecipient, nvars, sockets
  <2>2. conns \in [Users -> Sessions \cup {None}]
    BY DEF DMInv, NotesTypeOK
  <2> QED BY <1>1, <2>1, <2>2 DEF NoGoneSession
<1>4. CASE Stop
  BY <1>4 DEF Stop, NotesCrash, NoGoneSession
<1>5. CASE NotesNext /\ UNCHANGED dmvars
  BY <1>5, GoneSessionStep
<1>6. CASE \/ \E k \in Listed : ListMisses(k) \/ ListQueries(k) \/ ListSets(k) \/ EntryExpires(k)
           \/ \E u, v \in Users : u # v /\ DeleteConversation(u, v)
           \/ DeleteInvalidates \/ DeleteClearsUnread \/ DeleteExpired
           \/ \E u \in Users : ClearUnread(u)
  <2>1. UNCHANGED nvars
    BY <1>6 DEF ListMisses, ListQueries, ListSets, EntryExpires, DeleteConversation, DeleteInvalidates,
                DeleteClearsUnread, DeleteExpired, ClearUnread
  <2> QED BY <1>1, <2>1 DEF nvars, sockets
<1> QED BY <1>2, <1>3, <1>4, <1>5, <1>6 DEF Next

(* No interleaving of connects, overlapping sessions, closes, idle timers, *)
(* pushes that find the session closed and disconnect hooks leaves a       *)
(* session in the table whose disconnect hook has run.                     *)
THEOREM NoGoneSessionHolds == Spec => []NoGoneSession
<1>1. Init => NoGoneSession
  BY DEF Init, NotesInit, NoGoneSession
<1> QED BY <1>1, DMInvariant, GoneSessionNext, PTL DEF Spec

-----------------------------------------------------------------------------
(* Notifications on their way.                                             *)

(* What is appended to, taken from or put in front of a queue.             *)
LEMMA InQueues ==
  ASSUME NEW n, NEW a \in Seq(Message), NEW b \in Seq(Message), NEW m \in Message
  PROVE  /\ In(n, Append(a, m)) <=> In(n, a) \/ m.note = n
         /\ In(n, a \o b) <=> In(n, a) \/ In(n, b)
<1>1. /\ DOMAIN a = 1..Len(a) /\ DOMAIN b = 1..Len(b) /\ Len(a) \in Nat /\ Len(b) \in Nat
  BY LenProperties
<1>2. In(n, Append(a, m)) <=> In(n, a) \/ m.note = n
  <2>1. /\ Append(a, m) \in Seq(Message) /\ Len(Append(a, m)) = Len(a) + 1
        /\ DOMAIN Append(a, m) = 1..Len(a) + 1
        /\ \A i \in 1..Len(a) : Append(a, m)[i] = a[i]
        /\ Append(a, m)[Len(a) + 1] = m
    BY <1>1, AppendProperties
  <2>2. \A i \in 1..Len(a) + 1 : i \in 1..Len(a) \/ i = Len(a) + 1
    BY <1>1
  <2>3. 1..Len(a) \subseteq 1..Len(a) + 1 /\ Len(a) + 1 \in 1..Len(a) + 1
    BY <1>1
  <2> QED BY <1>1, <2>1, <2>2, <2>3 DEF In
<1>3. In(n, a \o b) <=> In(n, a) \/ In(n, b)
  <2>1. /\ a \o b \in Seq(Message) /\ DOMAIN (a \o b) = 1..Len(a) + Len(b)
        /\ \A i \in 1..Len(a) + Len(b) : (a \o b)[i] = IF i <= Len(a) THEN a[i] ELSE b[i - Len(a)]
    BY <1>1, ConcatProperties, LenProperties
  <2>2. ASSUME In(n, a \o b)
        PROVE  In(n, a) \/ In(n, b)
    <3>1. PICK i \in 1..Len(a) + Len(b) : (a \o b)[i].note = n
      BY <2>1, <2>2 DEF In
    <3>2. CASE i <= Len(a)
      BY <1>1, <2>1, <3>1, <3>2 DEF In
    <3>3. CASE ~(i <= Len(a))
      <4>1. i - Len(a) \in 1..Len(b) /\ (a \o b)[i] = b[i - Len(a)]
        BY <1>1, <2>1, <3>3
      <4> QED BY <1>1, <3>1, <4>1 DEF In
    <3> QED BY <3>2, <3>3
  <2>3. ASSUME In(n, a)
        PROVE  In(n, a \o b)
    <3>1. PICK i \in 1..Len(a) : a[i].note = n
      BY <1>1, <2>3 DEF In
    <3>2. i \in 1..Len(a) + Len(b) /\ i <= Len(a)
      BY <1>1
    <3> QED BY <2>1, <3>1, <3>2 DEF In
  <2>4. ASSUME In(n, b)
        PROVE  In(n, a \o b)
    <3>1. PICK i \in 1..Len(b) : b[i].note = n
      BY <1>1, <2>4 DEF In
    <3>2. i + Len(a) \in 1..Len(a) + Len(b) /\ ~(i + Len(a) <= Len(a)) /\ (i + Len(a)) - Len(a) = i
      BY <1>1
    <3>3. (a \o b)[i + Len(a)] = b[i]
      BY <2>1, <3>2
    <3> QED BY <2>1, <3>1, <3>2, <3>3 DEF In
  <2> QED BY <2>2, <2>3, <2>4
<1> QED BY <1>2, <1>3

(* A job that publishes, or falls back to a synchronous write.             *)
LEMMA JobKeeps ==
  ASSUME DMInv, NEW m \in Notes, Notify(m) \/ JobStep(m), NEW n \in Notes, Held(n)
  PROVE  Held(n)' \/ FallbackFails(n)
<1>1. job \in [Notes -> Job] /\ topic \in Seq(Message) /\ pos \in 0..Len(topic) /\ Len(topic) \in Nat
  BY LenProperties DEF DMInv, NotesTypeOK
<1>2. [note |-> m, read |-> job[m].read] \in Message
  BY <1>1 DEF Job, Message
<1>3. ASSUME UNCHANGED <<kafka, store, mysql>>, job'[n].step \notin {"idle", "done"} \/ n # m,
             \A o \in Notes : o # m => job'[o] = job[o]
      PROVE  Held(n)'
  BY <1>1, <1>3 DEF Held, In, kafka, store, mysql
<1>4. CASE Notify(m)
  <2>1. job'[m].step = "load" /\ (\A o \in Notes : o # m => job'[o] = job[o]) /\ UNCHANGED <<kafka, store, mysql>>
    BY <1>1, <1>4 DEF Notify, Deliver, NextStep
  <2> QED BY <1>3, <2>1
<1>5. CASE PushLoads(m) \/ PushWrites(m) \/ SetHasUnread(m)
  <2>1. job'[m].step \in {"flag", "write", "archive", "offline"} /\ (\A o \in Notes : o # m => job'[o] = job[o])
    <3>0. PICK t \in {"flag", "write", "archive", "offline"} : \E v :
            \/ job' = [job EXCEPT ![m].step = t, ![m].via = v]
            \/ job' = [job EXCEPT ![m].step = t, ![m].read = TRUE, ![m].via = v]
            \/ job' = [job EXCEPT ![m].step = t]
      BY <1>5 DEF PushLoads, PushWrites, SetHasUnread, NextStep
    <3>1. PICK v :
            \/ job' = [job EXCEPT ![m].step = t, ![m].via = v]
            \/ job' = [job EXCEPT ![m].step = t, ![m].read = TRUE, ![m].via = v]
            \/ job' = [job EXCEPT ![m].step = t]
      BY <3>0
    <3>2. CASE job' = [job EXCEPT ![m].step = t, ![m].via = v]
      BY <1>1, <3>1, <3>2 DEF Job
    <3>3. CASE job' = [job EXCEPT ![m].step = t, ![m].read = TRUE, ![m].via = v]
      BY <1>1, <3>1, <3>3 DEF Job
    <3>4. CASE job' = [job EXCEPT ![m].step = t]
      BY <1>1, <3>1, <3>4 DEF Job
    <3> QED BY <3>1, <3>2, <3>3, <3>4
  <2>2. UNCHANGED <<kafka, store, mysql>>
    BY <1>5 DEF PushLoads, PushWrites, SetHasUnread
  <2> QED BY <1>3, <2>1, <2>2
<1>6. CASE PublishNotificationStore(m)
  <2>1. /\ (\A o \in Notes : o # m => job'[o] = job[o]) /\ UNCHANGED <<pos, store, mysql>>
        /\ \/ job'[m].step = "done" /\ topic' = Append(topic, [note |-> m, read |-> job[m].read])
           \/ job'[m].step = "fallback" /\ topic' = topic
           \/ job'[m].step = "fallback" /\ topic' = Append(topic, [note |-> m, read |-> job[m].read])
    <3>1. /\ \E t \in {"done", "fallback"} : job' = [job EXCEPT ![m].step = t]
          /\ UNCHANGED <<pos, store, mysql>>
      BY <1>6 DEF PublishNotificationStore, NextStep
    <3>2. (\A o \in Notes : o # m => job'[o] = job[o])
      BY <1>1, <3>1
    <3>3. \A t : job' = [job EXCEPT ![m].step = t] => job'[m].step = t
      BY <1>1 DEF Job
    <3> QED BY <1>6, <3>1, <3>2, <3>3 DEF PublishNotificationStore, NextStep
  <2>2. ASSUME topic' = Append(topic, [note |-> m, read |-> job[m].read])
        PROVE  /\ Len(topic') = Len(topic) + 1 /\ topic'[Len(topic) + 1].note = m
               /\ \A i \in 1..Len(topic) : topic'[i] = topic[i]
    BY <1>1, <1>2, <2>2, AppendProperties
  <2>3. CASE n = m
    <3>1. CASE job'[m].step = "fallback"
      BY <2>3, <3>1 DEF Held
    <3>2. CASE topic' = Append(topic, [note |-> m, read |-> job[m].read])
      <4>1. Len(topic) + 1 \in (pos' + 1)..Len(topic')
        BY <1>1, <2>1, <2>2, <3>2
      <4> QED BY <2>2, <2>3, <3>2, <4>1 DEF Held
    <3> QED BY <2>1, <3>1, <3>2
  <2>4. CASE n # m
    <3>1. \A i \in (pos + 1)..Len(topic) : i \in (pos' + 1)..Len(topic') /\ topic'[i] = topic[i]
      BY <1>1, <2>1, <2>2
    <3>2. job'[n] = job[n] /\ UNCHANGED <<buffer, batch, rows>>
      BY <1>1, <2>1, <2>4 DEF store, mysql
    <3> QED BY <3>1, <3>2 DEF Held, In
  <2> QED BY <2>3, <2>4
<1>7. CASE FallbackWrites(m)
  <2>1. In(m, <<[note |-> m, read |-> job[m].read]>>) /\ <<[note |-> m, read |-> job[m].read]>> \in Seq(Message)
    <3>1. \A x \in Message : <<x>> \in Seq(Message) /\ 1 \in DOMAIN <<x>> /\ <<x>>[1] = x
      OBVIOUS
    <3>2. [note |-> m, read |-> job[m].read].note = m
      OBVIOUS
    <3> QED BY <1>2, <3>1, <3>2 DEF In
  <2>2. rows'[m] # None /\ (rows[n] # None => rows'[n] # None)
    BY <1>7, <2>1, BatchRows DEF FallbackWrites, DMInv, NotesTypeOK, RowStates
  <2>3. (\A o \in Notes : o # m => job'[o] = job[o]) /\ UNCHANGED <<topic, pos, buffer, batch>>
    BY <1>1, <1>7 DEF FallbackWrites, NextStep, kafka, store
  <2> QED BY <1>1, <2>2, <2>3 DEF Held, In
<1>8. CASE FallbackFails(m)
  <2>1. (\A o \in Notes : o # m => job'[o] = job[o]) /\ UNCHANGED <<kafka, store, mysql>>
    BY <1>1, <1>8 DEF FallbackFails, NextStep
  <2> QED BY <1>3, <1>8, <2>1
<1> QED BY <1>4, <1>5, <1>6, <1>7, <1>8 DEF JobStep

(* Queue, buffer, batch, row: what leaves one is in the next.              *)
LEMMA StoreKeeps ==
  ASSUME DMInv, NEW f \in Flushers,
         FetchMessage \/ CommitMessages \/ Drain(f) \/ FlushWrites(f) \/ FlushFails(f),
         NEW n \in Notes, Held(n)
  PROVE  Held(n)'
<1>1. /\ topic \in Seq(Message) /\ pos \in 0..Len(topic) /\ Len(topic) \in Nat
      /\ buffer \in Seq(Message) /\ batch \in [Flushers -> Seq(Message)] /\ rows \in [Notes -> RowStates]
  BY LenProperties DEF DMInv, NotesTypeOK, RowStates
<1>2. ~In(n, <<>>)
  BY DEF In
<1>3. CASE FetchMessage
  <2>1. /\ pos' = pos + 1 /\ buffer' = Append(buffer, topic[pos + 1]) /\ pos < Len(topic)
        /\ UNCHANGED <<job, topic, batch, rows>>
    BY <1>3 DEF FetchMessage, mysql
  <2>2. topic[pos + 1] \in Message
    BY <1>1, <2>1, ElementOfSeq
  <2>3. In(n, buffer') <=> In(n, buffer) \/ topic[pos + 1].note = n
    BY <1>1, <2>1, <2>2, InQueues
  <2>4. \A i \in (pos + 1)..Len(topic) : i = pos + 1 \/ i \in (pos' + 1)..Len(topic)
    BY <1>1, <2>1
  <2> QED BY <2>1, <2>3, <2>4 DEF Held, In
<1>4. CASE CommitMessages
  BY <1>4 DEF CommitMessages, store, mysql, Held, In
<1>5. CASE Drain(f)
  <2>1. /\ UNCHANGED <<job, topic, pos, rows>>
        /\ \/ UNCHANGED <<buffer, batch>>
           \/ buffer' = <<>> /\ batch[f] = <<>> /\ batch' = [batch EXCEPT ![f] = buffer]
    BY <1>5 DEF Drain, store, mysql
  <2>2. CASE UNCHANGED <<buffer, batch>>
    BY <2>1, <2>2 DEF Held, In
  <2>3. CASE buffer' = <<>> /\ batch[f] = <<>> /\ batch' = [batch EXCEPT ![f] = buffer]
    <3>1. In(n, buffer) => In(n, batch'[f])
      BY <1>1, <2>3 DEF In
    <3>2. \A g \in Flushers : In(n, batch[g]) => In(n, batch'[g])
      BY <1>1, <1>2, <2>3 DEF In
    <3> QED BY <2>1, <3>1, <3>2 DEF Held, In
  <2> QED BY <2>1, <2>2, <2>3
<1>6. CASE FlushWrites(f)
  <2>1. /\ UNCHANGED <<job, topic, pos, buffer>> /\ batch' = [batch EXCEPT ![f] = <<>>]
        /\ rows' = BatchCreateNotifications(batch[f])
    BY <1>6 DEF FlushWrites
  <2>2. (In(n, batch[f]) => rows'[n] # None) /\ (rows[n] # None => rows'[n] # None)
    BY <1>1, <2>1, BatchRows
  <2>3. \A g \in Flushers : g # f => batch'[g] = batch[g]
    BY <1>1, <2>1
  <2> QED BY <2>1, <2>2, <2>3 DEF Held, In
<1>7. CASE FlushFails(f)
  <2>1. /\ UNCHANGED <<job, topic, pos>> /\ batch' = [batch EXCEPT ![f] = <<>>]
        /\ rows' = rows \/ rows' = BatchCreateNotifications(batch[f])
        /\ buffer' = batch[f] \o buffer
    BY <1>7 DEF FlushFails, PutBack
  <2>2. rows[n] # None => rows'[n] # None
    BY <1>1, <2>1, BatchRows
  <2>3. In(n, batch[f]) \/ In(n, buffer) => In(n, buffer')
    <3>1. (\E m \in Message : TRUE) => (In(n, batch[f]) \/ In(n, buffer) => In(n, buffer'))
      BY <1>1, <2>1, InQueues
    <3>2. \A q \in Seq(Message) : In(n, q) => \E m \in Message : TRUE
      BY ElementOfSeq, LenProperties DEF In
    <3> QED BY <1>1, <3>1, <3>2
  <2>4. \A g \in Flushers : g # f => batch'[g] = batch[g]
    BY <1>1, <2>1
  <2> QED BY <2>1, <2>2, <2>3, <2>4 DEF Held, In
<1> QED BY <1>3, <1>4, <1>5, <1>6, <1>7

(* Connections, timers and the marking of rows keep notifications.         *)
LEMMA OthersKeep ==
  ASSUME DMInv, NEW n \in Notes, Held(n),
         \/ \E s \in Sessions : \/ \E q \in BOOLEAN : Connect(s, q)
                                \/ ClientCloses(s) \/ Disconnected(s) \/ SyncStepOf(s)
         \/ \E u \in Users : TimerFires(u) \/ forceIdleDisconnect(u)
  PROVE  Held(n)'
<1>1. UNCHANGED <<job, topic, pos, buffer, batch>>
  BY DEF Connect, ClientCloses, Disconnected, SyncStepOf, HasUnread, GetUnreadByUserID, SyncSends, ClearHasUnread,
         MarkReadByUserID, TimerFires, forceIdleDisconnect, kafka, store
<1>2. rows[n] # None => rows'[n] # None
  <2>1. \/ rows' = rows
        \/ \E s \in Sessions : rows' = [m \in Notes |-> IF m \in Unread(UserOf[s]) THEN "read" ELSE rows[m]]
    BY DEF Connect, ClientCloses, Disconnected, SyncStepOf, HasUnread, GetUnreadByUserID, SyncSends, ClearHasUnread,
           MarkReadByUserID, TimerFires, forceIdleDisconnect, mysql
  <2> QED BY <2>1, NotesAssumption
<1> QED BY <1>1, <1>2 DEF Held, In

(* The step: a notification that was held and is not any more was lost to  *)
(* a crash or to its failed synchronous write.                             *)
LEMMA HeldStep ==
  ASSUME DMInv, [Next]_vars, NEW n \in Notes, Held(n), ~Held(n)'
  PROVE  crashes' # crashes \/ FallbackFails(n)
<1>1. ASSUME UNCHANGED nvars
      PROVE  FALSE
  BY <1>1 DEF nvars, kafka, store, mysql, Held, In
<1>2. CASE UNCHANGED vars
  BY <1>1, <1>2 DEF vars
<1>3. CASE NotesNext
  <2>1. "loop" \in Flushers /\ Other \subseteq Notes
    BY NotesAssumption DEF Flushers
  <2> QED BY <1>3, <2>1, JobKeeps, StoreKeeps, OthersKeep DEF NotesNext
<1>4. ASSUME NEW m \in DMs, CreateMessage(m) \/ SendStep(m) \/ MessageExpires(m)
      PROVE  FALSE
  <2>1. CASE pushDMToUser(m)
    BY <2>1 DEF pushDMToUser, kafka, store, mysql, Held, In
  <2>2. CASE NotifyRecipient(m)
    <3>1. Notify(NoteOf[m]) /\ NoteOf[m] \in Notes
      BY <2>2, DMAssumption DEF NotifyRecipient, Notify
    <3>2. FallbackFails(n) => ~Notify(NoteOf[m])
      <4>1. FallbackFails(n) => job'[n].step = "done" /\ job[n].step = "fallback"
        BY DEF FallbackFails, NextStep, DMInv, NotesTypeOK, Job
      <4>2. Notify(NoteOf[m]) => job'[n].step # "done" \/ job'[n] = job[n]
        BY <3>1 DEF Notify, Deliver, NextStep, DMInv, NotesTypeOK, Job
      <4> QED BY <4>1, <4>2
    <3> QED BY <3>1, <3>2, JobKeeps
  <2> QED BY <1>1, <1>4, <2>1, <2>2 DEF CreateMessage, SendStep, MessageExpires, SendInvalidates, isUserOnline,
             PushLookup, IncrUnread
<1>5. CASE Stop
  <2>1. crashes \in Nat /\ crashes' = crashes + 1
    BY <1>5 DEF Stop, NotesCrash, DMInv, NotesTypeOK
  <2> QED BY <2>1
<1>6. CASE \/ \E k \in Listed : ListMisses(k) \/ ListQueries(k) \/ ListSets(k) \/ EntryExpires(k)
           \/ \E u, v \in Users : u # v /\ DeleteConversation(u, v)
           \/ DeleteInvalidates \/ DeleteClearsUnread \/ DeleteExpired
           \/ \E u \in Users : ClearUnread(u)
  BY <1>1, <1>6 DEF ListMisses, ListQueries, ListSets, EntryExpires, DeleteConversation, DeleteInvalidates,
                    DeleteClearsUnread, DeleteExpired, ClearUnread
<1> QED BY <1>2, <1>3, <1>4, <1>5, <1>6 DEF Next

(* No step loses a notification on its way from the call that delivers it  *)
(* to its row, but a crash and a failed synchronous write: what a goroutine*)
(* publishes is in the topic before the goroutine ends, the consumer puts  *)
(* what it fetches into the buffer, and a batch that MySQL refuses goes    *)
(* back into it, whichever of the loop and the ticker flushes.             *)
THEOREM KeptUnlessCrashHolds == Spec => KeptUnlessCrash
<1>1. DMInv /\ [Next]_vars =>
        [\A n \in Notes : Held(n) /\ ~Held(n)' => crashes' # crashes \/ FallbackFails(n)]_nvars
  BY HeldStep
<1> QED BY <1>1, DMInvariant, PTL DEF Spec, KeptUnlessCrash

-----------------------------------------------------------------------------
(* The reminder of a message: SendMessage has still to cause it, or the    *)
(* notification is on its way or stored.                                   *)
Underway   == {"drop", "online", "push", "write", "count", "notify"}
Reminds(m) == call[m].step \in Underway \/ Held(NoteOf[m])

(* A call that ends has handed its notification over.                      *)
LEMMA CallReminds ==
  ASSUME DMInv, [Next]_vars, NEW m \in DMs, call[m].step \in Underway, crashes' = crashes
  PROVE  call'[m].step \in Underway \/ job'[NoteOf[m]].step = "load"
<1>1. /\ call \in [DMs -> CallRecs] /\ job \in [Notes -> Job] /\ NoteOf[m] \in Notes
      /\ crashes \in Nat
  BY DMAssumption DEF DMInv, CallInv, NotesTypeOK
<1>2. ASSUME UNCHANGED call
      PROVE  call'[m].step \in Underway
  BY <1>2
<1>3. ASSUME NEW o \in DMs, o # m, CreateMessage(o) \/ SendStep(o)
      PROVE  call'[m] = call[m]
  BY <1>1, <1>3 DEF CreateMessage, SendStep, SendInvalidates, isUserOnline, PushLookup, pushDMToUser, IncrUnread,
                    NotifyRecipient, CallStep
<1>4. ~CreateMessage(m)
  BY DEF CreateMessage, Underway
<1>5. ASSUME SendInvalidates(m) \/ isUserOnline(m) \/ PushLookup(m) \/ pushDMToUser(m) \/ IncrUnread(m)
      PROVE  call'[m].step \in Underway
  <2>1. CASE SendInvalidates(m)
    <3>1. call' = [call EXCEPT ![m].todo = Tail(@), ![m].step = IF Len(call[m].todo) = 1 THEN "online" ELSE @]
      BY <2>1 DEF SendInvalidates
    <3>2. call'[m].step = IF Len(call[m].todo) = 1 THEN "online" ELSE call[m].step
      BY <1>1, <3>1 DEF CallRecs
    <3> QED BY <3>2 DEF Underway
  <2>2. ASSUME NEW t \in Underway, NEW v, call' = [call EXCEPT ![m].step = t, ![m].via = v]
        PROVE  call'[m].step \in Underway
    BY <1>1, <2>2 DEF CallRecs
  <2>3. CASE isUserOnline(m) \/ PushLookup(m) \/ pushDMToUser(m) \/ IncrUnread(m)
    <3>1. \E t \in Underway : \E v : call' = [call EXCEPT ![m].step = t, ![m].via = v]
      BY <2>3 DEF isUserOnline, PushLookup, pushDMToUser, IncrUnread, CallStep, Underway
    <3> QED BY <2>2, <3>1
  <2> QED BY <1>5, <2>1, <2>3
<1>6. ASSUME NotifyRecipient(m)
      PROVE  job'[NoteOf[m]].step = "load"
  BY <1>1, <1>6 DEF NotifyRecipient, Deliver, NextStep, Job
<1>7. CASE UNCHANGED vars
  BY <1>2, <1>7 DEF vars, dmvars
<1>8. CASE NotesNext /\ UNCHANGED dmvars
  BY <1>2, <1>8 DEF dmvars
<1>9. CASE \/ \E o \in DMs : MessageExpires(o)
           \/ \E k \in Listed : ListMisses(k) \/ ListQueries(k) \/ ListSets(k) \/ EntryExpires(k)
           \/ \E u, v \in Users : u # v /\ DeleteConversation(u, v)
           \/ DeleteInvalidates \/ DeleteClearsUnread \/ DeleteExpired
           \/ \E u \in Users : ClearUnread(u)
  BY <1>2, <1>9 DEF MessageExpires, ListMisses, ListQueries, ListSets, EntryExpires, DeleteConversation,
                    DeleteInvalidates, DeleteClearsUnread, DeleteExpired, ClearUnread
<1>10. ~Stop
  BY <1>1 DEF Stop, NotesCrash
<1>11. ASSUME NEW o \in DMs, CreateMessage(o) \/ SendStep(o)
       PROVE  call'[m].step \in Underway \/ job'[NoteOf[m]].step = "load"
  BY <1>3, <1>4, <1>5, <1>6, <1>11 DEF SendStep
<1> QED BY <1>7, <1>8, <1>9, <1>10, <1>11 DEF Next

(* No step loses the reminder of a message whose SendMessage has stored    *)
(* it, also when the session seen online is closed or replaced before the  *)
(* push: only a crash does, and the synchronous write that fails after a   *)
(* failed publish.                                                         *)
THEOREM RemindersKept ==
  Spec => [][\A m \in DMs : Reminds(m) /\ ~Reminds(m)' => crashes' # crashes \/ FallbackFails(NoteOf[m])]_vars
<1>1. ASSUME DMInv, [Next]_vars, NEW m \in DMs, Reminds(m), ~Reminds(m)', crashes' = crashes
      PROVE  FallbackFails(NoteOf[m])
  <2>1. NoteOf[m] \in Notes
    BY DMAssumption
  <2>2. CASE Held(NoteOf[m])
    <3>1. ~Held(NoteOf[m])'
      BY <1>1 DEF Reminds
    <3> QED BY <1>1, <2>1, <2>2, <3>1, HeldStep
  <2>3. CASE call[m].step \in Underway
    <3>1. call'[m].step \in Underway \/ job'[NoteOf[m]].step = "load"
      BY <1>1, <2>3, CallReminds
    <3> QED BY <1>1, <3>1 DEF Reminds, Held
  <2> QED BY <1>1, <2>2, <2>3 DEF Reminds
<1>2. DMInv /\ [Next]_vars =>
        [\A m \in DMs : Reminds(m) /\ ~Reminds(m)' => crashes' # crashes \/ FallbackFails(NoteOf[m])]_vars
  BY <1>1
<1> QED BY <1>2, DMInvariant, PTL DEF Spec

-----------------------------------------------------------------------------
(* A list is settled when Redis, and the request about to write it there,  *)
(* hold what MySQL answers.                                                *)
ListSettled(k) == /\ cache[k] # Miss => cache[k] = Answer(k)
                  /\ reader[k].step = "set" => reader[k].list = Answer(k)

(* What keeps the rows, or what the list is made of, keeps the list.       *)
LEMMA SameAnswer ==
  ASSUME NEW k \in Keys, ListSettled(k), Answer(k)' = Answer(k),
         cache'[k] \in {cache[k], Miss}, reader'[k] = reader[k] \/ reader'[k].step # "set"
  PROVE  ListSettled(k)'
BY DEF ListSettled

(* ListPeers has the names of some peers only, their look-ups failed.      *)
PeerLeftOut(k) == /\ ListQueries(k) /\ reader'[k].step = "set"
                  /\ Len(k) = 1 /\ DbFaults
                  /\ reader'[k].list \subseteq Answer(k) /\ reader'[k].list # Answer(k)

(* Two things only disturb a list that is settled: a change of what MySQL  *)
(* answers, and a look-up that fails and has ListPeers leave a peer out.   *)
(* No slow request, no DROP and no expiry, in whichever order, brings an   *)
(* old list back.  What ListsConverge needs besides is that requests end   *)
(* and keys expire.                                                        *)
THEOREM ListsStaySettled ==
  Spec => [][\A k \in Keys : ListSettled(k) /\ ~ListSettled(k)'
                             => Answer(k)' # Answer(k) \/ PeerLeftOut(k)]_vars
<1>1. ASSUME DMInv, [Next]_vars, NEW k \in Keys, ListSettled(k), Answer(k)' = Answer(k), ~PeerLeftOut(k)
      PROVE  ListSettled(k)'
  <2>0. /\ cache \in [Keys -> {Miss} \cup Lists]
        /\ reader \in [Keys -> [step : {"idle", "query", "set"}, list : Lists]]
    BY <1>1 DEF DMInv, ListInv
  <2>1. CASE UNCHANGED <<cache, reader>>
    BY <1>1, <2>1, SameAnswer
  <2>2. ASSUME NEW l, Invalidate(l), UNCHANGED reader
        PROVE  ListSettled(k)'
    <3>1. cache'[k] \in {cache[k], Miss}
      BY <2>0, <2>2 DEF Invalidate
    <3> QED BY <1>1, <2>2, <3>1, SameAnswer
  <2>3. ASSUME NEW m \in DMs, SendInvalidates(m)
        PROVE  ListSettled(k)'
    BY <1>1, <2>2, <2>3 DEF SendInvalidates
  <2>4. CASE DeleteInvalidates
    BY <1>1, <2>2, <2>4 DEF DeleteInvalidates
  <2>5. ASSUME NEW l, ListMisses(l)
        PROVE  ListSettled(k)'
    <3>1. reader'[k] = reader[k] \/ reader'[k].step = "query"
      BY <2>0, <2>5 DEF ListMisses
    <3> QED BY <1>1, <2>5, <3>1, SameAnswer DEF ListMisses
  <2>6. ASSUME NEW l, ListQueries(l)
        PROVE  ListSettled(k)'
    <3>1. \/ reader'[k] = reader[k] \/ reader'[k].step = "idle"
          \/ k = l /\ \E list \in Found(k) : reader'[k] = [step |-> "set", list |-> list]
      BY <2>0, <2>6 DEF ListQueries
    <3>2. UNCHANGED cache
      BY <2>6 DEF ListQueries
    <3>3. CASE k = l /\ \E list \in Found(k) : reader'[k] = [step |-> "set", list |-> list]
      <4>0. PICK list \in Found(k) : reader'[k] = [step |-> "set", list |-> list]
        BY <3>3
      <4>1. reader'[k].list = Answer(k)
        BY <1>1, <2>6, <3>3, <4>0 DEF Found, PeerLeftOut
      <4> QED BY <1>1, <3>2, <4>1 DEF ListSettled
    <3> QED BY <1>1, <3>1, <3>2, <3>3, SameAnswer
  <2>7. ASSUME NEW l, ListSets(l)
        PROVE  ListSettled(k)'
    <3>1. reader'[k] = reader[k] \/ reader'[k].step = "idle"
      BY <2>0, <2>7 DEF ListSets
    <3>2. CASE k = l
      <4>1. cache'[k] = reader[k].list /\ reader[k].list = Answer(k) /\ reader'[k].step = "idle"
        BY <1>1, <2>0, <2>7, <3>2 DEF ListSets, ListSettled
      <4> QED BY <1>1, <4>1 DEF ListSettled
    <3>3. CASE k # l
      <4>1. cache'[k] = cache[k]
        BY <2>0, <2>7, <3>3 DEF ListSets
      <4> QED BY <1>1, <3>1, <4>1, SameAnswer
    <3> QED BY <3>2, <3>3
  <2>8. ASSUME NEW l, EntryExpires(l)
        PROVE  ListSettled(k)'
    BY <2>2, <2>8 DEF EntryExpires
  <2>9. CASE Stop
    <3>1. UNCHANGED cache /\ reader'[k].step = "idle"
      BY <2>9 DEF Stop
    <3> QED BY <1>1, <3>1, SameAnswer
  <2>10. CASE \/ NotesNext /\ UNCHANGED dmvars
              \/ \E m \in DMs : \/ CreateMessage(m) \/ isUserOnline(m) \/ PushLookup(m)
                                \/ pushDMToUser(m) \/ IncrUnread(m) \/ NotifyRecipient(m)
                                \/ MessageExpires(m)
              \/ \E u, v \in Users : DeleteConversation(u, v)
              \/ DeleteClearsUnread \/ DeleteExpired
              \/ \E u \in Users : ClearUnread(u)
              \/ UNCHANGED vars
    BY <2>1, <2>10 DEF dmvars, vars, CreateMessage, isUserOnline, PushLookup, pushDMToUser, IncrUnread,
                       NotifyRecipient, MessageExpires, DeleteConversation, DeleteClearsUnread,
                       DeleteExpired, ClearUnread
  <2> QED BY <1>1, <2>3, <2>4, <2>5, <2>6, <2>7, <2>8, <2>9, <2>10 DEF Next, SendStep
<1>2. DMInv /\ [Next]_vars => [\A k \in Keys : ListSettled(k) /\ ~ListSettled(k)'
                                              => Answer(k)' # Answer(k) \/ PeerLeftOut(k)]_vars
  BY <1>1
<1> QED BY <1>2, DMInvariant, PTL DEF Spec

=============================================================================
