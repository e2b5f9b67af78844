----------------------------- MODULE AgentChat -----------------------------
(***************************************************************************)
(* The agent gateway: the chat sessions it keeps in Redis, the slots that  *)
(* bound the calls to the Python agent, and RunAgentChat, which reads the  *)
(* history of a session, consumes the agent's stream (AgentStream) and     *)
(* stores the exchange.  Web users reach it through the handlers below,    *)
(* instant-messaging users through ChannelHub, which runs the same turns   *)
(* with op = "im".                                                         *)
(*                                                                         *)
(* A process is one request; it takes one step per Redis command or        *)
(* pipeline.  A message in a session is the exchange of the process that   *)
(* stored it, 0 for one of before sessions.  Titles and timestamps of      *)
(* sessions are left out; the index is in the order of its scores.         *)
(***************************************************************************)
EXTENDS AgentStream

CONSTANTS
  Calls,         \* bound: requests
  Busy,          \* bound: requests at work
  MaxConc,       \* AGENT_MAX_CONCURRENCY
  MaxShort,      \* agentChatMaxShortMessages, in exchanges
  Expiries,      \* bound: keys that expire
  HasLegacy,     \* whether the web user has a conversation of before sessions
  Faulty,        \* bound: <<call, step>>: commands of Redis that may fail, a write also after it took effect
  DeadlineAt,    \* bound: steps of a turn at which its context may end
  None

ASSUME ChatAssumption ==
  /\ {Calls, Busy, MaxConc, MaxShort, Expiries} \subseteq Nat
  /\ None \notin Nat

VARIABLES
  store,     \* per user: session index, current session, messages, legacy list
  made,      \* sessions created: the ids newSessionID has returned
  sem,       \* agent slots taken
  proc,
  misread,   \* history: some turn record was not faithful to its stream, or its turn not stored by it
  gone,      \* history: sessions deleted while no turn ran in them
  expiries

Procs   == 1..Calls
WebUser == 1
Uids    == 1..(WebUser + Calls)
LegacySid == 0
Sids    == 0..Calls   \* a call creates one session at most
cvars   == <<store, made, sem, proc, misread, gone, expiries>>

Idle == [op |-> "none", uid |-> WebUser, sid |-> None, step |-> "idle", cur |-> None,
         mig |-> "no", canceled |-> FALSE, hist |-> <<>>, req |-> None]
WebOps == {"web", "chat", "history", "clear", "list", "create", "delete"}

ChatTypeOK ==
  /\ \A u \in Uids : LET s == store[u] IN
       /\ s.index \in Seq(Sids) /\ IsInjective(s.index) /\ s.current \in Sids \cup {None}
       /\ \A i \in Sids : s.msgs[i] \in Seq(0..Calls)
       /\ s.legacy \in BOOLEAN
  /\ made \in Sids /\ sem \in 0..MaxConc /\ expiries \in 0..Expiries
  /\ \A p \in Procs : /\ proc[p].op \in WebOps \cup {"none", "im"} /\ proc[p].uid \in Uids
                      /\ proc[p].sid \in Sids \cup {None} /\ proc[p].mig \in {"no", "read", "done"}
  /\ misread \in BOOLEAN /\ gone \subseteq Uids \X Sids

ChatInit ==
  /\ store = [u \in Uids |-> [index |-> <<>>, current |-> None, msgs |-> [s \in Sids |-> <<>>],
                              legacy |-> HasLegacy /\ u = WebUser]]
  /\ made = 0 /\ sem = 0 /\ expiries = 0 /\ gone = {} /\ misread = FALSE
  /\ proc = [p \in Procs |-> Idle]

-----------------------------------------------------------------------------
Ends   == {"idle", "done", "lost"}
Active == {p \in Procs : proc[p].step \notin Ends}
Mine(p) == store[proc[p].uid]
Listed(u) == ToSet(store[u].index)

CanBegin(p) == /\ proc[p].step = "idle" /\ Cardinality(Active) < Busy
               /\ \A q \in 1..(p - 1) : proc[q].step # "idle"

(* A context that has ended fails every command of its turn.               *)
Ok(p)  == ~proc[p].canceled
Err(p) == <<p, proc[p].step>> \in Faulty \/ proc[p].canceled

(* The handler returns, and the deferred release of the slot runs; a turn  *)
(* of ChannelHub has a reply to send first.                                *)
SlotsOf(op) == IF op = "chat" THEN 1 ELSE 0
Ended(r) == IF r.op = "im" THEN [Idle EXCEPT !.op = "im", !.req = r.req, !.step = "reply"]
                           ELSE [Idle EXCEPT !.op = "web", !.step = "done"]
Goto(p, r) ==
  /\ proc' = [proc EXCEPT ![p] = IF r.step = "end" THEN Ended(r) ELSE [r EXCEPT !.mig = "no"]]
  /\ sem' = IF r.step = "end" THEN sem - SlotsOf(r.op) ELSE sem
To(p, step) == Goto(p, [proc[p] EXCEPT !.step = step])

(* A write to the keys of a user, and where the call goes on.              *)
Put(p, new, ok, err) ==
  LET written == [store EXCEPT ![proc[p].uid] = new]
  IN  \/ Ok(p) /\ store' = written /\ To(p, ok)
      \/ Err(p) /\ store' \in {store, written} /\ To(p, err)

Rest == UNCHANGED <<misread, gone, expiries>>
ReadOnly == UNCHANGED <<store, made>> /\ Rest

(* ZREM, of a member that a sorted set has once; ZADD with the current     *)
(* time puts a session in front.                                           *)
Removed(index, s) ==
  IF s \in ToSet(index) THEN RemoveAt(index, CHOOSE i \in DOMAIN index : index[i] = s) ELSE index
Doubled(index, s) == <<s>> \o index
Touched(index, s) == <<s>> \o Removed(index, s)

-----------------------------------------------------------------------------
(* migrateLegacyIfNeeded, which every method of the store calls first and  *)
(* whose errors they ignore.                                               *)

StoreSteps == {"current", "known", "exists", "bound", "switch", "create", "sessions", "relist",
               "history", "append", "del_read"}
NeedsMigration(u) == store[u].legacy /\ store[u].index = <<>>
At(p, step) == /\ proc[p].step = step
               /\ step \in StoreSteps =>
                    \/ proc[p].mig = "done"
                    \/ proc[p].mig = "no" /\ ~NeedsMigration(proc[p].uid)

MigrateReads(p) ==
  /\ proc[p].step \in StoreSteps /\ proc[p].mig = "no" /\ NeedsMigration(proc[p].uid)
  /\ \/ Ok(p) /\ proc' = [proc EXCEPT ![p].mig = "read"]
     \/ Err(p) /\ proc' = [proc EXCEPT ![p].mig = "done"]
  /\ UNCHANGED <<store, made, sem>> /\ Rest

MigratePipe(p) ==
  /\ proc[p].mig = "read"
  /\ LET m == Mine(p)
         moved == [m EXCEPT !.msgs[LegacySid] = @ \o <<0>>, !.index = Touched(@, LegacySid),
                            !.current = LegacySid, !.legacy = FALSE]
         written == [store EXCEPT ![proc[p].uid] = moved]
     IN  store' \in (IF Ok(p) THEN {written} ELSE {}) \cup (IF Err(p) THEN {store, written} ELSE {})
  /\ proc' = [proc EXCEPT ![p].mig = "done"]
  /\ UNCHANGED <<made, sem>> /\ Rest

-----------------------------------------------------------------------------
(* RedisAgentChatStore.                                                    *)

AfterCurrent(op, cur) ==
  IF op = "list" \/ (op = "clear" /\ cur = None) THEN "end"
  ELSE IF op = "clear" THEN "del_read"
  ELSE IF cur = None THEN "card" ELSE "exists"

GetCurrentSessionID(p) ==
  /\ At(p, "current")
  /\ LET cur == Mine(p).current
     IN  \/ Ok(p) /\ Goto(p, [proc[p] EXCEPT !.sid = cur, !.step = AfterCurrent(proc[p].op, cur)])
         \/ Err(p) /\ To(p, "end")
  /\ ReadOnly

Unchecked(p) == {TRUE}
Exists(p) == (IF Ok(p) THEN {proc[p].sid \in Listed(proc[p].uid)} ELSE {})
             \cup (IF Err(p) THEN {FALSE} ELSE {})

(* Of a session the request names, of the current one, of the one a chat   *)
(* is bound to; an error counts as absence.                                *)
SessionExists(p) ==
  \E found \in Exists(p) :
    /\ \/ /\ At(p, "known")
          /\ To(p, IF ~found THEN "end" ELSE IF proc[p].op = "delete" THEN "del_read" ELSE "switch")
       \/ At(p, "exists") /\ To(p, IF found THEN "history" ELSE "card")
       \/ At(p, "bound") /\ To(p, IF found THEN "history" ELSE "create")
    /\ ReadOnly

SetCurrentSession(p) ==
  /\ At(p, "switch")
  /\ \E found \in Exists(p) : To(p, IF found THEN "point" ELSE "history")
  /\ ReadOnly

PointAt(p) ==
  /\ At(p, "point")
  /\ Put(p, [Mine(p) EXCEPT !.current = proc[p].sid], "history", "history")
  /\ UNCHANGED made /\ Rest

(* The rest of EnsureCurrentOrCreate: without a current session that is    *)
(* there, the newest of the index, or a new one.                           *)
CountSessions(p) ==
  /\ At(p, "card")
  /\ \/ Ok(p) /\ To(p, IF Mine(p).index = <<>> THEN "create" ELSE "top")
     \/ Err(p) /\ To(p, "end")
  /\ ReadOnly

NewestSession(p) ==
  /\ At(p, "top")
  /\ \/ /\ Ok(p) /\ Mine(p).index # <<>>
        /\ Goto(p, [proc[p] EXCEPT !.sid = Head(Mine(p).index), !.step = "point"])
     \/ (Err(p) \/ Mine(p).index = <<>>) /\ To(p, "create")
  /\ ReadOnly

AfterCreate(op) ==
  CASE op = "im" -> "bind" [] op = "list" -> "relist" [] op = "create" -> "end" [] OTHER -> "history"

CreateSession(p) ==
  /\ At(p, "create")
  /\ made' = made + 1
  /\ LET s == made + 1
         new == [Mine(p) EXCEPT !.index = Touched(@, s), !.current = s]
         written == [store EXCEPT ![proc[p].uid] = new]
     IN  \/ /\ Ok(p) /\ store' = written
            /\ Goto(p, [proc[p] EXCEPT !.sid = s, !.step = AfterCreate(proc[p].op)])
         \/ Err(p) /\ store' \in {store, written} /\ To(p, "end")
  /\ Rest

ListSessions(p) ==
  /\ \/ At(p, "sessions") /\ Ok(p) /\ To(p, IF Mine(p).index = <<>> THEN "create" ELSE "current")
     \/ At(p, "relist") /\ Ok(p) /\ To(p, "current")
     \/ (At(p, "sessions") \/ At(p, "relist")) /\ Err(p) /\ To(p, "end")
  /\ ReadOnly

Suffix(seq) == SubSeq(seq, Len(seq) - Min({Len(seq), MaxShort}) + 1, Len(seq))

(* HistoryProxy answers with it; a turn goes on without it after an error. *)
ListMessages(p) ==
  /\ At(p, "history")
  /\ LET msgs == Mine(p).msgs[proc[p].sid]
         next == IF proc[p].op = "history" THEN "end" ELSE "stream"
     IN  \/ Ok(p) /\ Goto(p, [proc[p] EXCEPT !.hist = Suffix(msgs), !.step = next])
         \/ Err(p) /\ To(p, next)
  /\ ReadOnly

AppendMessages(p) ==
  /\ At(p, "append")
  /\ LET s == proc[p].sid
     IN  Put(p, [Mine(p) EXCEPT !.msgs[s] = Suffix(@ \o <<p>>), !.index = Touched(@, s), !.current = s],
             "end", "end")
  /\ UNCHANGED made /\ Rest

(* DeleteSession; its first read returns "" when it fails.                 *)
ReadsCurrent(p) ==
  /\ At(p, "del_read")
  /\ \E cur \in (IF Ok(p) THEN {Mine(p).current} ELSE {}) \cup (IF Err(p) THEN {None} ELSE {}) :
       Goto(p, [proc[p] EXCEPT !.cur = cur, !.step = "del"])
  /\ ReadOnly

InSession(q, u, s) ==
  /\ proc[q].uid = u
  /\ \/ proc[q].sid = s /\ proc[q].step \in {"switch", "point", "history", "stream", "append"}
     \/ s = LegacySid /\ proc[q].mig = "read"

DeleteSession(p) ==
  /\ At(p, "del")
  /\ LET u == proc[p].uid
         s == proc[p].sid
         without == [Mine(p) EXCEPT !.msgs[s] = <<>>, !.index = Removed(@, s)]
     IN  /\ Put(p, without, IF proc[p].cur = s THEN "reselect" ELSE "end", "end")
         /\ gone' = IF s \in Listed(u) /\ store'[u] = without /\ ~\E q \in Procs : InSession(q, u, s)
                    THEN gone \cup {<<u, s>>} ELSE gone
  /\ UNCHANGED <<made, misread, expiries>>

Reselect(p) ==
  /\ At(p, "reselect")
  /\ \E top \in (IF Ok(p) /\ Mine(p).index # <<>> THEN {Head(Mine(p).index)} ELSE {None})
                \cup (IF Err(p) THEN {None} ELSE {}) :
       Goto(p, [proc[p] EXCEPT !.cur = top, !.step = "repoint"])
  /\ ReadOnly

Repoint(p) ==
  /\ At(p, "repoint")
  /\ Put(p, [Mine(p) EXCEPT !.current = proc[p].cur], "end", "end")
  /\ UNCHANGED made /\ Rest

-----------------------------------------------------------------------------
(* RunAgentChat between the history and the store.  The agent cannot be    *)
(* reached or refuses; or its stream ends, anywhere, or breaks.            *)

Persists(st, streamErr, canceled) == ~streamErr /\ ~canceled /\ st.text

AgentFails(p) ==
  /\ At(p, "stream") /\ To(p, "end")
  /\ ReadOnly

AgentStreams(p) ==
  /\ At(p, "stream")
  /\ \E o \in Outcomes, broken \in BOOLEAN :
       LET st == o.st
           streamErr == st.streamErr \/ broken
           stored == Persists(st, streamErr, proc[p].canceled)
           status == Finalize(st, FALSE, streamErr, proc[p].canceled).status
       IN  /\ misread' = (misread \/ ~o.faithful \/ (stored /\ status = "error"))
           /\ To(p, IF stored THEN "append" ELSE "end")
  /\ UNCHANGED <<store, made, gone, expiries>>

(* Finalize panics.  The recovery middleware ends a request of the web;    *)
(* nothing recovers in the goroutine of processInbound, so there the       *)
(* server dies with all its calls and is started again, slots free.        *)
Lost(r) == [Idle EXCEPT !.op = IF r.op = "im" THEN "im" ELSE "web", !.req = r.req, !.step = "lost"]

ServerDies ==
  /\ proc' = [q \in Procs |-> IF q \in Active THEN Lost(proc[q]) ELSE proc[q]]
  /\ sem' = 0

MayPanic == \E o \in Outcomes : Finalize(o.st, TRUE, o.st.streamErr, FALSE) = NoRecord

PreviewPanics(p) ==
  /\ At(p, "stream") /\ MayPanic
  /\ IF proc[p].op = "im" THEN ServerDies ELSE To(p, "end")
  /\ ReadOnly

-----------------------------------------------------------------------------
(* The handlers of the web user.  A named session may be any id.           *)

FirstStep(op, s) ==
  IF op \in {"list", "create"} THEN IF op = "list" THEN "sessions" ELSE "create"
  ELSE IF op = "delete" THEN "known"
  ELSE IF s = None THEN "current"
  ELSE IF op = "clear" THEN "del_read" ELSE "known"

Without(ops) == \A p \in Procs : proc[p].op \notin ops   \* bound on the mix of requests

WebRequest(p, op, s) ==
  /\ CanBegin(p)
  /\ Without({"im"})
  /\ op \in {"list", "create"} => s = None
  /\ op = "delete" => s # None
  /\ proc' = [proc EXCEPT ![p] = [Idle EXCEPT !.op = op, !.sid = s, !.step = FirstStep(op, s)]]
  /\ UNCHANGED <<store, made>> /\ Rest

TryAcquireAgentSlot == sem < MaxConc /\ sem' = sem + 1

ChatProxy(p, s) == WebRequest(p, "chat", s) /\ TryAcquireAgentSlot
ChatRefused(p) ==
  /\ CanBegin(p) /\ sem = MaxConc
  /\ proc' = [proc EXCEPT ![p] = [Idle EXCEPT !.op = "web", !.step = "done"]]
  /\ UNCHANGED <<store, made, sem>> /\ Rest
HistoryProxy(p, s)       == WebRequest(p, "history", s) /\ UNCHANGED sem
ClearChatHistory(p, s)   == WebRequest(p, "clear", s) /\ UNCHANGED sem
SessionsList(p)          == WebRequest(p, "list", None) /\ UNCHANGED sem
CreateAgentSession(p)    == WebRequest(p, "create", None) /\ UNCHANGED sem
DeleteAgentSession(p, s) == WebRequest(p, "delete", s) /\ UNCHANGED sem

(* The timeout of the context, or a browser that left.                     *)
Held(p) == \/ proc[p].op = "chat" /\ p \in Active
           \/ proc[p].op = "im" /\ proc[p].step \notin Ends \cup {"mark", "slot", "hint", "send"}

NoTimeout(p) == FALSE /\ UNCHANGED cvars
Deadline(p) ==
  /\ p \in Active /\ Held(p) /\ proc[p].step \in DeadlineAt /\ ~proc[p].canceled
  /\ proc' = [proc EXCEPT ![p].canceled = TRUE]
  /\ UNCHANGED <<store, made, sem>> /\ Rest

(* AppendMessages lowers the lifetime of the index to that of a list.      *)
(* Bound: it ends while at most one request is at work.                    *)
IndexExpires(u) ==
  /\ expiries < Expiries /\ Cardinality(Active) <= 1 /\ store[u].index # <<>>
  /\ expiries' = expiries + 1
  /\ store' = [store EXCEPT ![u].index = <<>>,
                            ![u].msgs = [s \in Sids |-> IF s = LegacySid THEN @[s] ELSE <<>>]]
  /\ UNCHANGED <<made, sem, proc, misread, gone>>

-----------------------------------------------------------------------------
ChatStep(p) ==
  \/ MigrateReads(p) \/ MigratePipe(p)
  \/ GetCurrentSessionID(p) \/ SessionExists(p) \/ SetCurrentSession(p) \/ PointAt(p)
  \/ CountSessions(p) \/ NewestSession(p) \/ CreateSession(p) \/ ListSessions(p) \/ ListMessages(p)
  \/ AppendMessages(p) \/ ReadsCurrent(p) \/ DeleteSession(p) \/ Reselect(p) \/ Repoint(p)

ChatNext ==
  \/ \E p \in Procs :
       \/ \E s \in 0..made \cup {None} :
            \/ ChatProxy(p, s) \/ HistoryProxy(p, s) \/ ClearChatHistory(p, s)
            \/ DeleteAgentSession(p, s)
       \/ ChatRefused(p) \/ SessionsList(p) \/ CreateAgentSession(p)
       \/ ChatStep(p) \/ AgentFails(p) \/ AgentStreams(p) \/ PreviewPanics(p) \/ Deadline(p)
  \/ \E u \in Uids : IndexExpires(u)

(* Commands of Redis return, and contexts time out.  Nothing is assumed of *)
(* the agent: AgentFails has to happen only once the context has ended.    *)
Runs(p) == ChatStep(p) \/ Deadline(p) \/ (proc[p].canceled /\ AgentFails(p))

-----------------------------------------------------------------------------
(* Every slot taken is held by a turn under way: no early return, error or *)
(* timeout keeps one, which would shrink the pool that web and instant-    *)
(* messaging users share, and none is given back twice.                    *)
SlotsBalanced == sem = Cardinality({p \in Procs : Held(p)})

(* The record that TurnAggregator makes of a stream is faithful to it,     *)
(* wherever the stream breaks off and however tool frames are repeated,    *)
(* unmatched or mixed with legacy events; and no exchange is stored of     *)
(* which the record says error.  A reply whose preview panics has neither  *)
(* a record nor an exchange that is stored.                                *)
TurnRecordFaithful == ~misread

(* A session deleted while no turn ran in it stays out of the index: no    *)
(* later request, nor a slow one that looked for it before, brings it      *)
(* back.  (A turn that was already running does.)                          *)
DeletedStaysGone == \A d \in gone : d[2] \notin Listed(d[1])
=============================================================================
