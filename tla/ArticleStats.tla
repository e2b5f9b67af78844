----------------------------- MODULE ArticleStats -----------------------------
(***************************************************************************)
(* Views and likes of articles: ArticleService.LikeArticle, articleUnlike  *)
(* and the counting part of ReadArticle write marks, shown counts and the  *)
(* leaderboard to Redis and publish an NSQ message; StatsWorker buffers    *)
(* the messages per shard and BatchFlushArticleActions writes a buffer to  *)
(* MySQL in one transaction.                                               *)
(*                                                                         *)
(* NSQ delivers in any order and at least once.  The points a like earns   *)
(* its author are in PointsEarn.  The 24h expiry of the shown counts, and  *)
(* their re-initialisation from MySQL, are not modelled.                   *)
(***************************************************************************)
EXTENDS Integers, FiniteSets

CONSTANTS
  Clients,      \* handler goroutines
  Users, Articles,
  Ops,          \* calls that happen: a subset of {"view", "like", "unlike"}
  Shards, ShardOf,  \* article_id % shardCount
  None,
  NsqFaults,    \* a publish may fail, also after the message was taken
  Redelivery,   \* NSQ may deliver a message again (bound: once)
  RedisFaults,  \* Redis may lose a command or its reply
  DbFaults,     \* the flush transaction may fail
  CommitLost,   \* MySQL may lose the reply of the flush's COMMIT
  Crashes,      \* the process may stop and start again
  MaxCalls      \* bound: calls made

ASSUME ShardsAssumption == ShardOf \in [Articles -> Shards]
ASSUME OpsAssumption == Ops \subseteq {"view", "like", "unlike"}
ASSUME BoundAssumption == MaxCalls \in Nat

VARIABLES
  marks,      \* Redis article:user_liked:* and article:read:limit:*
  shown,      \* Redis article:stats:<id>, per kind of count
  board,      \* Redis leaderboard scores, per kind of count
  queue,      \* NSQ topic article_stats: messages not yet finished
  calls,      \* how many calls were made
  buffer,     \* StatsWorker: per shard, the buffer messages are applied to
  drained,    \* per shard, the buffer being flushed, or None
  likes,      \* article_likes
  count,      \* articles.view_count and like_count
  task        \* per client: where its call is, and its locals

redis  == <<marks, shown, board>>
worker == <<buffer, drained>>
mysql  == <<likes, count>>
vars   == <<redis, queue, worker, mysql, task, calls>>

Kinds   == {"view", "like"}
KindOf(op) == IF op = "view" THEN "view" ELSE "like"
Pairs   == Users \X Articles
Mark    == Kinds \X Pairs
Message == [id : 1..MaxCalls, op : Ops, pair : Pairs, delta : {-1, 0}, again : BOOLEAN]
Buffer  == [view : [Articles -> Nat], like : [Articles -> Int],
            insert : SUBSET Pairs, delete : SUBSET Pairs]
EmptyBuffer == [view |-> [a \in Articles |-> 0], like |-> [a \in Articles |-> 0],
                insert |-> {}, delete |-> {}]
ASSUME NoneAssumption == None \notin Buffer
Task    == [step : {"mark", "stats", "board", "publish", "undo"}, id : 1..MaxCalls, op : Ops,
            pair : Pairs, delta : {-1, 0}, undo : SUBSET {"stats", "board", "mark"}]
Idle    == [step |-> "idle"]

(* Every variable has its type; MySQL's counts are unsigned, while the     *)
(* shown counts and the buffered deltas may be negative.                   *)
TypeOK ==
  /\ marks \subseteq Mark
  /\ shown \in [Kinds \X Articles -> Int]
  /\ board \in [Kinds \X Articles -> Int]
  /\ queue \subseteq Message
  /\ calls \in 0..MaxCalls
  /\ buffer \in [Shards -> Buffer]
  /\ drained \in [Shards -> Buffer \cup {None}]
  /\ likes \subseteq Pairs
  /\ count \in [Kinds \X Articles -> Nat]
  /\ task \in [Clients -> Task \cup {Idle}]

Zero == [x \in Kinds \X Articles |-> 0]

Init ==
  /\ marks = {} /\ shown = Zero /\ board = Zero
  /\ queue = {} /\ calls = 0
  /\ buffer = [s \in Shards |-> EmptyBuffer]
  /\ drained = [s \in Shards |-> None]
  /\ likes = {} /\ count = Zero
  /\ task = [c \in Clients |-> Idle]

-----------------------------------------------------------------------------
At(c, s)  == task[c].step = s
Key(c)    == <<KindOf(task[c].op), task[c].pair>>
Field(c)  == <<KindOf(task[c].op), task[c].pair[2]>>
Unlike(c) == task[c].op = "unlike"
Return(c) == task' = [task EXCEPT ![c] = Idle]
Advance(c, s) == task' = [task EXCEPT ![c].step = s]
Undo(c, what) == task' = [task EXCEPT ![c].step = "undo", ![c].undo = what]

(* What a completed call adds to its shown count and its score.            *)
Sign(c) == IF Unlike(c) THEN -1 ELSE 1

-----------------------------------------------------------------------------
(* LikeArticle, articleUnlike and ReadArticle in the service.              *)

Arrive(c, op, p) ==
  /\ At(c, "idle")
  /\ calls < MaxCalls
  /\ calls' = calls + 1
  /\ task' = [task EXCEPT ![c] = [step |-> "mark", id |-> calls + 1, op |-> op, pair |-> p,
                                  delta |-> 0, undo |-> {}]]
  /\ UNCHANGED <<redis, queue, worker, mysql>>

(* SETNX of the like mark or the read limit: the call counts once.         *)
TryMark(c) ==
  /\ At(c, "mark") /\ ~Unlike(c)
  /\ \/ Key(c) \in marks /\ Return(c) /\ UNCHANGED marks
     \/ /\ Key(c) \notin marks
        /\ marks' = marks \cup {Key(c)}
        /\ Advance(c, "stats")
     \/ /\ RedisFaults
        /\ marks' \in {marks, marks \cup {Key(c)}}
        /\ Return(c)
  /\ UNCHANGED <<shown, board, queue, worker, mysql, calls>>

(* ApplyArticleUnlikeImmediate, one Lua script: the mark goes in any case, *)
(* the shown count only down to zero.                                      *)
DropMark(c) ==
  /\ At(c, "mark") /\ Unlike(c)
  /\ marks' = marks \ {Key(c)}
  /\ IF shown[Field(c)] > 0
     THEN /\ shown' = [shown EXCEPT ![Field(c)] = @ - 1]
          /\ task' = [task EXCEPT ![c].step = "board", ![c].delta = -1]
     ELSE Advance(c, "publish") /\ UNCHANGED shown
  /\ UNCHANGED <<board, queue, worker, mysql, calls>>

(* The script or its reply is lost; the error ends the call.               *)
DropMarkFails(c) ==
  /\ RedisFaults
  /\ At(c, "mark") /\ Unlike(c)
  /\ \/ UNCHANGED <<marks, shown>>
     \/ /\ marks' = marks \ {Key(c)}
        /\ shown' = [shown EXCEPT ![Field(c)] = IF @ > 0 THEN @ - 1 ELSE @]
  /\ Return(c)
  /\ UNCHANGED <<board, queue, worker, mysql, calls>>

IncrStats(c) ==
  /\ At(c, "stats")
  /\ \/ /\ shown' = [shown EXCEPT ![Field(c)] = @ + 1]
        /\ Advance(c, "board")
     \/ /\ RedisFaults
        /\ shown' \in {shown, [shown EXCEPT ![Field(c)] = @ + 1]}
        /\ Undo(c, {"mark"})
  /\ UNCHANGED <<marks, board, queue, worker, mysql, calls>>

UpdateLeaderboard(c) ==
  /\ At(c, "board")
  /\ \/ /\ board' = [board EXCEPT ![Field(c)] = @ + Sign(c)]
        /\ Advance(c, "publish")
     \/ /\ RedisFaults
        /\ board' \in {board, [board EXCEPT ![Field(c)] = @ + Sign(c)]}
        /\ Undo(c, {"stats", "mark"})
  /\ UNCHANGED <<marks, shown, queue, worker, mysql, calls>>

Enqueue(c) ==
  queue' = queue \cup {[id |-> task[c].id, op |-> task[c].op, pair |-> task[c].pair,
                        delta |-> task[c].delta, again |-> FALSE]}

(* A failed publish, also one whose message arrived, is rolled back step   *)
(* by step.                                                                *)
UndoAll(c) == IF Unlike(c) /\ task[c].delta = 0 THEN {"mark"} ELSE {"stats", "board", "mark"}
Publish(c) ==
  /\ At(c, "publish")
  /\ \/ Enqueue(c) /\ Return(c)
     \/ /\ NsqFaults
        /\ Enqueue(c) \/ UNCHANGED queue
        /\ Undo(c, UndoAll(c))
  /\ UNCHANGED <<redis, worker, mysql, calls>>

Undone(c, what, last) ==
  task' = [task EXCEPT ![c] = IF last THEN Idle
                              ELSE [task[c] EXCEPT !.undo = task[c].undo \ {what}]]

(* The rollback's errors are ignored: a failed command is skipped.         *)
UndoStats(c) ==
  /\ At(c, "undo") /\ "stats" \in task[c].undo
  /\ \/ shown' = [shown EXCEPT ![Field(c)] = @ - Sign(c)]
     \/ RedisFaults /\ UNCHANGED shown
  /\ Undone(c, "stats", FALSE)
  /\ UNCHANGED <<marks, board, queue, worker, mysql, calls>>

UndoBoard(c) ==
  /\ At(c, "undo") /\ "stats" \notin task[c].undo /\ "board" \in task[c].undo
  /\ \/ board' = [board EXCEPT ![Field(c)] = @ - Sign(c)]
     \/ RedisFaults /\ UNCHANGED board
  /\ Undone(c, "board", FALSE)
  /\ UNCHANGED <<marks, shown, queue, worker, mysql, calls>>

UndoMark(c) ==
  /\ At(c, "undo") /\ task[c].undo = {"mark"}
  /\ \/ marks' = IF Unlike(c) THEN marks \cup {Key(c)} ELSE marks \ {Key(c)}
     \/ RedisFaults /\ UNCHANGED marks
  /\ Undone(c, "mark", TRUE)
  /\ UNCHANGED <<shown, board, queue, worker, mysql, calls>>

(* The read limit expires after an hour: the reader counts again.          *)
ReadLimitExpires(p) ==
  /\ <<"view", p>> \in marks
  /\ marks' = marks \ {<<"view", p>>}
  /\ UNCHANGED <<shown, board, queue, worker, mysql, task, calls>>

-----------------------------------------------------------------------------
(* StatsWorker.                                                            *)

Applied(b, m) ==
  LET a == m.pair[2] IN
  CASE m.op = "view" -> [b EXCEPT !.view[a] = @ + 1]
    [] m.op = "like" -> [b EXCEPT !.insert = @ \cup {m.pair}]
    [] OTHER -> [b EXCEPT !.like[a] = @ + m.delta, !.delete = @ \cup {m.pair}]

(* The message is finished once it is in the buffer; when the FIN is lost  *)
(* NSQ delivers it again.                                                  *)
HandleMessage(m) ==
  LET s == ShardOf[m.pair[2]] IN
  /\ buffer' = [buffer EXCEPT ![s] = Applied(@, m)]
  /\ \/ queue' = queue \ {m}
     \/ /\ Redelivery /\ ~m.again
        /\ queue' = (queue \ {m}) \cup {[m EXCEPT !.again = TRUE]}
  /\ UNCHANGED <<redis, drained, mysql, task, calls>>

OnlyRows(b) == b.insert = {} /\ b.delete = {}
IsEmpty(b)  == b = EmptyBuffer

(* flushShard, by the shard's own goroutine: take the buffer ...           *)
SwapBuffers(s) ==
  /\ drained[s] = None
  /\ ~IsEmpty(buffer[s])
  /\ drained' = [drained EXCEPT ![s] = buffer[s]]
  /\ buffer' = [buffer EXCEPT ![s] = EmptyBuffer]
  /\ UNCHANGED <<redis, queue, mysql, task, calls>>

(* A tick that finds the buffer empty changes nothing.                     *)
IdleTick(s) ==
  /\ drained[s] = None
  /\ IsEmpty(buffer[s])
  /\ UNCHANGED vars

NewRows(b, a) == {p \in b.insert \ likes : p[2] = a}
LikeDelta(b, a) == b.like[a] + Cardinality(NewRows(b, a))
NeverUnderflow(b) == FALSE
Underflow(b)      == \E a \in Articles : count[<<"like", a>>] + LikeDelta(b, a) < 0

(* ... and write it in one transaction: rows inserted (existing ones do    *)
(* not count), rows deleted, counts updated.                               *)
FlushWrites(b) ==
  /\ ~Underflow(b)
  /\ likes' = (likes \cup b.insert) \ b.delete
  /\ count' = [x \in Kinds \X Articles |->
       count[x] + IF x[1] = "view" THEN b.view[x[2]] ELSE LikeDelta(b, x[2])]

Flushed(s) ==
  /\ drained[s] # None
  /\ FlushWrites(drained[s])
  /\ drained' = [drained EXCEPT ![s] = None]
  /\ UNCHANGED <<redis, queue, buffer, task, calls>>

Newer(b, old) == b
Merged(b, old) ==
  [view |-> [a \in Articles |-> b.view[a] + old.view[a]],
   like |-> [a \in Articles |-> b.like[a] + old.like[a]],
   insert |-> b.insert \cup old.insert, delete |-> b.delete \cup old.delete]

MergeBack(s) ==
  /\ buffer' = [buffer EXCEPT ![s] = Merged(@, drained[s])]
  /\ drained' = [drained EXCEPT ![s] = None]
  /\ UNCHANGED <<redis, queue, task, calls>>

(* like_count is unsigned: an update below zero is an error that rolls     *)
(* everything back.                                                        *)
FlushFails(s) ==
  /\ drained[s] # None
  /\ DbFaults \/ Underflow(drained[s])
  /\ MergeBack(s)
  /\ UNCHANGED mysql

(* The COMMIT took effect, and the buffer is merged back all the same.     *)
(* Bound: while the counts stay within MaxCalls.                           *)
FlushReplyLost(s) ==
  /\ CommitLost
  /\ drained[s] # None
  /\ FlushWrites(drained[s])
  /\ \A x \in Kinds \X Articles : count'[x] <= MaxCalls
  /\ MergeBack(s)

CrashRestart ==
  /\ Crashes
  /\ task' = [c \in Clients |-> Idle]
  /\ buffer' = [s \in Shards |-> EmptyBuffer]
  /\ drained' = [s \in Shards |-> None]
  /\ <<task, buffer, drained>>' # <<task, buffer, drained>>
  /\ UNCHANGED <<redis, queue, mysql, calls>>

-----------------------------------------------------------------------------
ClientStep(c) ==
  \/ TryMark(c) \/ DropMark(c) \/ DropMarkFails(c) \/ IncrStats(c)
  \/ UpdateLeaderboard(c) \/ Publish(c) \/ UndoStats(c) \/ UndoBoard(c) \/ UndoMark(c)

FlushStep(s) == IdleTick(s) \/ SwapBuffers(s) \/ Flushed(s) \/ FlushFails(s) \/ FlushReplyLost(s)

Next ==
  \/ \E c \in Clients : \/ \E op \in Ops, p \in Pairs : Arrive(c, op, p)
                        \/ ClientStep(c)
  \/ \E p \in Pairs : ReadLimitExpires(p)
  \/ \E m \in queue : HandleMessage(m)
  \/ \E s \in Shards : FlushStep(s)
  \/ CrashRestart

Spec == Init /\ [][Next]_vars

(* The ticker comes round and MySQL answers; whether it refuses is its own *)
(* choice.  NSQ delivers what it holds.                                    *)
Fairness ==
  /\ \A c \in Clients : WF_vars(ClientStep(c))
  /\ \A s \in Shards : WF_vars(FlushStep(s))
  /\ WF_vars(\E m \in queue : HandleMessage(m))
FairSpec == Spec /\ Fairness

-----------------------------------------------------------------------------
(* Properties.                                                             *)

(* Views of an article that NSQ has accepted and MySQL will show.          *)
Accepted(a) ==
  count[<<"view", a>>] + buffer[ShardOf[a]].view[a]
    + (IF drained[ShardOf[a]] = None THEN 0 ELSE drained[ShardOf[a]].view[a])
    + Cardinality({m \in queue : m.op = "view" /\ m.pair[2] = a})

(* StatsWorker loses no view: from the queue through the live and the      *)
(* drained buffer to MySQL a view is never dropped, whatever is delivered  *)
(* while a flush is under way or fails; only a crash drops the buffers.    *)
ViewsKept == [][CrashRestart \/ \A a \in Articles : Accepted(a)' >= Accepted(a)]_vars

(* What has been buffered is written in the end: the shard's buffers run   *)
(* empty once no calls come, unless the process keeps crashing or MySQL    *)
(* keeps refusing the flush.                                               *)
Refused == CrashRestart \/ \E s \in Shards : FlushFails(s) \/ FlushReplyLost(s)
BuffersRunDry ==
  []<><<Refused>>_vars \/ \A s \in Shards : []<>(buffer[s] = EmptyBuffer /\ drained[s] = None)

=============================================================================
