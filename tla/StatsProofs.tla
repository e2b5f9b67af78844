----------------------------- MODULE StatsProofs -----------------------------
(***************************************************************************)
(* Proofs about ArticleStats: the types of its state, and that the worker  *)
(* loses no view on the way from NSQ to MySQL.                             *)
(***************************************************************************)
EXTENDS ArticleStats, FiniteSetTheorems, TLAPS

-----------------------------------------------------------------------------
(* What is counted is finite: the messages in the queue, and the likes a   *)
(* buffer is to insert.                                                    *)
Finite ==
  /\ IsFiniteSet(queue)
  /\ \A s \in Shards : /\ IsFiniteSet(buffer[s].insert)
                       /\ drained[s] # None => IsFiniteSet(drained[s].insert)
StatsInv == TypeOK /\ Finite

(* A set that gains at most one element.                                   *)
LEMMA GrowsByOne ==
  ASSUME NEW A, IsFiniteSet(A), NEW a
  PROVE  /\ IsFiniteSet(A \cup {a})
         /\ Cardinality(A) \in Nat /\ Cardinality(A \cup {a}) \in Nat
         /\ Cardinality(A) <= Cardinality(A \cup {a})
         /\ Cardinality(A \cup {a}) <= Cardinality(A) + 1
<1>1. IsFiniteSet(A \cup {a}) /\ Cardinality(A) \in Nat /\ Cardinality(A \cup {a}) \in Nat
  BY FS_AddElement, FS_CardinalityType
<1>2. Cardinality(A \cup {a}) = Cardinality(A) \/ Cardinality(A \cup {a}) = Cardinality(A) + 1
  BY FS_AddElement
<1> QED BY <1>1, <1>2

(* A call that has not returned has the record of a call.                  *)
LEMMA BusyRecord ==
  ASSUME TypeOK, NEW c \in Clients, task[c].step # "idle"
  PROVE  /\ task[c] \in Task /\ task \in [Clients -> Task \cup {Idle}]
         /\ Key(c) \in Mark /\ Field(c) \in Kinds \X Articles
<1>1. task[c] \in Task /\ task \in [Clients -> Task \cup {Idle}]
  BY DEF TypeOK, Idle
<1>2. task[c].pair \in Users \X Articles /\ KindOf(task[c].op) \in Kinds
  BY <1>1 DEF Task, Pairs, KindOf, Kinds
<1>3. task[c].pair[2] \in Articles
  BY <1>2
<1> QED BY <1>1, <1>2, <1>3 DEF Key, Field, Mark, Pairs

(* A call that goes on, goes to undo its steps or returns keeps its type.  *)
LEMMA CallTyped ==
  ASSUME TypeOK, NEW c \in Clients, task[c].step # "idle",
         \/ Return(c)
         \/ \E s \in {"stats", "board", "publish"} : Advance(c, s)
         \/ \E u \in SUBSET {"stats", "board", "mark"} : Undo(c, u)
         \/ \E w \in {"stats", "board", "mark"}, l \in BOOLEAN : Undone(c, w, l)
         \/ task' = [task EXCEPT ![c].step = "board", ![c].delta = -1]
  PROVE  task' \in [Clients -> Task \cup {Idle}]
<1>1. task[c] \in Task /\ task \in [Clients -> Task \cup {Idle}]
  BY BusyRecord
<1>2. PICK r \in Task \cup {Idle} : task' = [task EXCEPT ![c] = r]
  <2>1. CASE Return(c)
    BY <2>1 DEF Return
  <2>2. ASSUME NEW s \in {"stats", "board", "publish"}, Advance(c, s)
        PROVE  \E r \in Task : task' = [task EXCEPT ![c] = r]
    <3>1. [task[c] EXCEPT !.step = s] \in Task
      BY <1>1 DEF Task
    <3>2. task' = [task EXCEPT ![c] = [task[c] EXCEPT !.step = s]]
      BY <1>1, <2>2 DEF Advance
    <3> QED BY <3>1, <3>2
  <2>3. ASSUME NEW u \in SUBSET {"stats", "board", "mark"}, Undo(c, u)
        PROVE  \E r \in Task : task' = [task EXCEPT ![c] = r]
    <3> DEFINE r == [task[c] EXCEPT !.step = "undo", !.undo = u]
    <3>1. r \in Task
      BY <1>1 DEF Task
    <3>2. task' = [task EXCEPT ![c] = r]
      BY <1>1, <2>3 DEF Undo
    <3> QED BY <3>1, <3>2
  <2>4. ASSUME NEW w \in {"stats", "board", "mark"}, NEW l \in BOOLEAN, Undone(c, w, l)
        PROVE  \E r \in Task \cup {Idle} : task' = [task EXCEPT ![c] = r]
    <3> DEFINE r == [task[c] EXCEPT !.undo = task[c].undo \ {w}]
    <3>1. r \in Task
      BY <1>1 DEF Task
    <3>2. task' = [task EXCEPT ![c] = IF l THEN Idle ELSE r]
      BY <1>1, <2>4 DEF Undone
    <3> QED BY <3>1, <3>2
  <2>5. CASE task' = [task EXCEPT ![c].step = "board", ![c].delta = -1]
    <3> DEFINE r == [task[c] EXCEPT !.step = "board", !.delta = -1]
    <3>1. r \in Task
      BY <1>1 DEF Task
    <3>2. task' = [task EXCEPT ![c] = r]
      BY <1>1, <2>5
    <3> QED BY <3>1, <3>2
  <2> QED BY <2>1, <2>2, <2>3, <2>4, <2>5
<1> QED BY <1>1, <1>2
(* The steps of a call, from its arrival to its answer.                    *)
LEMMA ClientStepTyped ==
  ASSUME StatsInv, NEW c \in Clients, ClientStep(c)
  PROVE  StatsInv'
<1> DEFINE k == Key(c)
           f == Field(c)
<1>0. /\ TypeOK /\ task[c].step # "idle" /\ UNCHANGED <<worker, mysql, calls>>
      /\ task[c] \in Task /\ k \in Mark /\ f \in Kinds \X Articles
  <2>1. task[c].step # "idle" /\ UNCHANGED <<worker, mysql, calls>>
    BY DEF ClientStep, TryMark, DropMark, DropMarkFails, IncrStats, UpdateLeaderboard, Publish,
           UndoStats, UndoBoard, UndoMark, At, redis
  <2> QED BY <2>1, BusyRecord DEF StatsInv
<1>1. marks' \in SUBSET Mark
  <2>1. marks' \in {marks, marks \cup {k}, marks \ {k}}
    BY DEF ClientStep, TryMark, DropMark, DropMarkFails, IncrStats, UpdateLeaderboard, Publish,
           UndoStats, UndoBoard, UndoMark, redis
  <2> QED BY <1>0, <2>1 DEF TypeOK
<1>2. shown' \in [Kinds \X Articles -> Int]
  <2>1. Sign(c) \in Int
    BY DEF Sign
  <2>2. shown' \in {shown, [shown EXCEPT ![f] = @ + 1], [shown EXCEPT ![f] = @ - 1],
                    [shown EXCEPT ![f] = @ - Sign(c)], [shown EXCEPT ![f] = IF @ > 0 THEN @ - 1 ELSE @]}
    BY DEF ClientStep, TryMark, DropMark, DropMarkFails, IncrStats, UpdateLeaderboard, Publish,
           UndoStats, UndoBoard, UndoMark, redis
  <2>3. shown \in [Kinds \X Articles -> Int]
    BY <1>0 DEF TypeOK
  <2> HIDE DEF f
  <2>4. shown[f] \in Int
    BY <1>0, <2>3
  <2> QED BY <1>0, <2>1, <2>2, <2>3, <2>4
<1>3. board' \in [Kinds \X Articles -> Int]
  <2>1. Sign(c) \in Int
    BY DEF Sign
  <2>2. board' \in {board, [board EXCEPT ![f] = @ + Sign(c)], [board EXCEPT ![f] = @ - Sign(c)]}
    BY DEF ClientStep, TryMark, DropMark, DropMarkFails, IncrStats, UpdateLeaderboard, Publish,
           UndoStats, UndoBoard, UndoMark, redis
  <2>3. board \in [Kinds \X Articles -> Int]
    BY <1>0 DEF TypeOK
  <2> HIDE DEF f
  <2>4. board[f] \in Int
    BY <1>0, <2>3
  <2> QED BY <1>0, <2>1, <2>2, <2>3, <2>4
<1>4. queue' \in SUBSET Message /\ IsFiniteSet(queue')
  <2> DEFINE m == [id |-> task[c].id, op |-> task[c].op, pair |-> task[c].pair,
                   delta |-> task[c].delta, again |-> FALSE]
  <2>1. m \in Message
    BY <1>0 DEF Task, Message
  <2>2. queue' = queue \/ queue' = queue \cup {m}
    BY DEF ClientStep, TryMark, DropMark, DropMarkFails, IncrStats, UpdateLeaderboard, Publish, Enqueue,
           UndoStats, UndoBoard, UndoMark
  <2> HIDE DEF m
  <2>3. queue \in SUBSET Message /\ IsFiniteSet(queue)
    BY <1>0 DEF TypeOK, StatsInv, Finite
  <2> QED BY <2>1, <2>2, <2>3, FS_AddElement
<1>5. task' \in [Clients -> Task \cup {Idle}]
  <2>1. \/ Return(c)
        \/ \E s \in {"stats", "board", "publish"} : Advance(c, s)
        \/ \E u \in SUBSET {"stats", "board", "mark"} : Undo(c, u)
        \/ \E w \in {"stats", "board", "mark"}, l \in BOOLEAN : Undone(c, w, l)
        \/ task' = [task EXCEPT ![c].step = "board", ![c].delta = -1]
    <3>1. CASE TryMark(c) \/ DropMark(c) \/ DropMarkFails(c)
      BY <3>1 DEF TryMark, DropMark, DropMarkFails
    <3>2. CASE IncrStats(c)
      <4>1. {"mark"} \in SUBSET {"stats", "board", "mark"}
        OBVIOUS
      <4> QED BY <3>2, <4>1 DEF IncrStats
    <3>3. CASE UpdateLeaderboard(c)
      <4>1. {"stats", "mark"} \in SUBSET {"stats", "board", "mark"}
        OBVIOUS
      <4> QED BY <3>3, <4>1 DEF UpdateLeaderboard
    <3>4. CASE Publish(c)
      <4>1. UndoAll(c) \in SUBSET {"stats", "board", "mark"}
        BY DEF UndoAll
      <4> QED BY <3>4, <4>1 DEF Publish
    <3>5. CASE UndoStats(c)
      BY <3>5 DEF UndoStats
    <3>6. CASE UndoBoard(c)
      BY <3>6 DEF UndoBoard
    <3>7. CASE UndoMark(c)
      BY <3>7 DEF UndoMark
    <3> QED BY <3>1, <3>2, <3>3, <3>4, <3>5, <3>6, <3>7 DEF ClientStep
  <2> QED BY <1>0, <2>1, CallTyped
<1> QED BY <1>0, <1>1, <1>2, <1>3, <1>4, <1>5 DEF StatsInv, TypeOK, Finite, worker, mysql

(* What a message adds to a buffer.                                        *)
LEMMA AppliedTyped ==
  ASSUME NEW b \in Buffer, IsFiniteSet(b.insert), NEW m \in Message
  PROVE  /\ Applied(b, m) \in Buffer /\ IsFiniteSet(Applied(b, m).insert)
         /\ \A a \in Articles : Applied(b, m).view[a] =
              IF m.op = "view" /\ m.pair[2] = a THEN b.view[a] + 1 ELSE b.view[a]
<1>1. m.op \in {"view", "like", "unlike"} /\ m.pair \in Pairs /\ m.pair[2] \in Articles /\ m.delta \in Int
  <2>1. m.op \in Ops /\ m.pair \in Users \X Articles /\ m.delta \in {-1, 0}
    BY DEF Message, Pairs
  <2>2. m.delta \in Int
    BY <2>1
  <2> QED BY <2>1, <2>2, OpsAssumption DEF Pairs
<1>2. CASE m.op = "view"
  <2>1. Applied(b, m) = [b EXCEPT !.view[m.pair[2]] = b.view[m.pair[2]] + 1]
    BY <1>2 DEF Applied
  <2> QED BY <1>1, <1>2, <2>1 DEF Buffer
<1>3. CASE m.op = "like"
  <2>1. Applied(b, m) = [b EXCEPT !.insert = b.insert \cup {m.pair}]
    BY <1>3 DEF Applied
  <2>2. IsFiniteSet(b.insert \cup {m.pair})
    BY FS_AddElement
  <2> QED BY <1>1, <1>3, <2>1, <2>2 DEF Buffer
<1>4. CASE m.op = "unlike"
  <2>1. Applied(b, m) = [b EXCEPT !.like[m.pair[2]] = b.like[m.pair[2]] + m.delta, !.delete = b.delete \cup {m.pair}]
    BY <1>4 DEF Applied
  <2>2. [b.like EXCEPT ![m.pair[2]] = b.like[m.pair[2]] + m.delta] \in [Articles -> Int]
    BY <1>1 DEF Buffer
  <2>3. Applied(b, m) = [b EXCEPT !.like = [b.like EXCEPT ![m.pair[2]] = b.like[m.pair[2]] + m.delta],
                                  !.delete = b.delete \cup {m.pair}]
    BY <2>1 DEF Buffer
  <2> DEFINE l == [b.like EXCEPT ![m.pair[2]] = b.like[m.pair[2]] + m.delta]
             d == b.delete \cup {m.pair}
  <2>4. l \in [Articles -> Int] /\ d \in SUBSET Pairs /\ Applied(b, m) = [b EXCEPT !.like = l, !.delete = d]
    BY <1>1, <2>2, <2>3 DEF Buffer
  <2> HIDE DEF l, d
  <2>5. Applied(b, m) \in Buffer /\ Applied(b, m).insert = b.insert /\ Applied(b, m).view = b.view
    BY <2>4 DEF Buffer
  <2>6. m.op # "view"
    BY <1>4
  <2> QED BY <2>5, <2>6
<1> QED BY <1>1, <1>2, <1>3, <1>4

(* What two buffers hold together.                                         *)
LEMMA MergedTyped ==
  ASSUME NEW b \in Buffer, IsFiniteSet(b.insert), NEW o \in Buffer, IsFiniteSet(o.insert)
  PROVE  /\ Merged(b, o) \in Buffer /\ IsFiniteSet(Merged(b, o).insert)
         /\ \A a \in Articles : Merged(b, o).view[a] = b.view[a] + o.view[a]
<1>1. IsFiniteSet(b.insert \cup o.insert)
  BY FS_Union
<1> QED BY <1>1 DEF Merged, Buffer

(* A delivery moves its message from the queue into a buffer.              *)
LEMMA HandleMessageTyped ==
  ASSUME StatsInv, NEW m \in queue, HandleMessage(m)
  PROVE  StatsInv'
<1> DEFINE s == ShardOf[m.pair[2]]
<1>1. m \in Message /\ s \in Shards /\ TypeOK /\ Finite
  BY ShardsAssumption DEF StatsInv, TypeOK, Message, Pairs
<1>2. /\ Applied(buffer[s], m) \in Buffer /\ IsFiniteSet(Applied(buffer[s], m).insert)
  BY <1>1, AppliedTyped DEF TypeOK, Finite
<1>3. buffer' = [buffer EXCEPT ![s] = Applied(buffer[s], m)]
  BY DEF HandleMessage
<1>4. queue' \in SUBSET Message /\ IsFiniteSet(queue')
  <2>1. [m EXCEPT !.again = TRUE] \in Message
    BY <1>1 DEF Message
  <2>2. IsFiniteSet(queue \ {m}) /\ IsFiniteSet((queue \ {m}) \cup {[m EXCEPT !.again = TRUE]})
    BY <1>1, FS_Difference, FS_RemoveElement, FS_AddElement DEF Finite
  <2> QED BY <1>1, <2>1, <2>2 DEF HandleMessage, TypeOK
<1> HIDE DEF s
<1>5. /\ buffer' \in [Shards -> Buffer] /\ \A t \in Shards : IsFiniteSet(buffer'[t].insert)
  BY <1>1, <1>2, <1>3 DEF TypeOK, Finite
<1> QED BY <1>1, <1>4, <1>5 DEF HandleMessage, StatsInv, TypeOK, Finite, redis, mysql

(* The number of likes a flush adds to an article.                         *)
LEMMA LikeDeltaTyped ==
  ASSUME NEW b \in Buffer, IsFiniteSet(b.insert), NEW a \in Articles
  PROVE  LikeDelta(b, a) \in Int
<1>1. NewRows(b, a) \in SUBSET b.insert
  BY DEF NewRows
<1>2. Cardinality(NewRows(b, a)) \in Nat
  BY <1>1, FS_Subset, FS_CardinalityType
<1> QED BY <1>2 DEF LikeDelta, Buffer

(* The counts in MySQL stay unsigned: a flush that would take one below    *)
(* zero is refused.                                                        *)
LEMMA FlushWritesTyped ==
  ASSUME TypeOK, NEW b \in Buffer, IsFiniteSet(b.insert), FlushWrites(b)
  PROVE  /\ likes' \in SUBSET Pairs /\ count' \in [Kinds \X Articles -> Nat]
         /\ \A a \in Articles : count'[<<"view", a>>] = count[<<"view", a>>] + b.view[a]
<1>1. likes' \in SUBSET Pairs
  BY DEF FlushWrites, TypeOK, Buffer
<1> DEFINE g(x) == count[x] + IF x[1] = "view" THEN b.view[x[2]] ELSE LikeDelta(b, x[2])
<1>2. ASSUME NEW x \in Kinds \X Articles
      PROVE  g(x) \in Nat
  <2>1. x[1] \in Kinds /\ x[2] \in Articles /\ x = <<x[1], x[2]>> /\ count[x] \in Nat
    BY DEF TypeOK
  <2>2. CASE x[1] = "view"
    BY <2>1, <2>2 DEF Buffer
  <2>3. CASE x[1] # "view"
    <3>1. x[1] = "like" /\ LikeDelta(b, x[2]) \in Int
      BY <2>1, <2>3, LikeDeltaTyped DEF Kinds
    <3>2. ~ (count[x] + LikeDelta(b, x[2]) < 0)
      BY <2>1, <3>1 DEF FlushWrites, Underflow
    <3> QED BY <2>1, <2>3, <3>1, <3>2
  <2> QED BY <2>2, <2>3
<1>3. count' = [x \in Kinds \X Articles |-> g(x)]
  BY DEF FlushWrites
<1>4. count' \in [Kinds \X Articles -> Nat]
  <2> HIDE DEF g
  <2> QED BY <1>2, <1>3
<1>5. ASSUME NEW a \in Articles
      PROVE  count'[<<"view", a>>] = count[<<"view", a>>] + b.view[a]
  <2>1. <<"view", a>> \in Kinds \X Articles
    BY DEF Kinds
  <2> QED BY <1>3, <2>1
<1> QED BY <1>1, <1>4, <1>5

(* A flush that fails, or whose reply is lost, puts its buffer back.       *)
LEMMA MergeBackTyped ==
  ASSUME StatsInv, NEW s \in Shards, drained[s] # None, MergeBack(s),
         likes' \in SUBSET Pairs, count' \in [Kinds \X Articles -> Nat]
  PROVE  StatsInv'
<1>1. TypeOK /\ Finite /\ drained[s] \in Buffer /\ buffer[s] \in Buffer
  BY DEF StatsInv, TypeOK
<1>2. Merged(buffer[s], drained[s]) \in Buffer /\ IsFiniteSet(Merged(buffer[s], drained[s]).insert)
  BY <1>1, MergedTyped DEF Finite
<1>3. buffer' = [buffer EXCEPT ![s] = Merged(buffer[s], drained[s])]
  BY DEF MergeBack
<1>4. buffer' \in [Shards -> Buffer] /\ \A t \in Shards : IsFiniteSet(buffer'[t].insert)
  BY <1>1, <1>2, <1>3 DEF TypeOK, Finite
<1>5. drained' \in [Shards -> Buffer \cup {None}]
      /\ \A t \in Shards : drained'[t] # None => IsFiniteSet(drained'[t].insert)
  BY <1>1 DEF MergeBack, TypeOK, Finite
<1> QED BY <1>1, <1>4, <1>5 DEF MergeBack, StatsInv, TypeOK, Finite, redis

(* A buffer is taken, written, and put back when that fails.               *)
LEMMA FlushStepTyped ==
  ASSUME StatsInv, NEW s \in Shards, FlushStep(s)
  PROVE  StatsInv'
<1>0. TypeOK /\ Finite
  BY DEF StatsInv
<1>1. CASE IdleTick(s)
  BY <1>0, <1>1 DEF IdleTick, vars, redis, worker, mysql, StatsInv, TypeOK, Finite
<1>2. CASE SwapBuffers(s)
  <2>1. EmptyBuffer \in Buffer /\ IsFiniteSet(EmptyBuffer.insert)
    BY FS_EmptySet DEF EmptyBuffer, Buffer
  <2>2. /\ buffer' = [buffer EXCEPT ![s] = EmptyBuffer]
        /\ drained' = [drained EXCEPT ![s] = buffer[s]]
    BY <1>2 DEF SwapBuffers
  <2>3. buffer' \in [Shards -> Buffer] /\ \A t \in Shards : IsFiniteSet(buffer'[t].insert)
    BY <1>0, <2>1, <2>2 DEF TypeOK, Finite
  <2>4. drained' \in [Shards -> Buffer \cup {None}]
        /\ \A t \in Shards : drained'[t] # None => IsFiniteSet(drained'[t].insert)
    BY <1>0, <2>2 DEF TypeOK, Finite
  <2> QED BY <1>0, <1>2, <2>3, <2>4 DEF SwapBuffers, StatsInv, TypeOK, Finite, redis, mysql
<1>3. CASE Flushed(s)
  <2>1. drained[s] \in Buffer /\ IsFiniteSet(drained[s].insert)
    BY <1>0, <1>3 DEF Flushed, TypeOK, Finite
  <2>2. likes' \in SUBSET Pairs /\ count' \in [Kinds \X Articles -> Nat]
    BY <1>0, <1>3, <2>1, FlushWritesTyped DEF Flushed
  <2>3. drained' \in [Shards -> Buffer \cup {None}]
        /\ \A t \in Shards : drained'[t] # None => IsFiniteSet(drained'[t].insert)
    BY <1>0, <1>3 DEF Flushed, TypeOK, Finite
  <2> QED BY <1>0, <1>3, <2>2, <2>3 DEF Flushed, StatsInv, TypeOK, Finite, redis
<1>4. CASE FlushFails(s)
  <2>1. likes' \in SUBSET Pairs /\ count' \in [Kinds \X Articles -> Nat]
    BY <1>0, <1>4 DEF FlushFails, mysql, TypeOK
  <2> QED BY <1>4, <2>1, MergeBackTyped DEF FlushFails
<1>5. CASE FlushReplyLost(s)
  <2>1. drained[s] \in Buffer /\ IsFiniteSet(drained[s].insert)
    BY <1>0, <1>5 DEF FlushReplyLost, TypeOK, Finite
  <2>2. likes' \in SUBSET Pairs /\ count' \in [Kinds \X Articles -> Nat]
    BY <1>0, <1>5, <2>1, FlushWritesTyped DEF FlushReplyLost
  <2> QED BY <1>5, <2>2, MergeBackTyped DEF FlushReplyLost
<1> QED BY <1>1, <1>2, <1>3, <1>4, <1>5 DEF FlushStep

(* The types, with the finiteness, are inductive.                          *)
LEMMA StatsNext == StatsInv /\ [Next]_vars => StatsInv'
<1> SUFFICES ASSUME StatsInv, [Next]_vars
             PROVE  StatsInv'
  OBVIOUS
<1>0. TypeOK /\ Finite
  BY DEF StatsInv
<1>1. CASE UNCHANGED vars
  BY <1>0, <1>1 DEF vars, redis, worker, mysql, StatsInv, TypeOK, Finite
<1>2. ASSUME NEW c \in Clients, NEW op \in Ops, NEW p \in Pairs, Arrive(c, op, p)
      PROVE  StatsInv'
  <2>1. calls \in Nat /\ calls + 1 \in 1..MaxCalls /\ calls + 1 \in 0..MaxCalls
    BY <1>0, <1>2, BoundAssumption DEF Arrive, TypeOK
  <2> DEFINE r == [step |-> "mark", id |-> calls + 1, op |-> op, pair |-> p, delta |-> 0, undo |-> {}]
  <2>2. r \in Task
    BY <2>1 DEF Task
  <2>3. task' = [task EXCEPT ![c] = r]
    BY <1>2 DEF Arrive
  <2> HIDE DEF r
  <2>4. task' \in [Clients -> Task \cup {Idle}]
    BY <1>0, <2>2, <2>3 DEF TypeOK
  <2> QED BY <1>0, <1>2, <2>1, <2>4 DEF Arrive, StatsInv, TypeOK, Finite, redis, worker, mysql
<1>3. ASSUME NEW p \in Pairs, ReadLimitExpires(p)
      PROVE  StatsInv'
  BY <1>0, <1>3 DEF ReadLimitExpires, StatsInv, TypeOK, Finite, worker, mysql
<1>4. CASE CrashRestart
  <2>1. EmptyBuffer \in Buffer /\ IsFiniteSet(EmptyBuffer.insert)
    BY FS_EmptySet DEF EmptyBuffer, Buffer
  <2> QED BY <1>0, <1>4, <2>1 DEF CrashRestart, StatsInv, TypeOK, Finite, redis, mysql
<1> QED BY <1>1, <1>2, <1>3, <1>4, ClientStepTyped, HandleMessageTyped, FlushStepTyped DEF Next

(* Nothing is marked, queued or buffered when the site starts.             *)
LEMMA StatsInit == Init => StatsInv
<1>1. EmptyBuffer \in Buffer /\ IsFiniteSet(EmptyBuffer.insert)
  BY FS_EmptySet DEF EmptyBuffer, Buffer
<1>2. 0 \in 0..MaxCalls
  BY BoundAssumption
<1> QED BY <1>1, <1>2, FS_EmptySet DEF Init, StatsInv, TypeOK, Finite, Zero

(* Every variable of the statistics has its type, for any number of        *)
(* handlers, articles and shards and under every fault: in particular no   *)
(* flush takes a count in MySQL below zero.                                *)
THEOREM StatsTypes == Spec => []TypeOK
<1>1. StatsInv => TypeOK
  BY DEF StatsInv
<1> QED BY <1>1, StatsInit, StatsNext, PTL DEF Spec
-----------------------------------------------------------------------------
(* No view is lost on its way.                                             *)

ViewsOf(a)  == {m \in queue : m.op = "view" /\ m.pair[2] = a}
Drained(a)  == IF drained[ShardOf[a]] = None THEN 0 ELSE drained[ShardOf[a]].view[a]

(* The parts of Accepted are numbers.                                      *)
Adds == \A a \in Articles :
  /\ Accepted(a) = count[<<"view", a>>] + buffer[ShardOf[a]].view[a] + Drained(a)
                     + Cardinality(ViewsOf(a))
  /\ ShardOf[a] \in Shards /\ count[<<"view", a>>] \in Nat
  /\ buffer[ShardOf[a]].view[a] \in Nat /\ Drained(a) \in Nat
  /\ IsFiniteSet(ViewsOf(a)) /\ Cardinality(ViewsOf(a)) \in Nat

(* They are, wherever the types hold.                                      *)
LEMMA AcceptedParts == StatsInv => Adds
<1> SUFFICES ASSUME StatsInv, NEW a \in Articles
             PROVE  /\ Accepted(a) = count[<<"view", a>>] + buffer[ShardOf[a]].view[a] + Drained(a)
                                       + Cardinality(ViewsOf(a))
                    /\ ShardOf[a] \in Shards /\ count[<<"view", a>>] \in Nat
                    /\ buffer[ShardOf[a]].view[a] \in Nat /\ Drained(a) \in Nat
                    /\ IsFiniteSet(ViewsOf(a)) /\ Cardinality(ViewsOf(a)) \in Nat
  BY DEF Adds
<1>1. ShardOf[a] \in Shards /\ <<"view", a>> \in Kinds \X Articles
  BY ShardsAssumption DEF Kinds
<1>2. IsFiniteSet(ViewsOf(a)) /\ Cardinality(ViewsOf(a)) \in Nat
  <2>1. ViewsOf(a) \in SUBSET queue
    BY DEF ViewsOf
  <2> QED BY <2>1, FS_Subset, FS_CardinalityType DEF StatsInv, Finite
<1>3. Drained(a) \in Nat /\ buffer[ShardOf[a]].view[a] \in Nat /\ count[<<"view", a>>] \in Nat
  BY <1>1 DEF Drained, StatsInv, TypeOK, Buffer
<1> QED BY <1>1, <1>2, <1>3 DEF Accepted, ViewsOf, Drained

(* Accepted grows when each of its parts stays or grows.                   *)
LEMMA PartsGrow ==
  ASSUME StatsInv, StatsInv', NEW a \in Articles,
         count'[<<"view", a>>] + buffer'[ShardOf[a]].view[a] + Drained(a)'
           >= count[<<"view", a>>] + buffer[ShardOf[a]].view[a] + Drained(a),
         \A m \in ViewsOf(a) : m \in ViewsOf(a)'
  PROVE  Accepted(a)' >= Accepted(a)
<1>1. /\ Accepted(a) = count[<<"view", a>>] + buffer[ShardOf[a]].view[a] + Drained(a)
                         + Cardinality(ViewsOf(a))
      /\ count[<<"view", a>>] \in Nat /\ buffer[ShardOf[a]].view[a] \in Nat /\ Drained(a) \in Nat
      /\ Cardinality(ViewsOf(a)) \in Nat
  BY AcceptedParts DEF Adds
<1>0. Adds'
  BY AcceptedParts, PTL
<1>2. /\ Accepted(a)' = count'[<<"view", a>>] + buffer'[ShardOf[a]].view[a] + Drained(a)'
                          + Cardinality(ViewsOf(a)')
      /\ count'[<<"view", a>>] \in Nat /\ buffer'[ShardOf[a]].view[a] \in Nat /\ Drained(a)' \in Nat
      /\ IsFiniteSet(ViewsOf(a)') /\ Cardinality(ViewsOf(a)') \in Nat
  BY <1>0 DEF Adds
<1>3. Cardinality(ViewsOf(a)) <= Cardinality(ViewsOf(a)')
  BY <1>2, FS_Subset
<1> QED BY <1>1, <1>2, <1>3

(* A view that is delivered leaves the queue for the buffer.               *)
LEMMA DeliveryKeeps ==
  ASSUME StatsInv, StatsInv', NEW m \in queue, HandleMessage(m), NEW a \in Articles
  PROVE  Accepted(a)' >= Accepted(a)
<1> DEFINE s == ShardOf[m.pair[2]]
           b == buffer[s]
<1>0. /\ m \in Message /\ m.pair[2] \in Articles /\ s \in Shards /\ b \in Buffer /\ IsFiniteSet(b.insert)
      /\ buffer \in [Shards -> Buffer]
  BY ShardsAssumption DEF StatsInv, TypeOK, Finite, Message, Pairs
<1>7. Adds /\ Adds'
  BY AcceptedParts, PTL
<1>1. buffer' = [buffer EXCEPT ![s] = Applied(b, m)] /\ count' = count /\ drained' = drained
  BY DEF HandleMessage, mysql
<1>2. ShardOf[a] \in Shards
  BY AcceptedParts DEF Adds
<1>3. Drained(a)' = Drained(a)
  BY <1>1 DEF Drained
<1>4. ASSUME NEW n \in ViewsOf(a), n # m
      PROVE  n \in ViewsOf(a)'
  BY <1>4 DEF ViewsOf, HandleMessage
<1>5. CASE m.op = "view" /\ m.pair[2] = a
  <2>1. buffer'[ShardOf[a]].view[a] = b.view[a] + 1 /\ ShardOf[a] = s
    <3>1. Applied(b, m).view[a] = b.view[a] + 1
      BY <1>0, <1>5, AppliedTyped
    <3> QED BY <1>0, <1>1, <1>5, <3>1
  <2>2. Cardinality(ViewsOf(a)) <= Cardinality(ViewsOf(a)') + 1
    <3>1. IsFiniteSet(ViewsOf(a)') /\ Cardinality(ViewsOf(a)') \in Nat
      BY <1>7 DEF Adds
    <3>2. IsFiniteSet(ViewsOf(a)' \cup {m}) /\ Cardinality(ViewsOf(a)' \cup {m}) \in Nat
          /\ Cardinality(ViewsOf(a)' \cup {m}) <= Cardinality(ViewsOf(a)') + 1
      BY <3>1, GrowsByOne
    <3>3. \A n \in ViewsOf(a) : n \in ViewsOf(a)' \cup {m}
      BY <1>4
    <3>4. Cardinality(ViewsOf(a)) <= Cardinality(ViewsOf(a)' \cup {m}) /\ Cardinality(ViewsOf(a)) \in Nat
      BY <1>7, <3>2, <3>3, FS_Subset DEF Adds
    <3> QED BY <3>1, <3>2, <3>4
  <2>3. /\ Accepted(a) = count[<<"view", a>>] + buffer[ShardOf[a]].view[a] + Drained(a)
                           + Cardinality(ViewsOf(a))
        /\ count[<<"view", a>>] \in Nat /\ buffer[ShardOf[a]].view[a] \in Nat /\ Drained(a) \in Nat
        /\ Cardinality(ViewsOf(a)) \in Nat
    BY AcceptedParts DEF Adds
  <2>4. /\ Accepted(a)' = count'[<<"view", a>>] + buffer'[ShardOf[a]].view[a] + Drained(a)'
                            + Cardinality(ViewsOf(a)')
        /\ Cardinality(ViewsOf(a)') \in Nat
    BY <1>7 DEF Adds
  <2>5. buffer[ShardOf[a]] = b
    BY <2>1
  <2> HIDE DEF b, s
  <2> QED BY <1>1, <1>3, <2>1, <2>2, <2>3, <2>4, <2>5
<1>6. CASE ~(m.op = "view" /\ m.pair[2] = a)
  <2>1. buffer'[ShardOf[a]].view[a] = buffer[ShardOf[a]].view[a]
    <3>1. CASE ShardOf[a] = s
      <4>1. Applied(b, m).view[a] = b.view[a]
        BY <1>0, <1>6, AppliedTyped
      <4> QED BY <1>0, <1>1, <3>1, <4>1
    <3>2. CASE ShardOf[a] # s
      BY <1>0, <1>1, <1>2, <3>2
    <3> QED BY <3>1, <3>2
  <2>2. m \notin ViewsOf(a)
    BY <1>6 DEF ViewsOf
  <2>3. count[<<"view", a>>] \in Nat /\ buffer[ShardOf[a]].view[a] \in Nat /\ Drained(a) \in Nat
    BY AcceptedParts DEF Adds
  <2>4. count'[<<"view", a>>] + buffer'[ShardOf[a]].view[a] + Drained(a)'
          >= count[<<"view", a>>] + buffer[ShardOf[a]].view[a] + Drained(a)
    <3>1. count'[<<"view", a>>] = count[<<"view", a>>]
      BY <1>1
    <3> QED BY <1>3, <2>1, <2>3, <3>1
  <2>5. \A n \in ViewsOf(a) : n \in ViewsOf(a)'
    BY <1>4, <2>2
  <2> QED BY <2>4, <2>5, PartsGrow
<1> QED BY <1>5, <1>6

(* A flush moves views from buffer to buffer and on to MySQL; one that     *)
(* fails puts them back.                                                   *)
LEMMA FlushKeeps ==
  ASSUME StatsInv, StatsInv', NEW s \in Shards, FlushStep(s), NEW a \in Articles
  PROVE  Accepted(a)' >= Accepted(a)
<1>0. /\ ShardOf[a] \in Shards /\ count[<<"view", a>>] \in Nat
      /\ buffer[ShardOf[a]].view[a] \in Nat /\ Drained(a) \in Nat
      /\ \A m \in ViewsOf(a) : m \in ViewsOf(a)'
  <2>1. queue' = queue
    BY DEF FlushStep, IdleTick, SwapBuffers, Flushed, FlushFails, FlushReplyLost, MergeBack, vars
  <2> QED BY <2>1, AcceptedParts DEF Adds, ViewsOf
<1>1. /\ TypeOK /\ buffer[s] \in Buffer /\ buffer \in [Shards -> Buffer]
      /\ drained \in [Shards -> Buffer \cup {None}]
      /\ drained[s] # None => drained[s] \in Buffer /\ IsFiniteSet(drained[s].insert)
      /\ IsFiniteSet(buffer[s].insert)
  BY DEF StatsInv, TypeOK, Finite
<1> SUFFICES count'[<<"view", a>>] + buffer'[ShardOf[a]].view[a] + Drained(a)'
               >= count[<<"view", a>>] + buffer[ShardOf[a]].view[a] + Drained(a)
  BY <1>0, PartsGrow
<1>2. CASE IdleTick(s)
  BY <1>0, <1>2 DEF IdleTick, vars, worker, mysql, Drained
<1>3. CASE ShardOf[a] # s
  <2>1. buffer'[ShardOf[a]] = buffer[ShardOf[a]] /\ drained'[ShardOf[a]] = drained[ShardOf[a]]
    BY <1>0, <1>1, <1>3 DEF FlushStep, IdleTick, SwapBuffers, Flushed, FlushFails, FlushReplyLost,
                           MergeBack, vars, worker
  <2>2. count'[<<"view", a>>] \in Nat /\ count'[<<"view", a>>] >= count[<<"view", a>>]
    <3>1. CASE count' = count
      BY <1>0, <3>1
    <3>2. CASE drained[s] # None /\ FlushWrites(drained[s])
      <4>1. count'[<<"view", a>>] = count[<<"view", a>>] + drained[s].view[a] /\ drained[s].view[a] \in Nat
        BY <1>1, <3>2, FlushWritesTyped DEF Buffer
      <4> QED BY <1>0, <4>1
    <3> QED BY <3>1, <3>2 DEF FlushStep, IdleTick, SwapBuffers, Flushed, FlushFails, FlushReplyLost,
                             vars, mysql
  <2>3. Drained(a)' = Drained(a)
    BY <2>1 DEF Drained
  <2> QED BY <1>0, <2>1, <2>2, <2>3
<1>4. CASE SwapBuffers(s) /\ ShardOf[a] = s
  <2>1. /\ buffer'[s] = EmptyBuffer /\ drained'[s] = buffer[s] /\ count' = count /\ drained[s] = None
    BY <1>1, <1>4 DEF SwapBuffers, mysql
  <2>2. EmptyBuffer.view[a] = 0
    BY DEF EmptyBuffer
  <2>3. Drained(a) = 0 /\ Drained(a)' = buffer[s].view[a]
    BY <1>1, <1>4, <2>1, NoneAssumption DEF Drained
  <2> QED BY <1>0, <1>4, <2>1, <2>2, <2>3
<1>5. CASE Flushed(s) /\ ShardOf[a] = s
  <2>1. /\ buffer' = buffer /\ drained'[s] = None /\ drained[s] # None
        /\ count'[<<"view", a>>] = count[<<"view", a>>] + drained[s].view[a]
    BY <1>1, <1>5, FlushWritesTyped DEF Flushed
  <2>2. Drained(a) = drained[s].view[a] /\ Drained(a)' = 0
    BY <1>5, <2>1 DEF Drained
  <2> QED BY <1>0, <2>1, <2>2
<1>6. CASE (FlushFails(s) \/ FlushReplyLost(s)) /\ ShardOf[a] = s
  <2>1. /\ buffer'[s] = Merged(buffer[s], drained[s]) /\ drained'[s] = None /\ drained[s] # None
    BY <1>1, <1>6 DEF FlushFails, FlushReplyLost, MergeBack
  <2>2. buffer'[s].view[a] = buffer[s].view[a] + drained[s].view[a]
    BY <1>1, <2>1, MergedTyped
  <2>3. count'[<<"view", a>>] \in Nat /\ count'[<<"view", a>>] >= count[<<"view", a>>]
    <3>1. CASE count' = count
      BY <1>0, <3>1
    <3>2. CASE FlushWrites(drained[s])
      <4>1. count'[<<"view", a>>] = count[<<"view", a>>] + drained[s].view[a] /\ drained[s].view[a] \in Nat
        BY <1>1, <2>1, <3>2, FlushWritesTyped DEF Buffer
      <4> QED BY <1>0, <4>1
    <3> QED BY <1>6, <3>1, <3>2 DEF FlushFails, FlushReplyLost, mysql
  <2>4. Drained(a) = drained[s].view[a] /\ Drained(a)' = 0
    BY <1>6, <2>1 DEF Drained
  <2> QED BY <1>0, <1>6, <2>2, <2>3, <2>4
<1> QED BY <1>2, <1>3, <1>4, <1>5, <1>6 DEF FlushStep

(* A call only adds to the queue.                                          *)
LEMMA CallKeeps ==
  ASSUME StatsInv, StatsInv', NEW a \in Articles, UNCHANGED <<worker, mysql>>,
         \A m \in queue : m \in queue'
  PROVE  Accepted(a)' >= Accepted(a)
<1>1. UNCHANGED <<buffer, drained, count>> /\ \A m \in ViewsOf(a) : m \in ViewsOf(a)'
  BY DEF worker, mysql, ViewsOf
<1>2. count[<<"view", a>>] \in Nat /\ buffer[ShardOf[a]].view[a] \in Nat /\ Drained(a) \in Nat
  BY AcceptedParts DEF Adds
<1>3. Drained(a)' = Drained(a)
  BY <1>1 DEF Drained
<1> QED BY <1>1, <1>2, <1>3, PartsGrow

(* Through NSQ, through the live and the drained buffer and into MySQL no  *)
(* step but a crash loses a view, for any number of handlers, articles and *)
(* shards: a delivery that meets a flush, a flush that is refused, and one *)
(* whose COMMIT is not answered leave the views where they are counted.    *)
THEOREM ViewsKeptHolds == Spec => ViewsKept
<1>1. StatsInv /\ StatsInv' /\ [Next]_vars
        => [CrashRestart \/ \A a \in Articles : Accepted(a)' >= Accepted(a)]_vars
  <2> SUFFICES ASSUME StatsInv, StatsInv', Next, ~CrashRestart, NEW a \in Articles
               PROVE  Accepted(a)' >= Accepted(a)
    OBVIOUS
  <2>1. ASSUME NEW c \in Clients, (\E op \in Ops, p \in Pairs : Arrive(c, op, p)) \/ ClientStep(c)
        PROVE  Accepted(a)' >= Accepted(a)
    <3>1. UNCHANGED <<worker, mysql>> /\ \A m \in queue : m \in queue'
      BY <2>1 DEF Arrive, ClientStep, TryMark, DropMark, DropMarkFails, IncrStats, UpdateLeaderboard,
                  Publish, Enqueue, UndoStats, UndoBoard, UndoMark
    <3> QED BY <3>1, CallKeeps
  <2>2. ASSUME NEW p \in Pairs, ReadLimitExpires(p)
        PROVE  Accepted(a)' >= Accepted(a)
    BY <2>2, CallKeeps DEF ReadLimitExpires
  <2> QED BY <2>1, <2>2, DeliveryKeeps, FlushKeeps DEF Next
<1> QED BY <1>1, StatsInit, StatsNext, PTL DEF Spec, ViewsKept

=============================================================================
