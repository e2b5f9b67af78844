------------------------------ MODULE EarnProofs ------------------------------
(***************************************************************************)
(* Proofs about PointsEarn: types, single credits, the daily limit, the    *)
(* offsets the consumer commits, and the reconciliation of wallet and      *)
(* ledger.                                                                 *)
(***************************************************************************)
EXTENDS PointsEarn, FiniteSetTheorems, SequenceTheorems, WellFoundedInduction, TLAPS

-----------------------------------------------------------------------------
(* Types.  TypeOK is not inductive: booking needs a real txn id, the next  *)
(* attempt at a message a count below MaxRetries.                          *)

Real  == {"publish", "exists", "limit", "read", "commit", "rollback"}
TaskTyped == \A w \in Workers : task[w].step \in Real => task[w].txn \in AllTxns
LoopTyped == /\ loop.at # "fetch" => loop.pos > 0
             /\ loop.exhausted \/ loop.failed < MaxRetries
             /\ loop.at = "work" => ~loop.exhausted
TypeInv == TypeOK /\ TaskTyped /\ LoopTyped

(* A worker with a call or a message has a record of that kind.            *)
LEMMA BusyRecord ==
  ASSUME TypeInv, NEW w \in Workers, task[w].step # "idle"
  PROVE  /\ task[w] \in Task
         /\ task[w].step \in Real => task[w].txn \in AllTxns /\ Kind[task[w].txn] \in Kinds
<1>1. task[w] \in Task
  BY DEF TypeInv, TypeOK, Idle
<1> QED BY <1>1, TxnsAssumption DEF TypeInv, TaskTyped

(* A new record for one worker keeps the types, if it is typed itself.     *)
LEMMA RecordTyped ==
  ASSUME TypeInv, NEW w \in Workers, NEW r, r = Idle \/ r \in Task,
         r.step \in Real => r.txn \in AllTxns,
         task' = [task EXCEPT ![w] = r]
  PROVE  task' \in [Workers -> Task \cup {Idle}] /\ TaskTyped'
<1>1. task \in [Workers -> Task \cup {Idle}]
  BY DEF TypeInv, TypeOK
<1>2. \A v \in Workers : task'[v] = IF v = w THEN r ELSE task[v]
  BY <1>1
<1>3. TaskTyped'
  BY <1>2 DEF TypeInv, TaskTyped
<1> QED BY <1>1, <1>3

(* The record with which a call begins.                                    *)
LEMMA StartTyped ==
  ASSUME TypeInv, NEW s \in {"has", "publish", "exists"}, NEW u \in Users,
         NEW t \in AllTxns \cup {GrantTxn}
  PROVE  /\ Start(s, u, t, TRUE) \in Task /\ Start(s, u, t, TRUE).step = s
         /\ Start(s, u, t, FALSE) \in Task /\ Start(s, u, t, FALSE).txn = t
<1>1. today \in Days
  BY DEF TypeInv, TypeOK
<1>2. NoWallet \in Wallet
  BY DEF NoWallet, Wallet, NoRow
<1> QED BY <1>1, <1>2 DEF Start, Task

(* A record that moves on, and one that moves on with a result.            *)
LEMMA AdvanceTyped ==
  ASSUME TypeInv, NEW w \in Workers, task[w].step # "idle",
         NEW s \in {"has", "mark", "key", "publish", "exists", "limit", "read", "commit",
                    "rollback", "done", "answer"},
         s \in Real => task[w].txn \in AllTxns, Advance(w, s)
  PROVE  task' \in [Workers -> Task \cup {Idle}] /\ TaskTyped'
<1>0. task \in [Workers -> Task \cup {Idle}]
  BY DEF TypeInv, TypeOK
<1>1. task[w] \in Task
  BY BusyRecord
<1>2. [task[w] EXCEPT !.step = s] \in Task
  BY <1>1 DEF Task
<1>3. [task[w] EXCEPT !.step = s].step = s /\ [task[w] EXCEPT !.step = s].txn = task[w].txn
  BY <1>1 DEF Task
<1>4. task' = [task EXCEPT ![w] = [task[w] EXCEPT !.step = s]]
  BY <1>0 DEF Advance
<1> QED BY <1>2, <1>3, <1>4, RecordTyped

(* A task that gets its result, or goes to give its quota back.            *)
LEMMA ResultTyped ==
  ASSUME TypeInv, NEW w \in Workers, task[w].step # "idle",
         NEW s \in {"rollback", "done"}, s \in Real => task[w].txn \in AllTxns,
         NEW b \in BOOLEAN, task' = [task EXCEPT ![w].step = s, ![w].ok = b]
  PROVE  task' \in [Workers -> Task \cup {Idle}] /\ TaskTyped'
<1>0. task \in [Workers -> Task \cup {Idle}]
  BY DEF TypeInv, TypeOK
<1>1. task[w] \in Task
  BY BusyRecord
<1> DEFINE r == [task[w] EXCEPT !.step = s, !.ok = b]
<1>2. r \in Task /\ r.step = s /\ r.txn = task[w].txn
  BY <1>1 DEF Task
<1>3. task' = [task EXCEPT ![w] = r]
  BY <1>0
<1> QED BY <1>2, <1>3, RecordTyped

(* A task that finishes keeps its type.                                    *)
LEMMA FinishTyped ==
  ASSUME TypeInv, NEW w \in Workers, task[w].step # "idle",
         Finish(w, TRUE) \/ Finish(w, FALSE) \/ Finish(w, task[w].ok)
  PROVE  task' \in [Workers -> Task \cup {Idle}] /\ TaskTyped'
<1>1. task[w].ok \in BOOLEAN
  BY BusyRecord DEF Task
<1>2. "done" \notin Real
  BY DEF Real
<1> QED BY <1>1, <1>2, ResultTyped DEF Finish

(* So does one that goes to give its quota back.                           *)
LEMMA GiveBackTyped ==
  ASSUME TypeInv, NEW w \in Workers, task[w].step \in Real,
         GiveBack(w, TRUE) \/ GiveBack(w, FALSE)
  PROVE  task' \in [Workers -> Task \cup {Idle}] /\ TaskTyped'
<1>1. task[w].txn \in AllTxns /\ task[w].step # "idle"
  BY DEF Real, TypeInv, TaskTyped
<1> QED BY <1>1, ResultTyped DEF GiveBack

(* The end of a call.                                                      *)
LEMMA IdleTyped ==
  ASSUME TypeInv, NEW w \in Workers, Return(w)
  PROVE  task' \in [Workers -> Task \cup {Idle}] /\ TaskTyped'
<1>1. Idle.step \notin Real
  BY DEF Idle, Real
<1> QED BY <1>1, RecordTyped DEF Return

(* The initial state has its types.                                        *)
LEMMA TypeInit == Init => TypeInv
<1> SUFFICES ASSUME Init PROVE TypeInv
  OBVIOUS
<1>1. NoWallet \in Wallet
  BY DEF NoWallet, Wallet, NoRow
<1>2. 1 \in Days
  BY BoundsAssumption DEF Days
<1>3. Loop0(0) \in Loop /\ Loop0(0).pos = 0 /\ Loop0(0).at = "fetch" /\ Loop0(0).failed = 0
  BY BoundsAssumption, RetriesAssumption DEF Loop0, Loop
<1>4. \A w \in Workers : task[w].step = "idle"
  BY DEF Init, Idle
<1>5. wallet \in [Users -> Wallet] /\ ledger \in [Users -> Seq(Row)]
  BY <1>1 DEF Init
<1>6. counter \in [Users \X Kinds \X Days -> Int] /\ checked \subseteq Users \X Days /\ today \in Days
  BY <1>2 DEF Init
<1>7. log \in Seq(AllTxns) /\ Len(log) = 0
  BY DEF Init
<1>8. committed \in 0..loop.pos /\ loop.pos <= Len(log) /\ dead \subseteq 1..Len(log) /\ loop \in Loop
      /\ missed \subseteq 1..Len(log)
  BY <1>3, <1>7 DEF Init
<1>9. task \in [Workers -> Task \cup {Idle}]
  BY DEF Init
<1>10. TypeOK
  BY <1>5, <1>6, <1>7, <1>8, <1>9, BoundsAssumption DEF TypeOK
<1>11. TaskTyped
  BY <1>4 DEF TaskTyped, Real
<1>12. LoopTyped
  BY <1>3, RetriesAssumption DEF LoopTyped, Init
<1> QED BY <1>10, <1>11, <1>12 DEF TypeInv

(* The parts of the type invariant, each kept by a step that leaves its    *)
(* variables alone.                                                        *)
MysqlTyped == wallet \in [Users -> Wallet] /\ ledger \in [Users -> Seq(Row)]
RedisTyped == counter \in [Users \X Kinds \X Days -> Int] /\ checked \subseteq Users \X Days
KafkaTyped == /\ log \in Seq(AllTxns) /\ Len(log) <= MaxLog
              /\ committed \in 0..loop.pos /\ loop.pos <= Len(log)
              /\ dead \subseteq 1..Len(log) /\ missed \subseteq 1..Len(log)
              /\ loop \in Loop /\ LoopTyped
TasksTyped == task \in [Workers -> Task \cup {Idle}] /\ TaskTyped

(* The types, by store.                                                    *)
LEMMA TypeParts == TypeInv <=> MysqlTyped /\ RedisTyped /\ KafkaTyped /\ TasksTyped /\ today \in Days
BY DEF TypeInv, TypeOK, MysqlTyped, RedisTyped, KafkaTyped, TasksTyped

(* Each part depends on its own store only.                                *)
LEMMA PartsStay ==
  /\ MysqlTyped /\ UNCHANGED mysql => MysqlTyped'
  /\ RedisTyped /\ UNCHANGED redis => RedisTyped'
  /\ KafkaTyped /\ UNCHANGED <<kafka, loop>> => KafkaTyped'
  /\ TasksTyped /\ UNCHANGED task => TasksTyped'
  /\ MysqlTyped' /\ RedisTyped' /\ KafkaTyped' /\ TasksTyped' /\ today' \in Days => TypeInv'
BY DEF TypeInv, TypeOK, MysqlTyped, RedisTyped, KafkaTyped, TasksTyped, TaskTyped, LoopTyped, mysql, redis, kafka

(* A step that changes nothing but a worker's record.                      *)
LEMMA QuietTyped ==
  ASSUME TypeInv, TasksTyped', UNCHANGED <<mysql, redis, kafka, today, loop>>
  PROVE  TypeInv'
BY TypeParts, PartsStay

(* Arrivals and the steps of a request before the booking.                 *)
LEMMA ClientStepTyped ==
  ASSUME TypeInv, NEW c \in Clients, ClientStep(c) \/ (\E t \in Txns : Arrive(c, t))
                                     \/ (\E u \in Users : ArriveCheckin(c, u))
  PROVE  TypeInv'
<1>0. c \in Workers
  BY DEF Workers
<1>1. ASSUME NEW t \in Txns, Arrive(c, t)
      PROVE  TypeInv'
  <2>1. UserOf[t] \in Users /\ t \in AllTxns
    BY TxnsAssumption DEF AllTxns
  <2> DEFINE r == Start("publish", UserOf[t], t, FALSE)
  <2>2. r \in Task /\ r.txn = t
    <3>1. \A u \in Users : /\ Start("publish", u, t, FALSE) \in Task
                           /\ Start("publish", u, t, FALSE).txn = t
      <4> TAKE u \in Users
      <4>1. "publish" \in {"has", "publish", "exists"} /\ t \in AllTxns \cup {GrantTxn}
        BY <2>1
      <4> QED BY <4>1, StartTyped, ZenonT(60)
    <3> QED BY <2>1, <3>1
  <2>3. task' = [task EXCEPT ![c] = r]
    BY <1>1 DEF Arrive
  <2> HIDE DEF r
  <2>4. TasksTyped'
    BY <1>0, <2>1, <2>2, <2>3, RecordTyped DEF TasksTyped
  <2> QED BY <1>1, <2>4, QuietTyped DEF Arrive
<1>2. ASSUME NEW u \in Users, ArriveCheckin(c, u)
      PROVE  TypeInv'
  <2>1. "has" \notin Real
    BY DEF Real
  <2> DEFINE r == Start("has", u, GrantTxn, TRUE)
  <2>2. r \in Task /\ r.step = "has"
    BY StartTyped
  <2>3. task' = [task EXCEPT ![c] = r]
    BY <1>2 DEF ArriveCheckin
  <2> HIDE DEF r
  <2>4. TasksTyped'
    BY <1>0, <2>1, <2>2, <2>3, RecordTyped DEF TasksTyped
  <2> QED BY <1>2, <2>4, QuietTyped DEF ArriveCheckin
<1>3. ASSUME Return(c)
      PROVE  TasksTyped'
  BY <1>0, <1>3, IdleTyped DEF TasksTyped
<1>4. ASSUME NEW s \in {"mark", "key", "answer"}, task[c].step # "idle", Advance(c, s)
      PROVE  TasksTyped'
  <2>1. s \notin Real
    BY DEF Real
  <2> QED BY <1>0, <1>4, <2>1, AdvanceTyped DEF TasksTyped
<1>5. CASE HasCheckedIn(c)
  <2>1. TasksTyped'
    BY <1>3, <1>4, <1>5 DEF HasCheckedIn, At
  <2> QED BY <1>5, <2>1, QuietTyped DEF HasCheckedIn
<1>6. CASE MarkCheckin(c)
  <2>1. TasksTyped'
    BY <1>3, <1>4, <1>6 DEF MarkCheckin, At
  <2>2. task[c].user \in Users
    BY <1>0, <1>6, BusyRecord DEF MarkCheckin, At, Task
  <2>3. RedisTyped'
    BY <1>6, <2>2, TypeParts DEF MarkCheckin, RedisTyped
  <2> QED BY <1>6, <2>1, <2>3, TypeParts, PartsStay DEF MarkCheckin
<1>7. CASE CheckinKey(c)
  <2>1. task[c] \in Task
    BY <1>0, <1>7, BusyRecord DEF CheckinKey, At
  <2> DEFINE t == DayTxn[<<task[c].user, today>>]
  <2>2. t \in AllTxns
    BY <2>1 DEF Task, AllTxns, CheckinTxns, TypeInv, TypeOK
  <2> DEFINE r == [task[c] EXCEPT !.step = "publish", !.txn = t]
  <2>3. r \in Task /\ r.txn = t
    BY <2>1, <2>2 DEF Task
  <2>4. task' = [task EXCEPT ![c] = r]
    BY <1>0, <1>7 DEF CheckinKey, TypeInv, TypeOK
  <2>5. TasksTyped'
    BY <1>0, <2>2, <2>3, <2>4, RecordTyped DEF TasksTyped
  <2> QED BY <1>7, <2>5, QuietTyped DEF CheckinKey
<1>8. CASE Publish(c)
  <2>1. task[c].txn \in AllTxns /\ task[c].step # "idle"
    BY <1>0, <1>8, BusyRecord DEF Publish, At, Real
  <2>2. TasksTyped'
    BY <1>0, <1>8, <2>1, AdvanceTyped, FinishTyped DEF Publish, TasksTyped
  <2>3. log \in Seq(AllTxns) /\ Len(log) <= MaxLog /\ Len(log) \in Nat
    BY DEF TypeInv, TypeOK
  <2>4. CASE log' = log
    BY <1>8, <2>2, <2>4, TypeParts, PartsStay DEF Publish, kafka, mysql, redis
  <2>5. CASE Len(log) < MaxLog /\ log' = Append(log, task[c].txn)
    <3>1. log' \in Seq(AllTxns) /\ Len(log') = Len(log) + 1
      BY <2>1, <2>3, <2>5
    <3>2. Len(log') <= MaxLog /\ loop.pos <= Len(log')
          /\ dead \subseteq 1..Len(log') /\ missed \subseteq 1..Len(log')
      BY <2>3, <2>5, <3>1, BoundsAssumption DEF TypeInv, TypeOK, Loop
    <3>3. KafkaTyped'
      BY <1>8, <3>1, <3>2 DEF Publish, KafkaTyped, TypeInv, TypeOK, LoopTyped
    <3> QED BY <1>8, <2>2, <3>3, TypeParts, PartsStay DEF Publish
  <2> QED BY <1>8, <2>4, <2>5 DEF Publish
<1>9. CASE CallReturns(c)
  <2>1. TasksTyped'
    BY <1>3, <1>4, <1>9 DEF CallReturns, At
  <2> QED BY <1>9, <2>1, QuietTyped DEF CallReturns
<1>10. CASE Answer(c)
  BY <1>3, <1>10, QuietTyped DEF Answer
<1> QED BY <1>1, <1>2, <1>5, <1>6, <1>7, <1>8, <1>9, <1>10 DEF ClientStep

(* The quota a booking takes is an entry of the counters.                  *)
LEMMA QuotaEntry ==
  ASSUME TypeInv, NEW w \in Workers, task[w].step \in Real
  PROVE  /\ QuotaKey(w, today) \in Users \X Kinds \X Days
         /\ counter[QuotaKey(w, today)] \in Int
         /\ \A n \in Int : [counter EXCEPT ![QuotaKey(w, today)] = n]
                             \in [Users \X Kinds \X Days -> Int]
<1>1. task[w] \in Task /\ Kind[task[w].txn] \in Kinds
  BY BusyRecord DEF Real
<1>2. QuotaKey(w, today) \in Users \X Kinds \X Days
  BY <1>1 DEF QuotaKey, Task, TypeInv, TypeOK
<1> QED BY <1>2 DEF TypeInv, TypeOK

(* What a committed booking writes.                                        *)
LEMMA EarnWritesTyped ==
  ASSUME TypeInv, NEW w \in Workers, task[w].step = "commit", EarnWrites(w)
  PROVE  MysqlTyped'
<1> DEFINE t == task[w]
           amount == Amount[Kind[t.txn]]
           grant == [txn |-> GrantTxn, amount |-> Grant, day |-> t.day]
           row   == [txn |-> t.txn, amount |-> amount, day |-> t.day]
           new   == [version |-> (IF Opening(t.seen) THEN 0 ELSE t.seen.version) + 1,
                     balance |-> Balance(wallet[t.user]) + amount]
<1>1. t \in Task /\ t.txn \in AllTxns /\ Kind[t.txn] \in Kinds
  BY BusyRecord DEF Real
<1>2. amount \in Nat /\ Grant \in Nat
  BY <1>1, RulesAssumption
<1>3. grant \in Row /\ row \in Row
  BY <1>1, <1>2 DEF Row, Task
<1>4. wallet[t.user] \in Wallet /\ t.user \in Users /\ t.seen \in Wallet /\ ledger[t.user] \in Seq(Row)
  BY <1>1 DEF Task, TypeInv, TypeOK
<1>5. Balance(wallet[t.user]) \in Nat
  BY <1>2, <1>4 DEF Balance, Wallet
<1>6. (IF Opening(t.seen) THEN 0 ELSE t.seen.version) + 1 \in Nat
  BY <1>4 DEF Opening, Wallet
<1>7. new \in Wallet
  BY <1>2, <1>5, <1>6 DEF Wallet
<1>8. wallet' = [wallet EXCEPT ![t.user] = new]
  BY <1>4 DEF EarnWrites, TypeInv, TypeOK
<1>9. wallet' \in [Users -> Wallet]
  BY <1>7, <1>8 DEF TypeInv, TypeOK
<1> DEFINE old == IF Opening(t.seen) THEN Append(ledger[t.user], grant) ELSE ledger[t.user]
<1>10. old \in Seq(Row)
  BY <1>3, <1>4
<1>11. Append(old, row) \in Seq(Row)
  BY <1>3, <1>10
<1>12. ledger' = [ledger EXCEPT ![t.user] = Append(old, row)]
  BY <1>4 DEF EarnWrites, TypeInv, TypeOK
<1>13. ledger' \in [Users -> Seq(Row)]
  BY <1>11, <1>12 DEF TypeInv, TypeOK
<1> QED BY <1>9, <1>13 DEF MysqlTyped

(* The steps of a booking, of a request and of the consumer alike.         *)
LEMMA EarnStepTyped ==
  ASSUME TypeInv, NEW w \in Workers, EarnStep(w)
  PROVE  TypeInv'
<1>1. CASE CheckExists(w)
  <2>1. task[w].txn \in AllTxns /\ task[w].step # "idle"
    BY <1>1, BusyRecord DEF CheckExists, At, Real
  <2>2. TasksTyped'
    BY <1>1, <2>1, AdvanceTyped, FinishTyped DEF CheckExists, TasksTyped
  <2> QED BY <1>1, <2>2, QuietTyped DEF CheckExists
<1>2. CASE TakeQuota(w)
  <2>1. task[w].step \in Real /\ task[w].step # "idle"
    BY <1>2 DEF TakeQuota, At, Real
  <2>2. task[w] \in Task /\ task[w].txn \in AllTxns
    BY <2>1, BusyRecord
  <2> DEFINE r == [task[w] EXCEPT !.step = "read", !.day = today]
  <2>3. r \in Task /\ r.txn = task[w].txn
    BY <2>2 DEF Task, TypeInv, TypeOK
  <2>4. task' = [task EXCEPT ![w].step = "read", ![w].day = today]
          => task' = [task EXCEPT ![w] = r]
    BY DEF TypeInv, TypeOK
  <2>5. task' = [task EXCEPT ![w].step = "read", ![w].day = today] => TasksTyped'
    BY <2>2, <2>3, <2>4, RecordTyped DEF TasksTyped
  <2>6. TasksTyped'
    BY <1>2, <2>1, <2>5, FinishTyped DEF TakeQuota, TasksTyped
  <2>7. RedisTyped'
    BY <1>2, <2>1, QuotaEntry DEF TakeQuota, RedisTyped, TypeInv, TypeOK
  <2> QED BY <1>2, <2>6, <2>7, TypeParts, PartsStay DEF TakeQuota
<1>3. CASE OverLimit(w)
  <2>1. TasksTyped'
    BY <1>3, FinishTyped DEF OverLimit, At, TasksTyped
  <2> QED BY <1>3, <2>1, QuietTyped DEF OverLimit
<1>4. CASE ReadWallet(w)
  <2>1. task[w] \in Task /\ task[w].txn \in AllTxns
    BY <1>4, BusyRecord DEF ReadWallet, At, Real
  <2> DEFINE r == [task[w] EXCEPT !.step = "commit", !.seen = wallet[task[w].user]]
  <2>2. wallet[task[w].user] \in Wallet
    BY <2>1 DEF Task, TypeInv, TypeOK
  <2>3. r \in Task /\ r.txn = task[w].txn
    BY <2>1, <2>2 DEF Task
  <2>4. task' = [task EXCEPT ![w] = r]
    BY <1>4 DEF ReadWallet, TypeInv, TypeOK
  <2>5. TasksTyped'
    BY <2>1, <2>3, <2>4, RecordTyped DEF TasksTyped
  <2> QED BY <1>4, <2>5, QuietTyped DEF ReadWallet
<1>5. CASE CommitEarn(w)
  <2>1. MysqlTyped'
    BY <1>5, EarnWritesTyped DEF CommitEarn, At
  <2>2. TasksTyped'
    BY <1>5, FinishTyped, GiveBackTyped DEF CommitEarn, At, TasksTyped, Real
  <2> QED BY <1>5, <2>1, <2>2, TypeParts, PartsStay DEF CommitEarn
<1>6. CASE SkipBooked(w) \/ EarnConflict(w) \/ EarnFails(w)
  <2>1. TasksTyped'
    BY <1>6, GiveBackTyped DEF SkipBooked, EarnConflict, EarnFails, At, TasksTyped, Real
  <2> QED BY <1>6, <2>1, QuietTyped DEF SkipBooked, EarnConflict, EarnFails
<1>7. CASE RollbackQuota(w)
  <2>1. TasksTyped'
    BY <1>7, FinishTyped DEF RollbackQuota, At, TasksTyped
  <2>2. RedisTyped'
    BY <1>7, QuotaEntry DEF RollbackQuota, Decremented, At, Real, RedisTyped, TypeInv, TypeOK
  <2> QED BY <1>7, <2>1, <2>2, TypeParts, PartsStay DEF RollbackQuota
<1> QED BY <1>1, <1>2, <1>3, <1>4, <1>5, <1>6, <1>7 DEF EarnStep

(* The consumer and its surroundings.                                      *)
LEMMA LoopStepTyped ==
  ASSUME TypeInv, LoopStep \/ Rebalance \/ CrashRestart \/ Midnight
  PROVE  TypeInv'
<1>0. /\ loop \in Loop /\ committed \in 0..loop.pos /\ loop.pos <= Len(log) /\ Len(log) <= MaxLog
      /\ Len(log) \in Nat /\ loop.pos \in Nat /\ MaxLog \in Nat /\ MaxRetries \in Nat \ {0}
      /\ committed \in 0..MaxLog
  BY BoundsAssumption, RetriesAssumption DEF TypeInv, TypeOK, Loop
<1>1. ASSUME NEW offset \in 0..MaxLog
      PROVE  Loop0(offset) \in Loop /\ Loop0(offset).pos = offset /\ Loop0(offset).at = "fetch"
             /\ Loop0(offset).failed = 0
  BY <1>0, <1>1 DEF Loop0, Loop
<1>2. CASE Fetch
  <2> DEFINE offset == loop.pos + 1
             same   == loop.cursor = offset
             who    == CHOOSE u \in Users : log[offset] \in
                         {t \in Txns : UserOf[t] = u} \cup {DayTxn[<<u, d>>] : d \in Days}
             r      == Start("exists", who, log[offset], FALSE)
  <2>1. offset \in 1..Len(log) /\ offset \in 1..MaxLog
    BY <1>0, <1>2 DEF Fetch
  <2>2. loop'.pos = offset /\ loop'.cursor = offset
    BY <1>2 DEF Fetch
  <2>3. CASE same /\ loop.exhausted
    <3>1. loop' = [at |-> "dlq", pos |-> offset, cursor |-> offset, failed |-> loop.failed,
                   exhausted |-> TRUE]
      BY <1>2, <2>3 DEF Fetch
    <3>2. KafkaTyped'
      BY <1>0, <1>2, <2>1, <3>1 DEF Fetch, Loop, KafkaTyped, LoopTyped, TypeInv, TypeOK, kafka
    <3> QED BY <1>2, <2>3, <3>2, TypeParts, PartsStay DEF Fetch
  <2>4. CASE ~(same /\ loop.exhausted)
    <3>1. loop' = [at |-> "work", pos |-> offset, cursor |-> offset,
                   failed |-> IF same THEN loop.failed ELSE 0, exhausted |-> FALSE]
      BY <1>2, <2>4 DEF Fetch
    <3>2. KafkaTyped'
      <4>1. loop'.failed \in 0..MaxRetries /\ loop'.failed < MaxRetries
        BY <1>0, <2>4, <3>1 DEF TypeInv, LoopTyped, Loop
      <4> QED BY <1>0, <1>2, <2>1, <3>1, <4>1 DEF Fetch, Loop, KafkaTyped, LoopTyped, TypeInv, TypeOK, kafka
    <3>3. log[offset] \in AllTxns
      BY <2>1 DEF TypeInv, TypeOK
    <3>4. who \in Users
      <4>1. \E u \in Users : log[offset] \in
                {t \in Txns : UserOf[t] = u} \cup {DayTxn[<<u, d>>] : d \in Days}
        <5>1. CASE log[offset] \in Txns
          BY <5>1, TxnsAssumption
        <5>2. CASE log[offset] \in CheckinTxns
          <6>1. PICK x \in Users \X Days : log[offset] = DayTxn[x]
            BY <5>2 DEF CheckinTxns
          <6>2. PICK u \in Users, d \in Days : x = <<u, d>>
            OBVIOUS
          <6> QED BY <6>1, <6>2
        <5> QED BY <3>3, <5>1, <5>2 DEF AllTxns
      <4> QED BY <4>1
    <3>5. task' = [task EXCEPT ![Consumer] = r]
      BY <1>2, <2>4 DEF Fetch
    <3>6. r \in Task /\ r.txn = log[offset]
      <4> HIDE DEF who, offset
      <4>1. "exists" \in {"has", "publish", "exists"} /\ log[offset] \in AllTxns \cup {GrantTxn}
        BY <3>3
      <4> QED BY <3>4, <4>1, StartTyped, ZenonT(60)
    <3>7. Consumer \in Workers
      BY DEF Workers
    <3>8. TasksTyped'
      <4> HIDE DEF who, offset, r
      <4> QED BY <3>3, <3>5, <3>6, <3>7, RecordTyped DEF TasksTyped
    <3> QED BY <1>2, <3>2, <3>8, TypeParts, PartsStay DEF Fetch
  <2> QED BY <2>3, <2>4
<1>3. CASE Processed
  <2>1. TasksTyped'
    BY <1>3, IdleTyped DEF Processed, Workers, TasksTyped
  <2>2. KafkaTyped'
    <3>a. /\ UNCHANGED <<log, committed, dead>> /\ missed' \subseteq 1..Len(log)
          /\ dead \subseteq 1..Len(log) /\ log \in Seq(AllTxns)
      <4>1. loop.pos \in 1..Len(log)
        BY <1>0, <1>3 DEF Processed, TypeInv, LoopTyped
      <4> QED BY <1>3, <4>1 DEF Processed, TypeInv, TypeOK
    <3>0. loop.failed + 1 \in 0..MaxRetries
      BY <1>0, <1>3 DEF Processed, TypeInv, LoopTyped, Loop
    <3>1. CASE task[Consumer].ok
      BY <1>0, <1>3, <3>a, <3>1 DEF Processed, Loop, KafkaTyped, LoopTyped, TypeInv
    <3>2. CASE ~task[Consumer].ok
      <4>1. /\ loop'.at \in {"dlq", "fetch"} /\ loop'.pos = loop.pos /\ loop'.cursor = loop.cursor
            /\ loop'.failed = loop.failed + 1 /\ loop'.exhausted = LastAttempt
            /\ loop' = [at |-> loop'.at, pos |-> loop.pos, cursor |-> loop.cursor,
                        failed |-> loop.failed + 1, exhausted |-> LastAttempt]
        BY <1>0, <1>3, <3>2 DEF Processed, Loop
      <4>2. LastAttempt \in BOOLEAN /\ (LastAttempt \/ loop.failed + 1 < MaxRetries)
        BY <1>0, <3>0 DEF LastAttempt, Loop
      <4>3. loop' \in Loop /\ LoopTyped'
        BY <1>0, <1>3, <3>0, <4>1, <4>2 DEF Loop, LoopTyped, Processed, TypeInv
      <4> QED BY <1>0, <3>a, <4>1, <4>3 DEF KafkaTyped
    <3> QED BY <3>1, <3>2
  <2> QED BY <1>3, <2>1, <2>2, TypeParts, PartsStay DEF Processed
<1>4. CASE SendDead
  <2>1. KafkaTyped'
    <3>1. /\ loop' \in Loop /\ loop'.pos = loop.pos /\ loop'.failed = loop.failed
          /\ loop'.exhausted = loop.exhausted /\ loop'.at # "work"
      BY <1>0, <1>4 DEF SendDead, Loop
    <3>2. loop.pos > 0
      BY <1>4 DEF SendDead, TypeInv, LoopTyped
    <3>3. loop.pos \in 1..Len(log)
      BY <1>0, <3>2
    <3>4. dead' \subseteq 1..Len(log) /\ missed' \subseteq 1..Len(log)
      BY <1>4, <3>3 DEF SendDead, TypeInv, TypeOK
    <3>5. LoopTyped'
      BY <3>1, <3>2 DEF LoopTyped, TypeInv
    <3> QED BY <1>0, <1>4, <3>1, <3>4, <3>5 DEF SendDead, KafkaTyped, TypeInv, TypeOK
  <2> QED BY <1>4, <2>1, TypeParts, PartsStay DEF SendDead
<1>5. CASE Ack
  <2>1. loop.pos \in 0..MaxLog
    BY <1>0
  <2>2. KafkaTyped'
    BY <1>0, <1>1, <1>5, <2>1 DEF Ack, KafkaTyped, LoopTyped, TypeInv, TypeOK
  <2> QED BY <1>5, <2>2, TypeParts, PartsStay DEF Ack
<1>6. CASE Rebalance
  <2>1. KafkaTyped'
    <3>1. /\ loop' \in Loop /\ loop'.pos = committed /\ loop'.failed = loop.failed
          /\ loop'.exhausted = loop.exhausted /\ loop'.at = "fetch"
      BY <1>0, <1>6 DEF Rebalance, Loop
    <3>2. LoopTyped'
      BY <3>1 DEF LoopTyped, TypeInv
    <3> QED BY <1>0, <1>6, <3>1, <3>2 DEF Rebalance, KafkaTyped, TypeInv, TypeOK, kafka
  <2> QED BY <1>6, <2>1, TypeParts, PartsStay DEF Rebalance
<1>7. CASE CrashRestart
  <2>1. KafkaTyped'
    BY <1>0, <1>1, <1>7 DEF CrashRestart, KafkaTyped, LoopTyped, TypeInv, TypeOK, kafka
  <2>2. TasksTyped'
    BY <1>7 DEF CrashRestart, TasksTyped, TaskTyped, Idle, Real
  <2> QED BY <1>7, <2>1, <2>2, TypeParts, PartsStay DEF CrashRestart
<1>8. CASE Midnight
  <2>1. today' \in Days
    BY <1>8, BoundsAssumption DEF Midnight, Days, TypeInv, TypeOK
  <2> QED BY <1>8, <2>1, TypeParts, PartsStay DEF Midnight
<1> QED BY <1>2, <1>3, <1>4, <1>5, <1>6, <1>7, <1>8 DEF LoopStep

(* The types are inductive.                                                *)
LEMMA TypeNext == TypeInv /\ [Next]_vars => TypeInv'
<1>1. ASSUME TypeInv, UNCHANGED vars
      PROVE  TypeInv'
  BY <1>1, TypeParts, PartsStay DEF vars
<1> QED BY <1>1, ClientStepTyped, EarnStepTyped, LoopStepTyped DEF Next

(* They hold at every moment of every run.                                 *)
LEMMA TypeInvariant == Spec => []TypeInv
BY TypeInit, TypeNext, PTL DEF Spec

(* Every variable has its type, under every fault and for any number of    *)
(* handlers; the consumer is never past the topic's end nor behind the     *)
(* offset of its group.                                                    *)
THEOREM EarnTypes == Spec => []TypeOK
<1>1. TypeInv => TypeOK
  BY DEF TypeInv
<1> QED BY <1>1, TypeInvariant, PTL
-----------------------------------------------------------------------------
(* Single credits.  A booking appends the row of a txn id that no user's   *)
(* ledger has, and the opening grant only where wallet and ledger are      *)
(* empty: the version that the commit compares says so.                    *)

Opened  == \A u \in Users : wallet[u].version = NoRow => ledger[u] = <<>>
OnceInv == TypeInv /\ Opened /\ CreditedOnce

(* The rows a committed booking adds.                                      *)
RowOf(t)   == [txn |-> t.txn, amount |-> Amount[Kind[t.txn]], day |-> t.day]
GrantOf(t) == [txn |-> GrantTxn, amount |-> Grant, day |-> t.day]

(* Only a committed booking writes wallets and ledger.                     *)
LEMMA OnlyBookings ==
  ASSUME [Next]_vars
  PROVE  UNCHANGED mysql \/ \E w \in Workers : CommitEarn(w)
<1>1. ASSUME NEW c \in Clients, ClientStep(c) \/ (\E t \in Txns : Arrive(c, t))
                                \/ (\E u \in Users : ArriveCheckin(c, u))
      PROVE  UNCHANGED mysql
  BY <1>1 DEF ClientStep, Arrive, ArriveCheckin, HasCheckedIn, MarkCheckin, CheckinKey, Publish,
              CallReturns, Answer
<1>2. ASSUME NEW w \in Workers, EarnStep(w)
      PROVE  UNCHANGED mysql \/ CommitEarn(w)
  BY <1>2 DEF EarnStep, CheckExists, TakeQuota, OverLimit, ReadWallet, SkipBooked, EarnConflict,
              EarnFails, RollbackQuota
<1>3. ASSUME LoopStep \/ Rebalance \/ CrashRestart \/ Midnight
      PROVE  UNCHANGED mysql
  BY <1>3 DEF LoopStep, Fetch, Processed, SendDead, Ack, Rebalance, CrashRestart, Midnight
<1> QED BY <1>1, <1>2, <1>3 DEF Next, vars

(* Two rows in a ledger.                                                   *)
LEMMA AppendTwo ==
  ASSUME NEW a \in Row, NEW b \in Row
  PROVE  Append(<<a>>, b) = <<a, b>>
<1>1. <<a, b>> \in Seq(Row) /\ Len(<<a, b>>) = 2 /\ <<a, b>>[1] = a /\ <<a, b>>[2] = b
  OBVIOUS
<1>2. <<a>> \in Seq(Row)
  OBVIOUS
<1>3. /\ Append(<<a>>, b) \in Seq(Row) /\ Len(Append(<<a>>, b)) = 2
      /\ Append(<<a>>, b)[1] = a /\ Append(<<a>>, b)[2] = b
  BY <1>2
<1>4. \A i \in 1..2 : i = 1 \/ i = 2
  OBVIOUS
<1> QED BY <1>1, <1>3, <1>4, SeqEqual

(* What a committed booking does: a wallet still unopened has no rows yet. *)
LEMMA Books ==
  ASSUME TypeInv, Opened, NEW w \in Workers, CommitEarn(w)
  PROVE  LET t == task[w] u == task[w].user IN
         /\ t \in Task /\ u \in Users /\ t.txn \in AllTxns /\ Kind[t.txn] \in Kinds
         /\ ~Credited(t.txn)
         /\ RowOf(t) \in Row /\ GrantOf(t) \in Row
         /\ \A v \in Users : v # u => ledger'[v] = ledger[v] /\ wallet'[v] = wallet[v]
         /\ \/ /\ wallet[u].version = NoRow /\ ledger[u] = <<>>
               /\ ledger'[u] = <<GrantOf(t), RowOf(t)>>
               /\ wallet'[u].balance = Grant + Amount[Kind[t.txn]]
            \/ /\ wallet[u].version # NoRow
               /\ ledger'[u] = Append(ledger[u], RowOf(t))
               /\ wallet'[u].balance = wallet[u].balance + Amount[Kind[t.txn]]
         /\ wallet'[u].version # NoRow
<1> DEFINE t == task[w]
           u == task[w].user
<1>1. t \in Task /\ u \in Users /\ t.txn \in AllTxns /\ Kind[t.txn] \in Kinds
  BY BusyRecord DEF CommitEarn, At, Real, Task
<1>2. ~Credited(t.txn)
  BY DEF CommitEarn, Duplicate
<1>3. RowOf(t) \in Row /\ GrantOf(t) \in Row
  BY <1>1, RulesAssumption DEF RowOf, GrantOf, Row, Task
<1>4. /\ wallet \in [Users -> Wallet] /\ ledger \in [Users -> Seq(Row)]
      /\ wallet[u] \in Wallet /\ ledger[u] \in Seq(Row) /\ t.seen \in Wallet
  BY <1>1 DEF TypeInv, TypeOK, Task
<1>5. t.seen.version = wallet[u].version
  BY DEF CommitEarn, VersionMatches
<1>6. /\ wallet' = [wallet EXCEPT ![u] =
             [version |-> (IF Opening(t.seen) THEN 0 ELSE t.seen.version) + 1,
              balance |-> Balance(wallet[u]) + Amount[Kind[t.txn]]]]
      /\ ledger' = [ledger EXCEPT ![u] =
             Append(IF Opening(t.seen) THEN Append(ledger[u], GrantOf(t)) ELSE ledger[u], RowOf(t))]
  BY <1>1, <1>4 DEF CommitEarn, EarnWrites, RowOf, GrantOf
<1>7. \A v \in Users : v # u => ledger'[v] = ledger[v] /\ wallet'[v] = wallet[v]
  BY <1>4, <1>6
<1>8. /\ wallet'[u].version = (IF Opening(t.seen) THEN 0 ELSE t.seen.version) + 1
      /\ wallet'[u].balance = Balance(wallet[u]) + Amount[Kind[t.txn]]
      /\ ledger'[u] =
           Append(IF Opening(t.seen) THEN Append(ledger[u], GrantOf(t)) ELSE ledger[u], RowOf(t))
  BY <1>1, <1>4, <1>6
<1>9. wallet'[u].version # NoRow
  BY <1>4, <1>8 DEF Wallet, NoRow, Opening
<1>10. CASE wallet[u].version = NoRow
  <2>1. ledger[u] = <<>>
    BY <1>1, <1>10 DEF Opened
  <2>2. Opening(t.seen) /\ Balance(wallet[u]) = Grant
    BY <1>5, <1>10 DEF Opening, Balance
  <2>3. ledger'[u] = <<GrantOf(t), RowOf(t)>>
    <3>1. \A a, b \in Row : Append(Append(<<>>, a), b) = <<a, b>>
      <4>1. \A a \in Row : Append(<<>>, a) = <<a>>
        OBVIOUS
      <4> QED BY <4>1, AppendTwo
    <3>2. ledger'[u] = Append(Append(<<>>, GrantOf(t)), RowOf(t))
      BY <1>8, <2>1, <2>2
    <3> QED BY <1>3, <3>1, <3>2
  <2> QED BY <1>1, <1>2, <1>3, <1>7, <1>8, <1>9, <1>10, <2>1, <2>2, <2>3
<1>11. CASE wallet[u].version # NoRow
  <2>1. ~Opening(t.seen) /\ Balance(wallet[u]) = wallet[u].balance
    BY <1>5, <1>11 DEF Opening, Balance
  <2> QED BY <1>1, <1>2, <1>3, <1>7, <1>8, <1>9, <1>11, <2>1
<1> QED BY <1>10, <1>11

(* No opened wallet is ever closed again, and rows come with an opening.   *)
LEMMA OpenedNext == TypeInv /\ Opened /\ [Next]_vars => Opened'
<1> SUFFICES ASSUME TypeInv, Opened, [Next]_vars, NEW v \in Users, wallet'[v].version = NoRow
             PROVE  ledger'[v] = <<>>
  BY DEF Opened
<1>1. CASE UNCHANGED mysql
  BY <1>1 DEF mysql, Opened
<1>2. ASSUME NEW w \in Workers, CommitEarn(w)
      PROVE  ledger'[v] = <<>>
  BY <1>2, Books DEF Opened
<1> QED BY <1>1, <1>2, OnlyBookings

(* The ledger's unique key keeps every business id from a second row.      *)
LEMMA OnceNext == OnceInv /\ [Next]_vars => OnceInv'
<1> SUFFICES ASSUME OnceInv, [Next]_vars PROVE OnceInv'
  OBVIOUS
<1>1. TypeInv' /\ Opened' /\ TypeInv /\ Opened
  BY TypeNext, OpenedNext DEF OnceInv
<1>2. CASE UNCHANGED mysql
  BY <1>1, <1>2 DEF OnceInv, CreditedOnce, mysql
<1>3. ASSUME NEW w \in Workers, CommitEarn(w)
      PROVE  CreditedOnce'
  <2> DEFINE t == task[w]
             u == task[w].user
  <2>0. /\ u \in Users /\ t.txn \in AllTxns /\ ~Credited(t.txn)
        /\ \A v \in Users : v # u => ledger'[v] = ledger[v]
        /\ \/ ledger'[u] = <<GrantOf(t), RowOf(t)>>
           \/ ledger'[u] = Append(ledger[u], RowOf(t))
    BY <1>1, <1>3, Books
  <2>1. RowOf(t).txn = t.txn /\ GrantOf(t).txn = GrantTxn /\ t.txn # GrantTxn
    BY <2>0, TxnsAssumption DEF RowOf, GrantOf
  <2>2. ledger[u] \in Seq(Row)
    BY <1>1, <2>0 DEF TypeInv, TypeOK
  <2>3. \A i \in 1..Len(ledger[u]) : ledger[u][i].txn # t.txn
    BY <2>0, <2>1 DEF Credited, Rows
  <2>4. ASSUME NEW i \in 1..Len(ledger'[u]), NEW j \in 1..Len(ledger'[u]),
               ledger'[u][i].txn = ledger'[u][j].txn
        PROVE  i = j
    <3>1. CASE ledger'[u] = <<GrantOf(t), RowOf(t)>>
      BY <2>1, <2>4, <3>1
    <3>2. CASE ledger'[u] = Append(ledger[u], RowOf(t))
      <4>1. /\ Len(ledger'[u]) = Len(ledger[u]) + 1 /\ Len(ledger[u]) \in Nat
            /\ \A k \in 1..Len(ledger[u]) : ledger'[u][k] = ledger[u][k]
            /\ ledger'[u][Len(ledger[u]) + 1] = RowOf(t)
        <5> HIDE DEF t
        <5> QED BY <2>2, <3>2
      <4>2. \A k \in 1..Len(ledger'[u]) : k \in 1..Len(ledger[u]) \/ k = Len(ledger[u]) + 1
        BY <4>1
      <4>3. \A k, m \in 1..Len(ledger[u]) : ledger[u][k].txn = ledger[u][m].txn => k = m
        BY <2>0 DEF OnceInv, CreditedOnce
      <4>4. \A k \in 1..Len(ledger[u]) : ledger'[u][k].txn # RowOf(t).txn
        BY <2>1, <2>3, <4>1
      <4>5. CASE i \in 1..Len(ledger[u]) /\ j \in 1..Len(ledger[u])
        BY <2>4, <4>1, <4>3, <4>5
      <4> QED BY <2>4, <4>1, <4>2, <4>4, <4>5
    <3> QED BY <2>0, <3>1, <3>2
  <2> QED BY <2>0, <2>4 DEF CreditedOnce, OnceInv
<1> QED BY <1>1, <1>2, <1>3, OnlyBookings DEF OnceInv

(* A txn id is booked once and an opening grant once, whichever of         *)
(* publisher and consumer books it, and whatever is delivered twice.       *)
THEOREM CreditedOnceHolds == Spec => []CreditedOnce
<1>1. Init => OnceInv
  BY TypeInit DEF OnceInv, Init, Opened, CreditedOnce
<1>2. OnceInv => CreditedOnce
  BY DEF OnceInv
<1> QED BY <1>1, <1>2, OnceNext, PTL DEF Spec
-----------------------------------------------------------------------------
(* The daily limit.  The counter in Redis covers what is credited and what *)
(* is being booked: it is raised before the booking and lowered only for a *)
(* booking that came to nothing.                                           *)

Holds(t, u, k, d) == /\ t.step \in {"read", "commit", "rollback"}
                     /\ t.user = u /\ Kind[t.txn] = k /\ t.day = d
Holding(u, k, d)  == {w \in Workers : Holds(task[w], u, k, d)}
QuotaCovers ==
  \A u \in Users, k \in Kinds, d \in Days :
    /\ Cardinality(Credits(u, k, d)) + Cardinality(Holding(u, k, d)) <= counter[<<u, k, d>>]
    /\ counter[<<u, k, d>>] <= Limit[k]
LimitInv == TypeInv /\ Opened /\ QuotaCovers

(* A quota is given back on the day it was taken.  RollbackDailyLimit      *)
(* lowers the counter of the current day, so a booking that begins before  *)
(* midnight and fails after it makes room for one credit too many.         *)
SameDay == \A w \in Workers : task[w].step = "rollback" => task[w].day = today

(* The bookings and the quotas taken on a day can be counted.              *)
LEMMA QuotaFinite ==
  ASSUME TypeInv, NEW u \in Users, NEW k, NEW d
  PROVE  /\ IsFiniteSet(Credits(u, k, d)) /\ Cardinality(Credits(u, k, d)) \in Nat
         /\ IsFiniteSet(Holding(u, k, d)) /\ Cardinality(Holding(u, k, d)) \in Nat
<1>1. IsFiniteSet(Workers)
  BY ConsumerAssumption, FS_AddElement DEF Workers
<1>2. Len(ledger[u]) \in Nat
  BY DEF TypeInv, TypeOK
<1>3. IsFiniteSet(1..Len(ledger[u]))
  BY <1>2, FS_Interval
<1>4. Credits(u, k, d) \in SUBSET (1..Len(ledger[u])) /\ Holding(u, k, d) \in SUBSET Workers
  BY DEF Credits, Rows, Holding
<1>5. IsFiniteSet(Credits(u, k, d)) /\ IsFiniteSet(Holding(u, k, d))
  BY <1>1, <1>3, <1>4, FS_Subset
<1> QED BY <1>5, FS_CardinalityType

(* A smaller set of bookings under way, or one with one element more.      *)
LEMMA FewerCounted ==
  ASSUME NEW A, IsFiniteSet(A), NEW B, \A x \in B : x \in A
  PROVE  Cardinality(B) \in Nat /\ Cardinality(A) \in Nat /\ Cardinality(B) <= Cardinality(A)
<1>1. B \in SUBSET A
  OBVIOUS
<1> QED BY <1>1, FS_Subset, FS_CardinalityType

(* A set that gains at most one element.                                   *)
LEMMA OneMoreCounted ==
  ASSUME NEW A, IsFiniteSet(A), NEW a, NEW B, \A x \in B : x \in A \/ x = a
  PROVE  Cardinality(B) \in Nat /\ Cardinality(A) \in Nat /\ Cardinality(B) <= Cardinality(A) + 1
<1>1. IsFiniteSet(A \cup {a}) /\ Cardinality(A \cup {a}) <= Cardinality(A) + 1 /\ Cardinality(A) \in Nat
  BY FS_AddElement, FS_CardinalityType
<1>2. Cardinality(B) \in Nat /\ Cardinality(B) <= Cardinality(A \cup {a}) /\ Cardinality(A \cup {a}) \in Nat
  BY <1>1, FewerCounted
<1> QED BY <1>1, <1>2

(* A set that loses an element.                                            *)
LEMMA OneLessCounted ==
  ASSUME NEW A, IsFiniteSet(A), NEW a \in A, NEW B, \A x \in B : x \in A /\ x # a
  PROVE  Cardinality(B) \in Nat /\ Cardinality(A) \in Nat /\ Cardinality(B) + 1 <= Cardinality(A)
<1>1. IsFiniteSet(A \ {a}) /\ Cardinality(A \ {a}) = Cardinality(A) - 1 /\ Cardinality(A) \in Nat
  BY FS_RemoveElement, FS_CardinalityType
<1>2. Cardinality(B) \in Nat /\ Cardinality(B) <= Cardinality(A \ {a}) /\ Cardinality(A \ {a}) \in Nat
  BY <1>1, FewerCounted
<1> QED BY <1>1, <1>2

(* What a worker does to the quota it holds.                               *)
Keeps == UNCHANGED <<mysql, counter>> /\ \A v \in Workers, u \in Users, k \in Kinds, d \in Days :
                                            Holds(task'[v], u, k, d) => Holds(task[v], u, k, d)

(* A task that moves on takes no quota.                                    *)
LEMMA LetsGo ==
  ASSUME TypeInv, NEW w \in Workers,
         \/ Return(w)
         \/ \E s \in {"mark", "key", "publish", "exists", "limit", "done", "answer"} : Advance(w, s)
         \/ Finish(w, TRUE) \/ Finish(w, FALSE) \/ Finish(w, task[w].ok),
         task[w].step # "idle"
  PROVE  /\ \A v \in Workers : v # w => task'[v] = task[v]
         /\ task'[w].step \notin {"read", "commit", "rollback"}
         /\ \A v \in Workers, u \in Users, k \in Kinds, d \in Days :
              Holds(task'[v], u, k, d) => Holds(task[v], u, k, d)
<1>0. task \in [Workers -> Task \cup {Idle}] /\ task[w] \in Task
  BY BusyRecord DEF TypeInv, TypeOK
<1>1. /\ \A v \in Workers : v # w => task'[v] = task[v]
      /\ task'[w].step \notin {"read", "commit", "rollback"}
  BY <1>0 DEF Return, Advance, Finish, Idle, Task
<1> QED BY <1>1 DEF Holds

(* A booking that breaks off holds no more than it did.                    *)
LEMMA MovesOn ==
  ASSUME TypeInv, NEW w \in Workers, task[w].step \in {"read", "commit"},
         GiveBack(w, TRUE) \/ GiveBack(w, FALSE)
  PROVE  \A v \in Workers, u \in Users, k \in Kinds, d \in Days :
            Holds(task'[v], u, k, d) => Holds(task[v], u, k, d)
<1>0. task \in [Workers -> Task \cup {Idle}] /\ task[w] \in Task
  BY BusyRecord DEF TypeInv, TypeOK
<1>1. /\ \A v \in Workers : v # w => task'[v] = task[v]
      /\ task'[w].user = task[w].user /\ task'[w].txn = task[w].txn /\ task'[w].day = task[w].day
  BY <1>0 DEF GiveBack, Task
<1> QED BY <1>1 DEF Holds

(* Only taking a quota, booking and rolling back move the quotas.          *)
LEMMA QuotaSteps ==
  ASSUME TypeInv, [Next]_vars
  PROVE  Keeps \/ \E w \in Workers : TakeQuota(w) \/ CommitEarn(w) \/ RollbackQuota(w)
<1>0. task \in [Workers -> Task \cup {Idle}] /\ Clients \subseteq Workers /\ Consumer \in Workers
  BY DEF TypeInv, TypeOK, Workers
<1>1. ASSUME NEW c \in Clients, (\E t \in Txns : Arrive(c, t)) \/ (\E u \in Users : ArriveCheckin(c, u))
      PROVE  Keeps
  BY <1>0, <1>1 DEF Arrive, ArriveCheckin, Start, Keeps, Holds, mysql, redis
<1>2. ASSUME NEW c \in Clients, CheckinKey(c)
      PROVE  Keeps
  <2>1. \A v \in Workers : v # c => task'[v] = task[v]
    BY <1>0, <1>2 DEF CheckinKey
  <2>2. task'[c].step = "publish"
    BY <1>0, <1>2, BusyRecord DEF CheckinKey, At, Task
  <2> QED BY <1>2, <2>1, <2>2 DEF CheckinKey, Keeps, Holds, mysql, redis
<1>3. ASSUME NEW c \in Clients, ClientStep(c), ~CheckinKey(c)
      PROVE  Keeps
  <2>1. UNCHANGED <<mysql, counter>> /\ task[c].step # "idle"
    BY <1>3 DEF ClientStep, HasCheckedIn, MarkCheckin, Publish, CallReturns, Answer, At, redis
  <2>2. \/ Return(c) \/ Finish(c, TRUE)
        \/ \E s \in {"mark", "key", "publish", "exists", "limit", "done", "answer"} : Advance(c, s)
    BY <1>3 DEF ClientStep, HasCheckedIn, MarkCheckin, Publish, CallReturns, Answer
  <2> QED BY <1>0, <2>1, <2>2, LetsGo DEF Keeps
<1>4. ASSUME NEW w \in Workers, EarnStep(w), ~TakeQuota(w), ~CommitEarn(w), ~RollbackQuota(w)
      PROVE  Keeps
  <2>1. CASE CheckExists(w) \/ OverLimit(w)
    <3>1. task[w].step # "idle" /\ UNCHANGED <<mysql, counter>>
      BY <2>1 DEF CheckExists, OverLimit, At, redis
    <3>2. Finish(w, TRUE) \/ Finish(w, FALSE)
          \/ \E s \in {"mark", "key", "publish", "exists", "limit", "done", "answer"} : Advance(w, s)
      BY <2>1 DEF CheckExists, OverLimit
    <3> QED BY <3>1, <3>2, LetsGo DEF Keeps
  <2>2. CASE ReadWallet(w)
    <3>1. task[w] \in Task
      BY <2>2, BusyRecord DEF ReadWallet, At
    <3>2. /\ \A v \in Workers : v # w => task'[v] = task[v]
          /\ task[w].step = "read" /\ task'[w].user = task[w].user
          /\ task'[w].txn = task[w].txn /\ task'[w].day = task[w].day
      BY <1>0, <2>2, <3>1 DEF ReadWallet, At, Task
    <3> QED BY <2>2, <3>2 DEF ReadWallet, Keeps, Holds, redis
  <2>3. CASE SkipBooked(w) \/ EarnConflict(w) \/ EarnFails(w)
    <3>1. task[w].step \in {"read", "commit"} /\ UNCHANGED <<mysql, counter>>
      BY <2>3 DEF SkipBooked, EarnConflict, EarnFails, At, redis
    <3> QED BY <2>3, <3>1, MovesOn DEF SkipBooked, EarnConflict, EarnFails, Keeps
  <2> QED BY <1>4, <2>1, <2>2, <2>3 DEF EarnStep
<1>5. ASSUME Fetch
      PROVE  Keeps
  BY <1>0, <1>5 DEF Fetch, Start, Keeps, Holds, redis
<1>6. ASSUME Processed
      PROVE  Keeps
  <2>1. task[Consumer].step # "idle" /\ Return(Consumer) /\ UNCHANGED <<mysql, counter>>
    BY <1>6 DEF Processed, At, redis
  <2> QED BY <1>0, <2>1, LetsGo DEF Keeps
<1>7. ASSUME CrashRestart
      PROVE  Keeps
  BY <1>7 DEF CrashRestart, Keeps, Holds, Idle, redis
<1>8. ASSUME SendDead \/ Ack \/ Rebalance \/ Midnight \/ UNCHANGED vars
      PROVE  Keeps
  BY <1>8 DEF SendDead, Ack, Rebalance, Midnight, vars, Keeps, redis
<1> QED BY <1>1, <1>2, <1>3, <1>4, <1>5, <1>6, <1>7, <1>8 DEF Next, LoopStep

(* A credit has one key, so a booking counts for one limit.                *)
LEMMA CreditsSame ==
  ASSUME NEW u \in Users, ledger'[u] = ledger[u], NEW k, NEW d
  PROVE  Credits(u, k, d)' = Credits(u, k, d)
BY DEF Credits, Rows

(* The counter in Redis covers the bookings and the quotas held.           *)
LEMMA QuotaNext ==
  ASSUME ~CommitLost, LimitInv, SameDay, [Next]_vars
  PROVE  LimitInv'
<1>0. TypeInv /\ Opened /\ QuotaCovers /\ TypeInv' /\ Opened'
  BY TypeNext, OpenedNext DEF LimitInv
<1> SUFFICES ASSUME NEW u \in Users, NEW k \in Kinds, NEW d \in Days
             PROVE  /\ Cardinality(Credits(u, k, d)') + Cardinality(Holding(u, k, d)')
                          <= counter'[<<u, k, d>>]
                    /\ counter'[<<u, k, d>>] <= Limit[k]
  BY <1>0 DEF LimitInv, QuotaCovers
<1> DEFINE x  == <<u, k, d>>
           C  == Credits(u, k, d)
           H  == Holding(u, k, d)
           C2 == Credits(u, k, d)'
           H2 == Holding(u, k, d)'
<1>1. /\ IsFiniteSet(C) /\ IsFiniteSet(H) /\ Cardinality(C) \in Nat /\ Cardinality(H) \in Nat
      /\ Cardinality(C) + Cardinality(H) <= counter[x] /\ counter[x] <= Limit[k]
      /\ counter[x] \in Int /\ Limit[k] \in Nat /\ x \in Users \X Kinds \X Days
  BY <1>0, QuotaFinite, RulesAssumption DEF QuotaCovers, TypeInv, TypeOK
<1>2. counter \in [Users \X Kinds \X Days -> Int] /\ task \in [Workers -> Task \cup {Idle}]
  BY <1>0 DEF TypeInv, TypeOK
<1>3. CASE Keeps
  <2>1. C2 = C
    BY <1>3, CreditsSame DEF Keeps, mysql
  <2>2. \A v \in H2 : v \in H
    BY <1>3 DEF Keeps, Holding, Holds
  <2> HIDE DEF C, H, C2, H2, x
  <2>3. Cardinality(H2) \in Nat /\ Cardinality(H2) <= Cardinality(H)
    BY <1>1, <2>2, FewerCounted
  <2>4. counter'[x] = counter[x]
    BY <1>3 DEF Keeps
  <2>5. \A a, b, c, n \in Int : a + b <= n /\ c <= b => a + c <= n
    OBVIOUS
  <2> QED BY <1>1, <2>1, <2>3, <2>4, <2>5 DEF C2, H2, x
<1>4. ASSUME NEW w \in Workers, TakeQuota(w)
      PROVE  /\ Cardinality(C2) + Cardinality(H2) <= counter'[x]
             /\ counter'[x] <= Limit[k]
  <2> DEFINE q == QuotaKey(w, today)
  <2>0. task[w] \in Task /\ task[w].step = "limit" /\ q \in Users \X Kinds \X Days /\ UNCHANGED mysql
    BY <1>0, <1>4, BusyRecord, QuotaEntry DEF TakeQuota, At, Real
  <2>1. C2 = C
    BY <2>0, CreditsSame DEF mysql
  <2>2. \A v \in Workers : v # w => task'[v] = task[v]
    BY <1>2, <1>4 DEF TakeQuota, Finish
  <2>3. task'[w].step \notin {"read", "commit", "rollback"} \/
        (task'[w].user = task[w].user /\ task'[w].txn = task[w].txn /\ task'[w].day = today)
    BY <1>2, <1>4, <2>0 DEF TakeQuota, Finish, Task
  <2>4. counter' = [counter EXCEPT ![q] = @ + 1] /\ counter[q] < Limit[q[2]]
    BY <1>4 DEF TakeQuota, UnderLimit, QuotaKey
  <2>5. CASE x = q
    <3>1. \A v \in H2 : v \in H \/ v = w
      BY <2>2 DEF Holding, Holds
    <3> HIDE DEF C, H, C2, H2, q
    <3>2. Cardinality(H2) \in Nat /\ Cardinality(H2) <= Cardinality(H) + 1
      BY <1>1, <3>1, OneMoreCounted
    <3>3. counter'[x] = counter[x] + 1 /\ counter[x] < Limit[k]
      BY <1>1, <1>2, <2>0, <2>4, <2>5
    <3>4. \A a, b, c, n, m \in Int : a + b <= n /\ c <= b + 1 /\ n < m => a + c <= n + 1 /\ n + 1 <= m
      OBVIOUS
    <3> QED BY <1>1, <2>1, <3>2, <3>3, <3>4
  <2>6. CASE x # q
    <3>1. \A v \in H2 : v \in H
      BY <2>2, <2>3, <2>6 DEF Holding, Holds, QuotaKey
    <3> HIDE DEF C, H, C2, H2, q, x
    <3>2. Cardinality(H2) \in Nat /\ Cardinality(H2) <= Cardinality(H)
      BY <1>1, <3>1, FewerCounted
    <3>3. counter'[x] = counter[x]
      BY <1>1, <1>2, <2>0, <2>4, <2>6
    <3>4. \A a, b, c, n \in Int : a + b <= n /\ c <= b => a + c <= n
      OBVIOUS
    <3> QED BY <1>1, <2>1, <3>2, <3>3, <3>4
  <2> QED BY <2>5, <2>6
<1>5. ASSUME NEW w \in Workers, CommitEarn(w)
      PROVE  /\ Cardinality(C2) + Cardinality(H2) <= counter'[x]
             /\ counter'[x] <= Limit[k]
  <2> DEFINE t == task[w]
  <2>0. /\ t \in Task /\ t.step = "commit" /\ t.user \in Users /\ t.txn # GrantTxn /\ counter' = counter
        /\ \A v \in Users : v # t.user => ledger'[v] = ledger[v]
        /\ \/ ledger[t.user] = <<>> /\ ledger'[t.user] = <<GrantOf(t), RowOf(t)>>
           \/ ledger'[t.user] = Append(ledger[t.user], RowOf(t))
    BY <1>0, <1>5, Books, TxnsAssumption DEF CommitEarn, At, redis
  <2>1. task'[w].step = "done" /\ \A v \in Workers : v # w => task'[v] = task[v]
    BY <1>2, <1>5, <2>0, ZenonT(60) DEF CommitEarn, Finish, Task
  <2>2. /\ RowOf(t) \in Row /\ GrantOf(t) \in Row /\ ledger[t.user] \in Seq(Row)
        /\ GrantOf(t).txn = GrantTxn /\ RowOf(t).txn = t.txn /\ RowOf(t).day = t.day
    BY <1>0, <1>5, <2>0, Books DEF TypeInv, TypeOK, RowOf, GrantOf
  <2>3. ASSUME u = t.user
        PROVE  \E n \in Nat : /\ ledger'[u][n] = RowOf(t)
                              /\ \A i \in Rows(u)' :
                                   i = n \/ (i \in Rows(u) /\ ledger'[u][i] = ledger[u][i])
    <3>1. CASE ledger[u] = <<>> /\ ledger'[u] = <<GrantOf(t), RowOf(t)>>
      <4>1. \A i \in 1..Len(<<GrantOf(t), RowOf(t)>>) : i = 1 \/ i = 2
        OBVIOUS
      <4>2. <<GrantOf(t), RowOf(t)>>[1].txn = GrantTxn /\ <<GrantOf(t), RowOf(t)>>[2] = RowOf(t)
        BY <2>2
      <4>3. \A i \in Rows(u)' : i = 2
        BY <3>1, <4>1, <4>2 DEF Rows
      <4> QED BY <3>1, <4>2, <4>3
    <3>2. CASE ledger'[u] = Append(ledger[u], RowOf(t))
      <4> HIDE DEF t
      <4>1. /\ Len(ledger[u]) \in Nat /\ Len(ledger'[u]) = Len(ledger[u]) + 1
            /\ \A i \in 1..Len(ledger[u]) : ledger'[u][i] = ledger[u][i]
            /\ ledger'[u][Len(ledger[u]) + 1] = RowOf(t)
        BY <2>2, <2>3, <3>2
      <4>2. \A i \in 1..Len(ledger'[u]) : i \in 1..Len(ledger[u]) \/ i = Len(ledger[u]) + 1
        BY <4>1
      <4>3. \A i \in Rows(u)' : i = Len(ledger[u]) + 1
                              \/ (i \in Rows(u) /\ ledger'[u][i] = ledger[u][i])
        BY <4>1, <4>2 DEF Rows
      <4> QED BY <4>1, <4>3
    <3> QED BY <2>0, <2>3, <3>1, <3>2
  <2>4. CASE Holds(t, u, k, d)
    <3>1. PICK n \in Nat : \A i \in Rows(u)' : i = n \/ (i \in Rows(u) /\ ledger'[u][i] = ledger[u][i])
      BY <2>3, <2>4 DEF Holds
    <3>2. \A i \in C2 : i \in C \/ i = n
      BY <3>1 DEF Credits
    <3>3. w \in H /\ \A v \in H2 : v \in H /\ v # w
      BY <2>1, <2>4 DEF Holding, Holds
    <3> HIDE DEF C, H, C2, H2, x, t
    <3>4. Cardinality(C2) \in Nat /\ Cardinality(C2) <= Cardinality(C) + 1
      BY <1>1, <3>2, OneMoreCounted
    <3>5. Cardinality(H2) \in Nat /\ Cardinality(H2) + 1 <= Cardinality(H)
      BY <1>1, <3>3, OneLessCounted
    <3>6. \A a, b, c, e, m \in Int : a + b <= m /\ c <= a + 1 /\ e + 1 <= b => c + e <= m
      OBVIOUS
    <3> QED BY <1>1, <2>0, <3>4, <3>5, <3>6
  <2>5. CASE ~Holds(t, u, k, d)
    <3>1. \A i \in C2 : i \in C
      <4>1. CASE u # t.user
        BY <2>0, <4>1, CreditsSame
      <4>2. CASE u = t.user
        <5>1. ~(Kind[t.txn] = k /\ t.day = d)
          BY <2>0, <2>5, <4>2 DEF Holds
        <5> QED BY <2>2, <2>3, <4>2, <5>1 DEF Credits
      <4> QED BY <4>1, <4>2
    <3>2. \A v \in H2 : v \in H
      BY <2>1 DEF Holding, Holds
    <3> HIDE DEF C, H, C2, H2, x, t
    <3>3. Cardinality(C2) \in Nat /\ Cardinality(C2) <= Cardinality(C)
      BY <1>1, <3>1, FewerCounted
    <3>4. Cardinality(H2) \in Nat /\ Cardinality(H2) <= Cardinality(H)
      BY <1>1, <3>2, FewerCounted
    <3>5. \A a, b, c, e, m \in Int : a + b <= m /\ c <= a /\ e <= b => c + e <= m
      OBVIOUS
    <3> QED BY <1>1, <2>0, <3>3, <3>4, <3>5
  <2> QED BY <2>4, <2>5
<1>6. ASSUME NEW w \in Workers, RollbackQuota(w)
      PROVE  /\ Cardinality(C2) + Cardinality(H2) <= counter'[x]
             /\ counter'[x] <= Limit[k]
  <2> DEFINE q == QuotaKey(w, today)
  <2>0. /\ task[w] \in Task /\ task[w].step = "rollback" /\ task[w].day = today
        /\ q \in Users \X Kinds \X Days /\ UNCHANGED mysql
    BY <1>0, <1>6, BusyRecord, QuotaEntry DEF RollbackQuota, At, Real, SameDay
  <2>1. C2 = C
    BY <2>0, CreditsSame DEF mysql
  <2>2. task'[w].step = "done" /\ \A v \in Workers : v # w => task'[v] = task[v]
    BY <1>2, <1>6, <2>0 DEF RollbackQuota, Finish, Task
  <2>3. counter' = counter \/ counter' = [counter EXCEPT ![q] = @ - 1]
    BY <1>6 DEF RollbackQuota, Decremented
  <2>4. CASE x = q
    <3>1. w \in H /\ \A v \in H2 : v \in H /\ v # w
      BY <2>0, <2>2, <2>4 DEF Holding, Holds, QuotaKey
    <3> HIDE DEF C, H, C2, H2, q
    <3>2. Cardinality(H2) \in Nat /\ Cardinality(H2) + 1 <= Cardinality(H)
      BY <1>1, <3>1, OneLessCounted
    <3>3. counter'[x] = counter[x] \/ counter'[x] = counter[x] - 1
      BY <1>1, <1>2, <2>0, <2>3, <2>4
    <3>4. \A a, b, c, n, m \in Int : a + b <= n /\ c + 1 <= b /\ n <= m
            => a + c <= n /\ a + c <= n - 1 /\ n - 1 <= m
      OBVIOUS
    <3> QED BY <1>1, <2>1, <3>2, <3>3, <3>4
  <2>5. CASE x # q
    <3>1. \A v \in H2 : v \in H
      BY <2>2 DEF Holding, Holds
    <3> HIDE DEF C, H, C2, H2, q, x
    <3>2. Cardinality(H2) \in Nat /\ Cardinality(H2) <= Cardinality(H)
      BY <1>1, <3>1, FewerCounted
    <3>3. counter'[x] = counter[x]
      BY <1>1, <1>2, <2>0, <2>3, <2>5
    <3>4. \A a, b, c, n \in Int : a + b <= n /\ c <= b => a + c <= n
      OBVIOUS
    <3> QED BY <1>1, <2>1, <3>2, <3>3, <3>4
  <2> QED BY <2>4, <2>5
<1> QED BY <1>0, <1>3, <1>4, <1>5, <1>6, QuotaSteps

(* A user is never credited more than the limit for one kind on one day's  *)
(* quota, for any number of concurrent bookings, lost replies and lost     *)
(* rollbacks, as long as no COMMIT's reply is lost (its booking would be   *)
(* given back) and no quota is given back after midnight.                  *)
THEOREM WithinLimitHolds == ASSUME ~CommitLost PROVE Spec /\ []SameDay => []WithinLimit
<1>1. Init => LimitInv
  <2> SUFFICES ASSUME Init PROVE LimitInv
    OBVIOUS
  <2>1. TypeInv /\ Opened
    BY TypeInit DEF Init, Opened
  <2>2. ASSUME NEW u \in Users, NEW k \in Kinds, NEW d \in Days
        PROVE  /\ Cardinality(Credits(u, k, d)) + Cardinality(Holding(u, k, d)) <= counter[<<u, k, d>>]
               /\ counter[<<u, k, d>>] <= Limit[k]
    <3>1. Credits(u, k, d) = {}
      BY DEF Init, Credits, Rows
    <3>2. Holding(u, k, d) = {}
      BY DEF Init, Holding, Holds, Idle
    <3>3. counter[<<u, k, d>>] = 0 /\ Limit[k] \in Nat
      BY RulesAssumption DEF Init
    <3> QED BY <3>1, <3>2, <3>3, FS_EmptySet
  <2> QED BY <2>1, <2>2 DEF LimitInv, QuotaCovers
<1>2. LimitInv /\ SameDay /\ [Next]_vars => LimitInv'
  BY QuotaNext
<1>3. LimitInv => WithinLimit
  <2> SUFFICES ASSUME LimitInv, NEW u \in Users, NEW k \in Kinds, NEW d \in Days
               PROVE  Cardinality(Credits(u, k, d)) <= Limit[k]
    BY DEF WithinLimit
  <2>1. Cardinality(Credits(u, k, d)) \in Nat /\ Cardinality(Holding(u, k, d)) \in Nat
    BY QuotaFinite DEF LimitInv
  <2>2. counter[<<u, k, d>>] \in Int /\ Limit[k] \in Nat
    BY RulesAssumption DEF LimitInv, TypeInv, TypeOK
  <2>3. \A a, b, n, m \in Int : a + b <= n /\ n <= m /\ b >= 0 => a <= m
    OBVIOUS
  <2> QED BY <2>1, <2>2, <2>3 DEF LimitInv, QuotaCovers
<1> QED BY <1>1, <1>2, <1>3, PTL DEF Spec
-----------------------------------------------------------------------------
(* Committed offsets.  Which offsets are behind the loop depends on where  *)
(* it is: the message of loop.pos counts once it is up for its commit.     *)

Behind     == IF loop.at \in {"fetch", "ack"} THEN loop.pos ELSE loop.pos - 1
ConsumerFits ==
  /\ loop.at = "work" => task[Consumer].step # "idle" /\ task[Consumer].txn = log[loop.pos]
  /\ task[Consumer].step \in {"rollback", "done"} /\ task[Consumer].ok
       => Credited(task[Consumer].txn)
CoverInv == /\ TypeInv /\ Opened
            /\ \A i \in 1..Behind : AccountedFor(i)
            /\ CommitCovers
            /\ ConsumerFits

(* Nothing handled is undone: rows stay, the topic and its dead letters    *)
(* only grow.                                                              *)
LEMMA CreditedStays ==
  ASSUME TypeInv, Opened, [Next]_vars, NEW t, Credited(t)
  PROVE  Credited(t)'
<1>0. PICK v \in Users : \E i \in Rows(v) : ledger[v][i].txn = t
  BY DEF Credited
<1>1. PICK i \in Rows(v) : ledger[v][i].txn = t
  BY <1>0
<1>2. CASE UNCHANGED mysql
  BY <1>1, <1>2 DEF Credited, Rows, mysql
<1>3. ASSUME NEW w \in Workers, CommitEarn(w)
      PROVE  Credited(t)'
  <2>1. \/ ledger'[v] = ledger[v]
        \/ /\ ledger[v] # <<>> /\ RowOf(task[w]) \in Row
           /\ ledger'[v] = Append(ledger[v], RowOf(task[w]))
    <3>1. ledger[v] # <<>>
      BY <1>1 DEF Rows
    <3> QED BY <1>3, <3>1, Books
  <2>2. ledger[v] \in Seq(Row) /\ i \in 1..Len(ledger[v]) /\ ledger[v][i].txn # GrantTxn
    BY <1>1 DEF Rows, TypeInv, TypeOK
  <2>3. i \in 1..Len(ledger'[v]) /\ ledger'[v][i] = ledger[v][i]
    <3> DEFINE r == RowOf(task[w])
    <3> HIDE DEF r
    <3> QED BY <2>1, <2>2
  <2> QED BY <1>1, <2>2, <2>3 DEF Credited, Rows
<1> QED BY <1>2, <1>3, OnlyBookings

(* The topic, its dead letters and the offsets left behind only grow.      *)
LEMMA TopicGrows ==
  ASSUME TypeInv, [Next]_vars
  PROVE  /\ \A i \in 1..Len(log) : i \in 1..Len(log') /\ log'[i] = log[i]
         /\ dead \subseteq dead' /\ missed \subseteq missed'
         /\ Len(log') >= Len(log) /\ Len(log) \in Nat /\ Len(log') \in Nat
<1>0. log \in Seq(AllTxns) /\ Len(log) \in Nat
  BY DEF TypeInv, TypeOK
<1>1. ASSUME NEW c \in Clients, Publish(c), log' # log
      PROVE  log' = Append(log, task[c].txn) /\ task[c].txn \in AllTxns /\ dead' = dead /\ missed' = missed
  BY <1>1, BusyRecord DEF Publish, At, Real, Workers
<1>2. ASSUME NEW c \in Clients, ClientStep(c) \/ (\E t \in Txns : Arrive(c, t))
                                \/ (\E u \in Users : ArriveCheckin(c, u))
      PROVE  dead' = dead /\ missed' = missed /\ (log' = log \/ (\E t \in AllTxns : log' = Append(log, t)))
  BY <1>1, <1>2 DEF ClientStep, Arrive, ArriveCheckin, HasCheckedIn, MarkCheckin, CheckinKey, Publish,
                    CallReturns, Answer, kafka
<1>3. ASSUME NEW w \in Workers, EarnStep(w)
      PROVE  UNCHANGED <<log, dead, missed>>
  BY <1>3 DEF EarnStep, CheckExists, TakeQuota, OverLimit, ReadWallet, CommitEarn, SkipBooked,
              EarnConflict, EarnFails, RollbackQuota, kafka
<1>4. ASSUME LoopStep \/ Rebalance \/ CrashRestart \/ Midnight \/ UNCHANGED vars
      PROVE  log' = log /\ dead \subseteq dead' /\ missed \subseteq missed'
  BY <1>4 DEF LoopStep, Fetch, Processed, SendDead, Ack, Rebalance, CrashRestart, Midnight, vars, kafka
<1>5. ASSUME NEW t \in AllTxns, log' = Append(log, t)
      PROVE  /\ \A i \in 1..Len(log) : i \in 1..Len(log') /\ log'[i] = log[i]
             /\ Len(log') >= Len(log) /\ Len(log') \in Nat
  BY <1>0, <1>5
<1>6. /\ dead \subseteq dead' /\ missed \subseteq missed'
      /\ log' = log \/ (\E t \in AllTxns : log' = Append(log, t))
  BY <1>2, <1>3, <1>4 DEF Next
<1> QED BY <1>0, <1>5, <1>6

(* A message once handled stays so.                                        *)
LEMMA HandledStays ==
  ASSUME TypeInv, Opened, [Next]_vars, NEW i \in 1..Len(log), AccountedFor(i)
  PROVE  AccountedFor(i)'
BY CreditedStays, TopicGrows DEF AccountedFor

(* The consumer's own record, wherever the step is not the consumer's.     *)
LEMMA ConsumerLeft ==
  ASSUME TypeInv, Opened, ConsumerFits, [Next]_vars, UNCHANGED loop,
         task'[Consumer] = task[Consumer]
  PROVE  ConsumerFits'
<1>1. loop.at = "work" => loop.pos \in 1..Len(log)
  BY DEF TypeInv, TypeOK, LoopTyped, Loop
<1>2. loop.at = "work" => log'[loop.pos] = log[loop.pos]
  BY <1>1, TopicGrows
<1> QED BY <1>2, CreditedStays DEF ConsumerFits

(* A booking by the consumer ends well only for a txn id with its row.     *)
LEMMA ConsumerBooks ==
  ASSUME TypeInv, Opened, ConsumerFits, [Next]_vars, EarnStep(Consumer)
  PROVE  ConsumerFits'
<1> DEFINE t == task[Consumer]
<1>0. task \in [Workers -> Task \cup {Idle}] /\ Consumer \in Workers
  BY DEF TypeInv, TypeOK, Workers
<1>1. t \in Task
  BY <1>0, BusyRecord DEF EarnStep, CheckExists, TakeQuota, OverLimit, ReadWallet, CommitEarn,
                     SkipBooked, EarnConflict, EarnFails, RollbackQuota, At
<1>2. UNCHANGED <<loop, log>>
  BY DEF EarnStep, CheckExists, TakeQuota, OverLimit, ReadWallet, CommitEarn,
         SkipBooked, EarnConflict, EarnFails, RollbackQuota, kafka
<1>3. /\ task'[Consumer].txn = t.txn
      /\ task'[Consumer].step # "idle"
  BY <1>0, <1>1 DEF EarnStep, CheckExists, TakeQuota, OverLimit, ReadWallet, CommitEarn,
         SkipBooked, EarnConflict, EarnFails, RollbackQuota, Finish, GiveBack, Advance, Task
<1>4. ASSUME task'[Consumer].step \in {"rollback", "done"}, task'[Consumer].ok
      PROVE  Credited(t.txn) \/ Credited(t.txn)'
  <2>1. CASE CheckExists(Consumer)
    BY <1>0, <1>1, <1>4, <2>1 DEF CheckExists, Finish, Advance, Task
  <2>2. CASE TakeQuota(Consumer) \/ OverLimit(Consumer) \/ ReadWallet(Consumer)
    BY <1>0, <1>1, <1>4, <2>2 DEF TakeQuota, OverLimit, ReadWallet, Finish, Task
  <2>3. CASE CommitEarn(Consumer)
    <3>1. PICK n \in 1..Len(ledger'[t.user]) : ledger'[t.user][n] = RowOf(t)
      <4>1. /\ RowOf(t) \in Row /\ GrantOf(t) \in Row /\ t.user \in Users /\ ledger[t.user] \in Seq(Row)
            /\ \/ ledger'[t.user] = <<GrantOf(t), RowOf(t)>>
               \/ ledger'[t.user] = Append(ledger[t.user], RowOf(t))
        BY <1>0, <2>3, Books DEF TypeInv, TypeOK
      <4>2. \A q \in Seq(Row), g, r \in Row :
               /\ 2 \in 1..Len(<<g, r>>) /\ <<g, r>>[2] = r
               /\ Len(q) + 1 \in 1..Len(Append(q, r)) /\ Append(q, r)[Len(q) + 1] = r
        OBVIOUS
      <4> DEFINE l == ledger'[t.user]
                 q == ledger[t.user]
                 g == GrantOf(t)
                 r == RowOf(t)
      <4>3. (l = <<g, r>> \/ l = Append(q, r)) /\ q \in Seq(Row) /\ g \in Row /\ r \in Row
        BY <4>1
      <4> HIDE DEF l, q, g, r
      <4>4. \E n \in 1..Len(l) : l[n] = r
        <5>1. CASE l = <<g, r>>
          <6>1. 2 \in 1..Len(l) /\ l[2] = r
            BY <5>1
          <6> QED BY <6>1
        <5>2. CASE l = Append(q, r)
          <6>1. Len(q) + 1 \in 1..Len(l) /\ l[Len(q) + 1] = r
            BY <4>2, <4>3, <5>2
          <6> QED BY <6>1
        <5> QED BY <4>3, <5>1, <5>2
      <4> QED BY <4>4 DEF l, r
    <3>2. t.txn # GrantTxn /\ RowOf(t).txn = t.txn /\ t.user \in Users
      BY <1>0, <2>3, Books, TxnsAssumption DEF RowOf
    <3>3. \E v \in Users : \E m \in 1..Len(ledger'[v]) :
             ledger'[v][m].txn # GrantTxn /\ ledger'[v][m].txn = t.txn
      BY <3>1, <3>2
    <3>4. ASSUME NEW x, \E v \in Users : \E m \in 1..Len(ledger'[v]) :
                          ledger'[v][m].txn # GrantTxn /\ ledger'[v][m].txn = x
          PROVE  Credited(x)'
      BY <3>4 DEF Credited, Rows
    <3>5. \A x : x = t.txn => Credited(x)'
      BY <3>3, <3>4
    <3> QED BY <1>3, <3>5
  <2>4. CASE SkipBooked(Consumer)
    BY <2>4 DEF SkipBooked, Duplicate
  <2>5. CASE EarnConflict(Consumer) \/ EarnFails(Consumer)
    BY <1>0, <1>1, <1>4, <2>5 DEF EarnConflict, EarnFails, GiveBack, Task
  <2>6. CASE RollbackQuota(Consumer)
    BY <1>0, <1>1, <1>4, <2>6 DEF RollbackQuota, Finish, Task, ConsumerFits, At
  <2> QED BY <2>1, <2>2, <2>3, <2>4, <2>5, <2>6 DEF EarnStep
<1> QED BY <1>2, <1>3, <1>4, CreditedStays DEF ConsumerFits

(* Every other worker's step leaves the consumer's record alone.           *)
LEMMA OthersLeave ==
  ASSUME TypeInv, NEW w \in Workers, w # Consumer,
         EarnStep(w) \/ ClientStep(w) \/ (\E t \in Txns : Arrive(w, t))
                     \/ (\E u \in Users : ArriveCheckin(w, u))
  PROVE  task'[Consumer] = task[Consumer] /\ UNCHANGED <<loop, committed>>
<1>0. task \in [Workers -> Task \cup {Idle}] /\ Consumer \in Workers
  BY DEF TypeInv, TypeOK, Workers
<1>1. CASE EarnStep(w)
  BY <1>0, <1>1 DEF EarnStep, CheckExists, TakeQuota, OverLimit, ReadWallet, CommitEarn, SkipBooked,
                    EarnConflict, EarnFails, RollbackQuota, Finish, GiveBack, Advance, kafka
<1>2. CASE ClientStep(w)
  BY <1>0, <1>2 DEF ClientStep, HasCheckedIn, MarkCheckin, CheckinKey, Publish, CallReturns, Answer,
                    Finish, Advance, Return, kafka
<1>3. CASE (\E t \in Txns : Arrive(w, t)) \/ (\E u \in Users : ArriveCheckin(w, u))
  BY <1>0, <1>3 DEF Arrive, ArriveCheckin, kafka
<1> QED BY <1>1, <1>2, <1>3

(* The consumer commits only what it has handled.                          *)
LEMMA CoverNext ==
  ASSUME CoverInv, [Next]_vars
  PROVE  CoverInv'
<1>0. TypeInv /\ Opened /\ TypeInv' /\ Opened' /\ ConsumerFits /\ CommitCovers
  BY TypeNext, OpenedNext DEF CoverInv
<1>1. /\ loop \in Loop /\ loop.pos \in Nat /\ loop.pos <= Len(log) /\ Len(log) \in Nat
      /\ committed \in 0..loop.pos /\ (loop.at # "fetch" => loop.pos > 0)
      /\ task \in [Workers -> Task \cup {Idle}] /\ Consumer \in Workers
  BY <1>0 DEF TypeInv, TypeOK, Loop, LoopTyped, Workers
<1>2. ASSUME NEW i \in 1..loop.pos, AccountedFor(i)
      PROVE  AccountedFor(i)'
  <2>1. i \in 1..Len(log)
    BY <1>1
  <2> QED BY <1>0, <1>2, <2>1, HandledStays
<1>3. \A i \in 1..Behind : i \in 1..loop.pos /\ AccountedFor(i)
  BY <1>1 DEF Behind, CoverInv
<1>4. \A i \in 1..committed : i \in 1..loop.pos /\ AccountedFor(i)
  BY <1>0, <1>1 DEF CommitCovers, AccountedFor
<1>5. ASSUME ConsumerFits', \A i \in 1..Behind' : i \in 1..loop.pos /\ AccountedFor(i)',
             \A i \in 1..committed' : i \in 1..loop.pos /\ AccountedFor(i)'
      PROVE  CoverInv'
  BY <1>0, <1>5 DEF CoverInv, CommitCovers, AccountedFor
<1>6. ASSUME ConsumerFits', UNCHANGED <<loop, committed>>
      PROVE  CoverInv'
  <2>1. Behind' = Behind
    BY <1>6 DEF Behind
  <2> QED BY <1>2, <1>3, <1>4, <1>5, <1>6, <2>1
<1>7. ASSUME NEW w \in Workers, EarnStep(w)
      PROVE  CoverInv'
  <2>1. CASE w = Consumer
    <3>1. UNCHANGED <<loop, committed>>
      BY <1>7 DEF EarnStep, CheckExists, TakeQuota, OverLimit, ReadWallet, CommitEarn,
                  SkipBooked, EarnConflict, EarnFails, RollbackQuota, kafka
    <3> QED BY <1>0, <1>6, <1>7, <2>1, <3>1, ConsumerBooks
  <2>2. CASE w # Consumer
    BY <1>0, <1>6, <1>7, <2>2, OthersLeave, ConsumerLeft
  <2> QED BY <2>1, <2>2
<1>8. ASSUME NEW c \in Clients, ClientStep(c) \/ (\E t \in Txns : Arrive(c, t))
                                \/ (\E u \in Users : ArriveCheckin(c, u))
      PROVE  CoverInv'
  <2>1. c \in Workers /\ c # Consumer
    BY ConsumerAssumption DEF Workers
  <2> QED BY <1>0, <1>6, <1>8, <2>1, OthersLeave, ConsumerLeft
<1>9. CASE Fetch
  <2>1. loop.at = "fetch" /\ loop'.pos = loop.pos + 1 /\ loop'.at \in {"work", "dlq"}
        /\ UNCHANGED <<kafka, mysql>>
    BY <1>9 DEF Fetch
  <2>2. Behind = loop.pos /\ Behind' = loop.pos
    BY <1>1, <2>1 DEF Behind
  <2>3. ConsumerFits'
    <3>1. CASE loop'.at = "dlq"
      <4>1. task' = task
        BY <1>9, <3>1 DEF Fetch
      <4> QED BY <1>0, <3>1, <4>1, CreditedStays DEF ConsumerFits
    <3>2. CASE loop'.at = "work"
      <4>1. PICK who : task' = [task EXCEPT ![Consumer] = Start("exists", who, log[loop.pos + 1], FALSE)]
        BY <1>9, <3>2 DEF Fetch
      <4>2. task'[Consumer].step = "exists" /\ task'[Consumer].txn = log[loop.pos + 1]
        BY <1>1, <4>1 DEF Start
      <4> QED BY <2>1, <4>2 DEF ConsumerFits, kafka
    <3> QED BY <2>1, <3>1, <3>2
  <2>4. committed' = committed
    BY <2>1 DEF kafka
  <2>5. \A i \in 1..loop.pos : AccountedFor(i)'
    BY <1>2, <1>3, <2>2
  <2>6. CommitCovers'
    BY <1>2, <1>4, <2>4 DEF CommitCovers, AccountedFor
  <2>7. \A i \in 1..Behind' : AccountedFor(i)'
    BY <2>2, <2>5
  <2> QED BY <1>0, <2>3, <2>6, <2>7 DEF CoverInv
<1>10. CASE Processed
  <2> DEFINE ok == task[Consumer].ok
  <2>1. /\ loop.at = "work" /\ task[Consumer].step = "done" /\ task'[Consumer].step = "idle"
        /\ UNCHANGED <<committed, mysql>> /\ loop'.pos = loop.pos
        /\ loop'.at = IF ok THEN "ack" ELSE IF LastAttempt THEN "dlq" ELSE "fetch"
        /\ ~ok /\ ~LastAttempt => loop.pos \in missed'
    BY <1>1, <1>10 DEF Processed, At, Return, Idle, Loop
  <2>2. ConsumerFits'
    BY <2>1 DEF ConsumerFits
  <2>3. ok => AccountedFor(loop.pos)
    BY <1>0, <2>1 DEF ConsumerFits, AccountedFor
  <2>4. Behind = loop.pos - 1 /\ Behind' = IF ok \/ ~LastAttempt THEN loop.pos ELSE loop.pos - 1
    BY <2>1 DEF Behind
  <2>5. \A i \in 1..Behind' : i \in 1..loop.pos /\ AccountedFor(i)'
    <3>1. \A i \in 1..(loop.pos - 1) : i \in 1..loop.pos /\ AccountedFor(i)'
      BY <1>2, <1>3, <2>4
    <3>2. loop.pos \in 1..loop.pos
      BY <1>1, <2>1
    <3>3. ok => \A i : i = loop.pos => AccountedFor(i)'
      BY <1>2, <2>3, <3>2
    <3>4. ~ok /\ ~LastAttempt => \A i : i = loop.pos => AccountedFor(i)'
      BY <2>1 DEF AccountedFor
    <3>5. \A i \in 1..loop.pos : i = loop.pos \/ i \in 1..(loop.pos - 1)
      BY <1>1
    <3>6. CASE Behind' = loop.pos - 1
      BY <3>1, <3>6
    <3>7. CASE Behind' = loop.pos /\ (ok \/ ~LastAttempt)
      BY <3>1, <3>2, <3>3, <3>4, <3>5, <3>7
    <3> QED BY <2>4, <3>6, <3>7
  <2>6. \A i \in 1..committed' : i \in 1..loop.pos /\ AccountedFor(i)'
    BY <1>2, <1>4, <2>1
  <2> QED BY <1>5, <2>2, <2>5, <2>6
<1>11. CASE SendDead
  <2>1. /\ loop.at = "dlq" /\ loop'.at \in {"ack", "fetch"} /\ loop'.pos = loop.pos /\ task' = task
        /\ committed' = committed /\ loop.pos \in dead' \cup missed'
    BY <1>1, <1>11 DEF SendDead, Loop
  <2>2. ConsumerFits'
    BY <1>0, <2>1, CreditedStays DEF ConsumerFits
  <2>3. Behind = loop.pos - 1 /\ Behind' = loop.pos
    BY <2>1 DEF Behind
  <2>4. \A i \in 1..loop.pos : i = loop.pos \/ i \in 1..(loop.pos - 1)
    BY <1>1
  <2>5. \A i \in 1..Behind' : i \in 1..loop.pos /\ AccountedFor(i)'
    <3>1. \A i \in 1..(loop.pos - 1) : AccountedFor(i)'
      BY <1>2, <1>3, <2>3
    <3>2. \A i : i = loop.pos => AccountedFor(i)'
      BY <2>1 DEF AccountedFor
    <3> QED BY <2>3, <2>4, <3>1, <3>2
  <2> QED BY <1>2, <1>4, <1>5, <2>1, <2>2, <2>5
<1>12. CASE Ack
  <2>1. /\ loop.at = "ack" /\ loop'.at = "fetch" /\ loop'.pos = loop.pos /\ task' = task
        /\ committed' \in {committed, loop.pos}
    BY <1>12 DEF Ack, Loop0
  <2>2. ConsumerFits'
    BY <1>0, <2>1, CreditedStays DEF ConsumerFits
  <2>3. Behind = loop.pos /\ Behind' = loop.pos
    BY <2>1 DEF Behind
  <2>4. \A i \in 1..loop.pos : AccountedFor(i)'
    BY <1>2, <1>3, <2>3
  <2>5. \A i \in 1..committed' : i \in 1..loop.pos
    BY <1>1, <2>1
  <2> QED BY <1>5, <2>2, <2>3, <2>4, <2>5
<1>13. CASE Rebalance \/ CrashRestart
  <2>1. /\ loop'.at = "fetch" /\ loop'.pos = committed /\ committed' = committed
        /\ task' = task \/ task'[Consumer].step = "idle"
    BY <1>1, <1>13 DEF Rebalance, CrashRestart, Loop0, Loop, Idle, kafka
  <2>2. ConsumerFits'
    BY <1>0, <2>1, CreditedStays DEF ConsumerFits
  <2>3. Behind' = committed
    BY <2>1 DEF Behind
  <2> QED BY <1>2, <1>4, <1>5, <2>1, <2>2, <2>3
<1>14. CASE Midnight \/ UNCHANGED vars
  <2>1. UNCHANGED <<loop, committed>> /\ task' = task
    BY <1>14 DEF Midnight, vars, kafka
  <2> QED BY <1>0, <1>6, <2>1, ConsumerLeft
<1> QED BY <1>7, <1>8, <1>9, <1>10, <1>11, <1>12, <1>13, <1>14 DEF Next, LoopStep

(* No committed offset is that of a message neither booked, dead-lettered  *)
(* nor left behind after a failed attempt short of the last or a failed    *)
(* send to the dead-letter topic, for any number of attempts and through   *)
(* crashes, rebalances, failed commits and failing bookings.               *)
THEOREM CommitCoversHolds == Spec => []CommitCovers
<1>1. Init => CoverInv
  <2> SUFFICES ASSUME Init PROVE CoverInv
    OBVIOUS
  <2>1. TypeInv /\ Opened
    BY TypeInit DEF Init, Opened
  <2>2. committed = 0 /\ Behind = 0 /\ loop.at = "fetch"
    BY DEF Init, Behind, Loop0
  <2>3. task[Consumer].step = "idle"
    BY DEF Init, Idle, Workers
  <2> QED BY <2>1, <2>2, <2>3 DEF CoverInv, CommitCovers, ConsumerFits
<1>2. CoverInv /\ [Next]_vars => CoverInv'
  BY CoverNext
<1>3. CoverInv => CommitCovers
  BY DEF CoverInv
<1> QED BY <1>1, <1>2, <1>3, PTL DEF Spec
-----------------------------------------------------------------------------
(* Reconciliation.  Total folds a user's ledger; the fold of module Folds  *)
(* is a recursive function on the sets of positions, of which these lemmas *)
(* show that it exists and what it yields for a row more.                  *)

Minimal(m, F) == \A y \in F : y \subseteq m => y = m

(* Among finitely many sets one contains no other.                         *)
LEMMA MinimalSet ==
  ASSUME NEW S, IsFiniteSet(S), NEW F \in SUBSET (SUBSET S), F # {}
  PROVE  \E m \in F : Minimal(m, F)
<1>1. FiniteSubsetsOf(S) = SUBSET S
  BY FS_FiniteSubsetsOfFinite
<1>2. IsWellFoundedOn(StrictSubsetOrdering(S), SUBSET S)
  BY <1>1, FS_StrictSubsetOrderingWellFounded
<1>3. PICK m \in F : \A y \in F : ~ (<<y, m>> \in StrictSubsetOrdering(S))
  BY <1>2, WFMin
<1>4. ASSUME NEW y \in F, y \subseteq m, y # m
      PROVE  FALSE
  <2>1. <<y, m>> \in StrictSubsetOrdering(S)
    BY <1>4 DEF StrictSubsetOrdering
  <2> QED BY <1>3, <2>1
<1> QED BY <1>4 DEF Minimal

(* A set of natural numbers has a least one.                               *)
LEMMA LeastNumber ==
  ASSUME NEW S \in SUBSET Nat, S # {}
  PROVE  \E n \in S : \A m \in S : n <= m
<1>1. PICK k \in S : TRUE
  OBVIOUS
<1> DEFINE F == {0..n : n \in {x \in S : x <= k}}
<1>2. k \in Nat /\ IsFiniteSet(0..k)
  BY <1>1, FS_Interval
<1>3. \A z \in F : z \in SUBSET (0..k)
  <2> TAKE z \in F
  <2>1. PICK n \in S : n <= k /\ z = 0..n
    OBVIOUS
  <2>2. ASSUME NEW i \in 0..n
        PROVE  i \in 0..k
    <3>1. n \in Nat /\ i \in Nat /\ i <= n
      OBVIOUS
    <3> QED BY <1>2, <2>1, <3>1
  <2> QED BY <2>1, <2>2
<1>4. 0..k \in F
  BY <1>1, <1>2
<1>5. PICK z \in F : Minimal(z, F)
  <2> HIDE DEF F
  <2>1. F \in SUBSET (SUBSET (0..k)) /\ F # {}
    BY <1>3, <1>4
  <2> QED BY <1>2, <2>1, MinimalSet
<1>6. PICK n \in S : n <= k /\ z = 0..n
  BY <1>5
<1>7. ASSUME NEW m \in S, m < n
      PROVE  FALSE
  <2>1. m \in Nat /\ n \in Nat /\ m <= k
    BY <1>2, <1>6, <1>7
  <2>2. 0..m \in F /\ 0..m \subseteq 0..n
    BY <2>1, <1>7
  <2>3. 0..m = 0..n
    BY <1>5, <1>6, <2>2 DEF Minimal
  <2>4. n \in 0..n /\ n \notin 0..m
    BY <1>7, <2>1
  <2> QED BY <2>3, <2>4
<1>8. \A m \in S : m \in Nat /\ n \in Nat
  OBVIOUS
<1> QED BY <1>7, <1>8

(* Positions of a sequence have a greatest one.                            *)
LEMMA GreatestPosition ==
  ASSUME NEW n \in Nat, NEW s \in SUBSET (1..n), s # {}
  PROVE  Max(s) \in s /\ \A y \in s : y <= Max(s)
<1> DEFINE D == {n - x : x \in s}
<1>1. D \in SUBSET Nat /\ D # {}
  <2>1. ASSUME NEW x \in s
        PROVE  n - x \in Nat
    <3>1. x \in 1..n
      OBVIOUS
    <3> QED BY <3>1
  <2>2. ASSUME NEW d \in D
        PROVE  d \in Nat
    BY <2>1
  <2> QED BY <2>2
<1>2. PICK d \in D : \A e \in D : d <= e
  <2> HIDE DEF D
  <2> QED BY <1>1, LeastNumber
<1>3. PICK x \in s : d = n - x
  BY <1>2
<1>4. \A y \in s : x >= y
  <2> TAKE y \in s
  <2>1. n - y \in D /\ x \in 1..n /\ y \in 1..n
    OBVIOUS
  <2>2. n - x <= n - y
    BY <1>2, <1>3, <2>1
  <2> QED BY <2>1, <2>2
<1>5. Max(s) \in s /\ \A y \in s : Max(s) >= y
  BY <1>3, <1>4 DEF Max
<1>6. \A y \in s : y \in 1..n
  OBVIOUS
<1> QED BY <1>5, <1>6

(* g is the function the fold of l defines on the sets of positions 1..n.  *)
FoldsTo(l, n, g) ==
  g = [s \in SUBSET (1..n) |-> IF s = {} THEN 0 ELSE g[s \ {Max(s)}] + l[Max(s)].amount]
SumOf(l) == (CHOOSE g : FoldsTo(l, Len(l), g))[1..Len(l)]

(* The fold of one position more extends the fold of those before.         *)
LEMMA FoldStep ==
  ASSUME NEW l \in Seq(Row), NEW n \in Nat, NEW g, NEW m, m = n + 1, FoldsTo(l, n, g)
  PROVE  FoldsTo(l, m, [s \in SUBSET (1..m) |->
                        IF m \in s THEN g[s \ {m}] + l[m].amount ELSE g[s]])
<1> DEFINE h == [s \in SUBSET (1..m) |-> IF m \in s THEN g[s \ {m}] + l[m].amount ELSE g[s]]
<1>1. ASSUME NEW s \in SUBSET (1..m)
      PROVE  h[s] = IF s = {} THEN 0 ELSE h[s \ {Max(s)}] + l[Max(s)].amount
  <2>1. CASE s = {}
    <3>1. {} \in SUBSET (1..n) /\ m \notin s
      BY <2>1
    <3> QED BY <2>1, <3>1 DEF FoldsTo
  <2>2. CASE m \in s
    <3>1. Max(s) = m
      <4>1. m \in Nat /\ s # {}
        BY <2>2
      <4>2. Max(s) \in s /\ m <= Max(s)
        BY <2>2, <4>1, GreatestPosition
      <4>3. Max(s) \in 1..m
        BY <4>2
      <4> QED BY <4>1, <4>2, <4>3
    <3>2. s \ {m} \in SUBSET (1..m) /\ m \notin s \ {m}
      OBVIOUS
    <3>3. h[s \ {m}] = g[s \ {m}] /\ h[s] = g[s \ {m}] + l[m].amount
      BY <2>2, <3>2
    <3> HIDE DEF h
    <3> QED BY <2>2, <3>1, <3>3
  <2>3. CASE m \notin s /\ s # {}
    <3>1. s \in SUBSET (1..n)
      BY <2>3
    <3>2. s \ {Max(s)} \in SUBSET (1..n) /\ s \ {Max(s)} \in SUBSET (1..m) /\ m \notin s \ {Max(s)}
      BY <2>3, <3>1
    <3>3. h[s] = g[s] /\ h[s \ {Max(s)}] = g[s \ {Max(s)}]
      BY <2>3, <3>2
    <3>4. g[s] = g[s \ {Max(s)}] + l[Max(s)].amount
      BY <2>3, <3>1 DEF FoldsTo
    <3> HIDE DEF h
    <3> QED BY <2>3, <3>3, <3>4
  <2> QED BY <2>1, <2>2, <2>3
<1>2. h = [s \in SUBSET (1..m) |-> h[s]]
  OBVIOUS
<1> HIDE DEF h
<1>3. [s \in SUBSET (1..m) |-> h[s]]
        = [s \in SUBSET (1..m) |-> IF s = {} THEN 0 ELSE h[s \ {Max(s)}] + l[Max(s)].amount]
  BY <1>1
<1>4. FoldsTo(l, m, h)
  BY <1>2, <1>3 DEF FoldsTo
<1> QED BY <1>4 DEF h

(* So the fold of any number of positions exists.                          *)
LEMMA FoldExists ==
  ASSUME NEW l \in Seq(Row), NEW n \in Nat
  PROVE  \E g : FoldsTo(l, n, g)
<1> DEFINE B == {k \in Nat : ~ \E g : FoldsTo(l, k, g)}
<1>1. CASE B = {}
  BY <1>1
<1>2. CASE B # {}
  <2>1. PICK k \in B : \A e \in B : k <= e
    <3>1. B \in SUBSET Nat
      OBVIOUS
    <3> HIDE DEF B
    <3> QED BY <1>2, <3>1, LeastNumber
  <2>2. CASE k = 0
    <3>1. \A s \in SUBSET (1..0) : s = {}
      OBVIOUS
    <3> DEFINE z == [s \in SUBSET (1..0) |-> 0]
    <3>2. z = [s \in SUBSET (1..0) |-> IF s = {} THEN 0 ELSE z[s \ {Max(s)}] + l[Max(s)].amount]
      BY <3>1
    <3> HIDE DEF z
    <3>3. FoldsTo(l, 0, z)
      BY <3>2 DEF FoldsTo
    <3> QED BY <2>1, <2>2, <3>3
  <2>3. CASE k # 0
    <3>1. k \in Nat /\ k - 1 \in Nat /\ k = (k - 1) + 1 /\ ~ (k <= k - 1)
      BY <2>1, <2>3
    <3>2. PICK g : FoldsTo(l, k - 1, g)
      BY <2>1, <3>1
    <3>3. \E h : FoldsTo(l, k, h)
      BY <3>1, <3>2, FoldStep
    <3> QED BY <2>1, <3>3
  <2> QED BY <2>2, <2>3
<1> QED BY <1>1, <1>2

(* Folds agree on the positions on which their ledgers do.                 *)
LEMMA FoldsAgree ==
  ASSUME NEW l \in Seq(Row), NEW k \in Seq(Row), NEW n \in Nat, NEW m \in Nat, n <= m,
         NEW g, NEW h, FoldsTo(l, n, g), FoldsTo(k, m, h), \A i \in 1..n : l[i] = k[i]
  PROVE  g[1..n] = h[1..n]
<1> DEFINE F == {s \in SUBSET (1..n) : g[s] # h[s]}
<1>1. CASE F = {}
  <2>1. 1..n \in SUBSET (1..n)
    OBVIOUS
  <2> QED BY <1>1, <2>1
<1>2. CASE F # {}
  <2>1. PICK s \in F : Minimal(s, F)
    <3>1. F \in SUBSET (SUBSET (1..n)) /\ IsFiniteSet(1..n)
      BY FS_Interval
    <3> HIDE DEF F
    <3> QED BY <1>2, <3>1, MinimalSet
  <2>2. s \in SUBSET (1..n) /\ s \in SUBSET (1..m) /\ g[s] # h[s]
    BY <2>1
  <2>3. s # {}
    BY <2>2 DEF FoldsTo
  <2>4. Max(s) \in s /\ Max(s) \in 1..n
    BY <2>2, <2>3, GreatestPosition
  <2> DEFINE r == s \ {Max(s)}
  <2>5. r \in SUBSET (1..n) /\ r \subseteq s /\ r # s
    BY <2>2, <2>4
  <2>6. g[r] = h[r]
    BY <2>1, <2>5 DEF Minimal
  <2>7. g[s] = g[r] + l[Max(s)].amount
    BY <2>2, <2>3 DEF FoldsTo
  <2>8. h[s] = h[r] + k[Max(s)].amount
    BY <2>2, <2>3 DEF FoldsTo
  <2> QED BY <2>2, <2>4, <2>6, <2>7, <2>8
<1> QED BY <1>1, <1>2

(* The sum of no rows, and of one row more.                                *)
LEMMA SumEmpty == SumOf(<<>>) = 0
<1>1. <<>> \in Seq(Row) /\ Len(<<>>) = 0
  OBVIOUS
<1> DEFINE g == CHOOSE f : FoldsTo(<<>>, 0, f)
<1>2. FoldsTo(<<>>, 0, g)
  BY <1>1, FoldExists
<1>3. 1..0 = {} /\ {} \in SUBSET (1..0)
  OBVIOUS
<1> HIDE DEF g
<1>4. g[{}] = 0
  BY <1>2, <1>3 DEF FoldsTo
<1> QED BY <1>1, <1>3, <1>4 DEF SumOf, g

(* One row more adds its amount.                                           *)
LEMMA SumAppend ==
  ASSUME NEW l \in Seq(Row), NEW r \in Row
  PROVE  SumOf(Append(l, r)) = SumOf(l) + r.amount
<1> DEFINE n == Len(l)
           k == Append(l, r)
           g == CHOOSE f : FoldsTo(l, n, f)
           h == CHOOSE f : FoldsTo(k, n + 1, f)
<1>1. /\ n \in Nat /\ k \in Seq(Row) /\ Len(k) = n + 1 /\ k[n + 1] = r
      /\ \A i \in 1..n : l[i] = k[i]
  OBVIOUS
<1>2. FoldsTo(l, n, g)
  <2>1. n \in Nat
    BY <1>1
  <2> HIDE DEF n
  <2> QED BY <2>1, FoldExists
<1>3. FoldsTo(k, n + 1, h)
  <2>1. n + 1 \in Nat /\ k \in Seq(Row)
    BY <1>1
  <2> HIDE DEF n, k
  <2> QED BY <2>1, FoldExists
<1>4. SumOf(l) = g[1..n] /\ SumOf(k) = h[1..(n + 1)]
  BY <1>1 DEF SumOf
<1> HIDE DEF n, k, g, h
<1>5. g[1..n] = h[1..n]
  BY <1>1, <1>2, <1>3, FoldsAgree
<1>6. 1..(n + 1) \in SUBSET (1..(n + 1)) /\ 1..(n + 1) # {} /\ n + 1 \in 1..(n + 1)
  <2>1. n + 1 \in 1..(n + 1)
    BY <1>1
  <2> QED BY <2>1
<1>7. Max(1..(n + 1)) = n + 1
  <2> DEFINE p == n + 1
  <2>1. p \in Nat /\ 1..p \in SUBSET (1..p) /\ 1..p # {} /\ p \in 1..p
    BY <1>1, <1>6
  <2>2. Max(1..p) \in 1..p /\ p <= Max(1..p)
    <3> HIDE DEF p
    <3> QED BY <2>1, GreatestPosition
  <2> QED BY <1>1, <2>2
<1>8. (1..(n + 1)) \ {n + 1} = 1..n
  BY <1>1
<1>9. h[1..(n + 1)] = h[(1..(n + 1)) \ {Max(1..(n + 1))}] + k[Max(1..(n + 1))].amount
  BY <1>3, <1>6 DEF FoldsTo
<1>10. h[1..(n + 1)] = h[1..n] + r.amount
  BY <1>1, <1>7, <1>8, <1>9
<1> QED BY <1>4, <1>5, <1>10 DEF k

(* What the model folds is that sum.                                       *)
LEMMA TotalIsSum ==
  ASSUME TypeInv, NEW u \in Users
  PROVE  Total(u) = SumOf(ledger[u])
<1>1. DOMAIN ledger[u] = 1..Len(ledger[u])
  BY DEF TypeInv, TypeOK
<1>2. Total(u) = (CHOOSE g : FoldsTo(ledger[u], Len(ledger[u]), g))[DOMAIN ledger[u]]
  BY <1>1 DEF Total, FoldLeft, MapThenFoldSet, FoldsTo
<1> QED BY <1>1, <1>2 DEF SumOf

BalanceFits == \A u \in Users : wallet[u].balance = SumOf(ledger[u])
BooksInv    == TypeInv /\ Opened /\ BalanceFits

(* A booking moves ledger and wallet by the same amount.                   *)
LEMMA BooksNext == BooksInv /\ [Next]_vars => BooksInv'
<1> SUFFICES ASSUME BooksInv, [Next]_vars PROVE BooksInv'
  OBVIOUS
<1>0. TypeInv /\ Opened /\ BalanceFits /\ TypeInv' /\ Opened'
  BY TypeNext, OpenedNext DEF BooksInv
<1>1. CASE UNCHANGED mysql
  BY <1>0, <1>1 DEF BooksInv, BalanceFits, mysql
<1>2. ASSUME NEW w \in Workers, CommitEarn(w)
      PROVE  BalanceFits'
  <2> DEFINE t == task[w]
             u == task[w].user
             a == Amount[Kind[t.txn]]
  <2>1. /\ u \in Users /\ RowOf(t) \in Row /\ GrantOf(t) \in Row
        /\ RowOf(t).amount = a /\ GrantOf(t).amount = Grant
        /\ \A v \in Users : v # u => ledger'[v] = ledger[v] /\ wallet'[v] = wallet[v]
        /\ \/ ledger'[u] = <<GrantOf(t), RowOf(t)>> /\ wallet'[u].balance = Grant + a
           \/ ledger'[u] = Append(ledger[u], RowOf(t)) /\ wallet'[u].balance = wallet[u].balance + a
    BY <1>0, <1>2, Books DEF RowOf, GrantOf
  <2>2. ledger[u] \in Seq(Row) /\ wallet[u].balance = SumOf(ledger[u])
    BY <1>0, <2>1 DEF TypeInv, TypeOK, BalanceFits
  <2>3. SumOf(<<GrantOf(t), RowOf(t)>>) = Grant + a
    <3>1. <<>> \in Seq(Row) /\ <<GrantOf(t)>> \in Seq(Row)
      BY <2>1
    <3>2. Append(<<>>, GrantOf(t)) = <<GrantOf(t)>>
      BY <2>1
    <3>3. Append(<<GrantOf(t)>>, RowOf(t)) = <<GrantOf(t), RowOf(t)>>
      BY <2>1, AppendTwo
    <3>4. SumOf(<<GrantOf(t)>>) = 0 + Grant
      BY <2>1, <3>1, <3>2, SumEmpty, SumAppend
    <3>5. SumOf(<<GrantOf(t), RowOf(t)>>) = SumOf(<<GrantOf(t)>>) + a
      BY <2>1, <3>1, <3>3, SumAppend
    <3> QED BY <3>4, <3>5, RulesAssumption
  <2>4. SumOf(Append(ledger[u], RowOf(t))) = SumOf(ledger[u]) + a
    BY <2>1, <2>2, SumAppend
  <2>5. wallet'[u].balance = SumOf(ledger'[u])
    BY <2>1, <2>2, <2>3, <2>4
  <2>6. \A v \in Users : wallet'[v].balance = SumOf(ledger'[v])
    BY <1>0, <2>1, <2>5 DEF BalanceFits
  <2> QED BY <2>6 DEF BalanceFits
<1> QED BY <1>0, <1>1, <1>2, OnlyBookings DEF BooksInv

(* What the hourly reconciliation compares is equal at every moment, for   *)
(* any number of handlers, whichever bookings met, broke off or were       *)
(* delivered twice: the balance is the sum of the ledger.                  *)
THEOREM ReconcileCleanHolds == Spec => []ReconcileClean
<1>1. Init => BooksInv
  BY TypeInit, SumEmpty DEF Init, BooksInv, Opened, BalanceFits, NoWallet
<1>2. BooksInv => ReconcileClean
  BY TotalIsSum DEF BooksInv, BalanceFits, ReconcileClean
<1> QED BY <1>1, <1>2, BooksNext, PTL DEF Spec

=============================================================================
