------------------------------ MODULE PointsEarn ------------------------------
(***************************************************************************)
(* Earning points: PointsService.EnqueueEarn publishes an earning to the   *)
(* Kafka topic points.earn (or, when that fails, books it itself),         *)
(* consumeLoopPointsEarn reads the topic, and earnPoints books an earning: *)
(* daily limit in Redis, then wallet and ledger row in one MySQL           *)
(* transaction, with the stable txn_id as the ledger's primary key.        *)
(* Checkin is the one caller with state of its own.                        *)
(*                                                                         *)
(* A worker is a handler goroutine (client) or the consumer goroutine; the *)
(* balance cache it drops after a booking is in PointsMall.                *)
(***************************************************************************)
EXTENDS Integers, Sequences, FiniteSets, SequencesExt

CONSTANTS
  Clients,        \* handler goroutines that call EnqueueEarn or Checkin
  Consumer,       \* the goroutine of consumeLoopPointsEarn
  Users,
  Txns,           \* stable txn ids of the earnings other than check-ins
  UserOf,         \* Txns -> Users
  DayTxn,         \* <<user, day>> -> txn id of that day's check-in
  GrantTxn,       \* the txn id of the opening grant CreateWalletInTx books
  Kind,           \* txn id -> ref type
  Kinds,          \* ref types
  Amount, Limit,  \* PointsRules: points and daily limit of a ref type
  Grant,          \* InitialWalletBalance
  MaxRetries,     \* points_earn_max_retries
  KafkaOn,        \* the topic's writer exists
  KafkaFaults,    \* a publish or an offset commit may fail, a rebalance may happen
  DlqFaults,      \* a publish to the dead-letter topic may fail
  DbFaults,       \* MySQL may fail a statement
  CommitLost,     \* MySQL may lose the reply of a COMMIT
  RedisFaults,    \* Redis may lose a command or its reply
  Crashes,        \* the process may stop and start again
  MaxDay,         \* bound: days
  MaxLog          \* bound: messages in the topic; it is down from then on

Workers  == Clients \cup {Consumer}
Days     == 1..MaxDay
CheckinTxns == {DayTxn[x] : x \in Users \X Days}
AllTxns  == Txns \cup CheckinTxns
NoRow    == -1
NoWallet == [version |-> NoRow, balance |-> 0]

ASSUME ConsumerAssumption == IsFiniteSet(Clients) /\ Consumer \notin Clients
ASSUME BoundsAssumption == MaxDay \in Nat \ {0} /\ MaxLog \in Nat
ASSUME RulesAssumption == Amount \in [Kinds -> Nat] /\ Limit \in [Kinds -> Nat] /\ Grant \in Nat
ASSUME TxnsAssumption == /\ UserOf \in [Txns -> Users] /\ Kind \in [AllTxns -> Kinds]
                         /\ Txns \cap CheckinTxns = {} /\ GrantTxn \notin AllTxns
ASSUME RetriesAssumption == MaxRetries \in Nat \ {0}

VARIABLES
  wallet,    \* user_wallets: version and balance
  ledger,    \* points_transactions per user, in commit order
  counter,   \* Redis points:daily:<user>:<kind>:<day>
  checked,   \* Redis check-in bitmap: the <<user, day>> pairs set
  today,
  log,       \* topic points.earn
  committed, \* committed offset of the consumer group
  dead,      \* offsets sent to points.earn.dlq
  missed,    \* history: offsets the loop left for the next fetch unhandled
  loop,      \* locals of consumeLoopPointsEarn
  task       \* per worker: where it is, and its locals

mysql == <<wallet, ledger>>
redis == <<counter, checked>>
kafka == <<log, committed, dead, missed>>
vars  == <<mysql, redis, kafka, today, loop, task>>

Wallet == [version : Nat \cup {NoRow}, balance : Nat]
Row    == [txn : AllTxns \cup {GrantTxn}, amount : Nat, day : Days]
Task   == [step : {"has", "mark", "key", "publish", "exists", "limit", "read", "commit",
                   "rollback", "done", "answer"},
           user : Users, txn : AllTxns \cup {GrantTxn}, checkin : BOOLEAN, day : Days,
           seen : Wallet, ok : BOOLEAN]
Idle   == [step |-> "idle"]
Loop   == [at : {"fetch", "work", "dlq", "ack"}, pos : 0..MaxLog, cursor : 0..MaxLog,
           failed : 0..MaxRetries, exhausted : BOOLEAN]
FromStart(offset) == [at |-> "fetch", pos |-> 0, cursor |-> 0, failed |-> 0,
                      exhausted |-> FALSE]
FromLatest(offset) == [at |-> "fetch", pos |-> Len(log), cursor |-> 0, failed |-> 0,
                       exhausted |-> FALSE]
Loop0(offset) == [at |-> "fetch", pos |-> offset, cursor |-> 0, failed |-> 0,
                  exhausted |-> FALSE]

(* Every variable has its type; the consumer is never past the topic's end *)
(* nor behind the group's offset.                                          *)
TypeOK ==
  /\ wallet \in [Users -> Wallet]
  /\ ledger \in [Users -> Seq(Row)]
  /\ counter \in [Users \X Kinds \X Days -> Int]
  /\ checked \subseteq Users \X Days
  /\ today \in Days
  /\ log \in Seq(AllTxns) /\ Len(log) <= MaxLog
  /\ committed \in 0..loop.pos /\ loop.pos <= Len(log)
  /\ dead \subseteq 1..Len(log) /\ missed \subseteq 1..Len(log)
  /\ loop \in Loop
  /\ task \in [Workers -> Task \cup {Idle}]

Init ==
  /\ wallet = [u \in Users |-> NoWallet]
  /\ ledger = [u \in Users |-> <<>>]
  /\ counter = [x \in Users \X Kinds \X Days |-> 0]
  /\ checked = {}
  /\ today = 1
  /\ log = <<>> /\ committed = 0 /\ dead = {} /\ missed = {}
  /\ loop = Loop0(0)
  /\ task = [w \in Workers |-> Idle]

-----------------------------------------------------------------------------
(* Shared helpers.                                                         *)

At(w, s)      == task[w].step = s
Advance(w, s) == task' = [task EXCEPT ![w].step = s]
Finish(w, ok) == task' = [task EXCEPT ![w].step = "done", ![w].ok = ok]
GiveBack(w, ok) == task' = [task EXCEPT ![w].step = "rollback", ![w].ok = ok]
Return(w)     == task' = [task EXCEPT ![w] = Idle]

Start(s, u, t, isCheckin) ==
  [step |-> s, user |-> u, txn |-> t, checkin |-> isCheckin, day |-> today,
   seen |-> NoWallet, ok |-> TRUE]

Rows(u)     == {i \in 1..Len(ledger[u]) : ledger[u][i].txn # GrantTxn}
Credited(t) == \E u \in Users : \E i \in Rows(u) : ledger[u][i].txn = t

(* The primary key of points_transactions.                                 *)
NeverDuplicate(t) == FALSE
Duplicate(t)      == Credited(t)

Opening(w) == w.version = NoRow
Balance(w) == IF Opening(w) THEN Grant ELSE w.balance

QuotaKey(w, day)  == <<task[w].user, Kind[task[w].txn], day>>
UnderLimitOrAt(w) == counter[QuotaKey(w, today)] <= Limit[Kind[task[w].txn]]
UnderLimit(w)     == counter[QuotaKey(w, today)] < Limit[Kind[task[w].txn]]

AnyVersion(w)     == TRUE
VersionMatches(w) == wallet[task[w].user].version = task[w].seen.version

-----------------------------------------------------------------------------
(* Callers: a business event, or a check-in.                               *)

Arrive(c, t) ==
  /\ At(c, "idle")
  /\ task' = [task EXCEPT ![c] = Start("publish", UserOf[t], t, FALSE)]
  /\ UNCHANGED <<mysql, redis, kafka, today, loop>>

ArriveCheckin(c, u) ==
  /\ At(c, "idle")
  /\ task' = [task EXCEPT ![c] = Start("has", u, GrantTxn, TRUE)]
  /\ UNCHANGED <<mysql, redis, kafka, today, loop>>

HasCheckedIn(c) ==
  /\ At(c, "has")
  /\ \/ <<task[c].user, today>> \in checked /\ Return(c)
     \/ <<task[c].user, today>> \notin checked /\ Advance(c, "mark")
     \/ RedisFaults /\ Return(c)
  /\ UNCHANGED <<mysql, redis, kafka, today, loop>>

(* MarkCheckin ends with the bit set whoever set it; Checkin does not look *)
(* at its result.  Its error ends the check-in, the bit set or not.        *)
MarkCheckin(c) ==
  /\ At(c, "mark")
  /\ \/ /\ checked' = checked \cup {<<task[c].user, today>>}
        /\ Advance(c, "key")
     \/ /\ RedisFaults
        /\ checked' \in {checked, checked \cup {<<task[c].user, today>>}}
        /\ Return(c)
  /\ UNCHANGED <<mysql, counter, kafka, today, loop>>

(* The day in the txn id is read from the clock again.                     *)
CheckinKey(c) ==
  /\ At(c, "key")
  /\ task' = [task EXCEPT ![c].step = "publish",
                          ![c].txn = DayTxn[<<task[c].user, today>>]]
  /\ UNCHANGED <<mysql, redis, kafka, today, loop>>

(* EnqueueEarn: a failed publish, also one whose message arrived, makes    *)
(* the caller book the earning itself under the same txn id.  At the bound *)
(* MaxLog the topic is down.                                               *)
Publish(c) ==
  /\ At(c, "publish")
  /\ \/ /\ KafkaOn /\ Len(log) < MaxLog
        /\ log' = Append(log, task[c].txn)
        /\ \/ Finish(c, TRUE)
           \/ KafkaFaults /\ Advance(c, "exists")
     \/ /\ ~KafkaOn \/ KafkaFaults \/ Len(log) = MaxLog
        /\ Advance(c, "exists")
        /\ UNCHANGED log
  /\ UNCHANGED <<mysql, redis, committed, dead, missed, today, loop>>

(* Back in the caller: only a check-in that succeeded goes on, and reads   *)
(* the wallet for its answer.                                              *)
CallReturns(c) ==
  /\ c \in Clients /\ At(c, "done")
  /\ IF task[c].checkin /\ task[c].ok THEN Advance(c, "answer") ELSE Return(c)
  /\ UNCHANGED <<mysql, redis, kafka, today, loop>>

Answer(c) ==
  /\ At(c, "answer")
  /\ Return(c)
  /\ UNCHANGED <<mysql, redis, kafka, today, loop>>

-----------------------------------------------------------------------------
(* earnPoints, by a client or by the consumer.                             *)

CheckExists(w) ==
  /\ At(w, "exists")
  /\ \/ Credited(task[w].txn) /\ Finish(w, TRUE)
     \/ ~Credited(task[w].txn) /\ Advance(w, "limit")
     \/ DbFaults /\ Finish(w, FALSE)
  /\ UNCHANGED <<mysql, redis, kafka, today, loop>>

(* One Lua script: INCR, and DECR again over the limit.                    *)
TakeQuota(w) ==
  LET key == QuotaKey(w, today) IN
  /\ At(w, "limit")
  /\ UnderLimit(w)
  /\ counter' = [counter EXCEPT ![key] = @ + 1]
  /\ \/ task' = [task EXCEPT ![w].step = "read", ![w].day = today]
     \/ RedisFaults /\ Finish(w, FALSE)
  /\ UNCHANGED <<mysql, checked, kafka, today, loop>>

OverLimit(w) ==
  /\ At(w, "limit")
  /\ ~UnderLimit(w) \/ RedisFaults
  /\ Finish(w, FALSE)
  /\ UNCHANGED <<mysql, redis, kafka, today, loop>>

ReadWallet(w) ==
  /\ At(w, "read")
  /\ task' = [task EXCEPT ![w].step = "commit", ![w].seen = wallet[task[w].user]]
  /\ UNCHANGED <<mysql, redis, kafka, today, loop>>

EarnWrites(w) ==
  LET t == task[w]
      amount == Amount[Kind[t.txn]]
      grant == [txn |-> GrantTxn, amount |-> Grant, day |-> t.day]
      row   == [txn |-> t.txn, amount |-> amount, day |-> t.day]
  IN
  /\ wallet' = [wallet EXCEPT ![t.user] =
       [version |-> (IF Opening(t.seen) THEN 0 ELSE t.seen.version) + 1,
        balance |-> Balance(@) + amount]]
  /\ ledger' = [ledger EXCEPT ![t.user] =
       Append(IF Opening(t.seen) THEN Append(@, grant) ELSE @, row)]

(* The transaction's row insert meets the key of a row already booked      *)
(* before UpdateBalance compares the version.                              *)
CommitEarn(w) ==
  /\ At(w, "commit")
  /\ ~Duplicate(task[w].txn)
  /\ VersionMatches(w)
  /\ EarnWrites(w)
  /\ \/ Finish(w, TRUE)
     \/ CommitLost /\ GiveBack(w, FALSE)
  /\ UNCHANGED <<redis, kafka, today, loop>>

SkipBooked(w) ==
  /\ At(w, "commit")
  /\ Duplicate(task[w].txn)
  /\ ~Opening(task[w].seen)
  /\ GiveBack(w, TRUE)
  /\ UNCHANGED <<mysql, redis, kafka, today, loop>>

(* A concurrent booking changed the wallet, or opened it (the duplicate    *)
(* key leads to a snapshot read that finds no wallet).                     *)
EarnConflict(w) ==
  /\ At(w, "commit")
  /\ ~VersionMatches(w)
  /\ Duplicate(task[w].txn) => Opening(task[w].seen)
  /\ GiveBack(w, FALSE)
  /\ UNCHANGED <<mysql, redis, kafka, today, loop>>

EarnFails(w) ==
  /\ DbFaults
  /\ task[w].step \in {"read", "commit"}
  /\ GiveBack(w, FALSE)
  /\ UNCHANGED <<mysql, redis, kafka, today, loop>>

(* RollbackDailyLimit: a DECR of the current day's key.                    *)
Decremented(w) == [counter EXCEPT ![QuotaKey(w, today)] = @ - 1]
RollbackQuota(w) ==
  /\ At(w, "rollback")
  /\ \/ counter' = Decremented(w)
     \/ RedisFaults /\ UNCHANGED counter
  /\ Finish(w, task[w].ok)
  /\ UNCHANGED <<mysql, checked, kafka, today, loop>>

-----------------------------------------------------------------------------
(* consumeLoopPointsEarn.                                                  *)

(* FetchMessage moves on to the next message whether or not the last one   *)
(* was committed; the retry counters belong to one offset.                 *)
Fetch ==
  LET offset == loop.pos + 1
      same   == loop.cursor = offset
  IN
  /\ loop.at = "fetch"
  /\ loop.pos < Len(log)
  /\ loop' = [at |-> IF same /\ loop.exhausted THEN "dlq" ELSE "work",
              pos |-> offset, cursor |-> offset,
              failed |-> IF same THEN loop.failed ELSE 0,
              exhausted |-> same /\ loop.exhausted]
  /\ task' = IF same /\ loop.exhausted THEN task
             ELSE [task EXCEPT ![Consumer] =
                     Start("exists", (CHOOSE u \in Users : log[offset] \in
                       {t \in Txns : UserOf[t] = u} \cup {DayTxn[<<u, d>>] : d \in Days}),
                       log[offset], FALSE)]
  /\ UNCHANGED <<mysql, redis, kafka, today>>

LastAttempt  == loop.failed + 1 >= MaxRetries

Processed ==
  /\ loop.at = "work"
  /\ At(Consumer, "done")
  /\ Return(Consumer)
  /\ loop' = IF task[Consumer].ok THEN [loop EXCEPT !.at = "ack"]
             ELSE [loop EXCEPT !.at = IF LastAttempt THEN "dlq" ELSE "fetch",
                               !.failed = @ + 1, !.exhausted = LastAttempt]
  /\ missed' = IF task[Consumer].ok \/ LastAttempt THEN missed ELSE missed \cup {loop.pos}
  /\ UNCHANGED <<mysql, redis, log, committed, dead, today>>

SendDead ==
  /\ loop.at = "dlq"
  /\ \/ /\ dead' = dead \cup {loop.pos}
        /\ loop' = [loop EXCEPT !.at = "ack"]
        /\ UNCHANGED missed
     \/ /\ DlqFaults
        /\ loop' = [loop EXCEPT !.at = "fetch"]
        /\ missed' = missed \cup {loop.pos}
        /\ UNCHANGED dead
  /\ UNCHANGED <<mysql, redis, log, committed, today, task>>

(* Committing an offset commits every offset before it.                    *)
Ack ==
  /\ loop.at = "ack"
  /\ \/ committed' = loop.pos
     \/ KafkaFaults /\ UNCHANGED committed
  /\ loop' = Loop0(loop.pos)
  /\ UNCHANGED <<mysql, redis, log, dead, missed, today, task>>

(* The partition is taken away and given back: reading resumes at the      *)
(* committed offset, the loop's locals stay.                               *)
Rebalance ==
  /\ KafkaFaults
  /\ loop.at = "fetch" /\ loop.pos # committed
  /\ loop' = [loop EXCEPT !.pos = committed]
  /\ UNCHANGED <<mysql, redis, kafka, today, task>>

CrashRestart ==
  /\ Crashes
  /\ \E w \in Workers : ~At(w, "idle")
  /\ task' = [w \in Workers |-> Idle]
  /\ loop' = Loop0(committed)
  /\ UNCHANGED <<mysql, redis, kafka, today>>

Midnight ==
  /\ today < MaxDay
  /\ today' = today + 1
  /\ UNCHANGED <<mysql, redis, kafka, loop, task>>

-----------------------------------------------------------------------------
EarnStep(w) ==
  \/ CheckExists(w) \/ TakeQuota(w) \/ OverLimit(w) \/ ReadWallet(w)
  \/ CommitEarn(w) \/ SkipBooked(w) \/ EarnConflict(w) \/ EarnFails(w)
  \/ RollbackQuota(w)

ClientStep(c) ==
  \/ HasCheckedIn(c) \/ MarkCheckin(c) \/ CheckinKey(c) \/ Publish(c)
  \/ CallReturns(c) \/ Answer(c)

LoopStep == Fetch \/ Processed \/ SendDead \/ Ack

Next ==
  \/ \E c \in Clients : \/ \E t \in Txns : Arrive(c, t)
                        \/ \E u \in Users : ArriveCheckin(c, u)
                        \/ ClientStep(c)
  \/ \E w \in Workers : EarnStep(w)
  \/ LoopStep \/ Rebalance \/ CrashRestart \/ Midnight

Spec == Init /\ [][Next]_vars

(* A started handler and the consumer goroutine run on.                    *)
Fairness == /\ \A w \in Workers : WF_vars(EarnStep(w))
            /\ \A c \in Clients : WF_vars(ClientStep(c))
            /\ WF_vars(LoopStep)
FairSpec == Spec /\ Fairness

-----------------------------------------------------------------------------
(* Properties.                                                             *)

Total(u) == FoldLeft(LAMBDA sum, row : sum + row.amount, 0, ledger[u])

(* What the hourly reconciliation compares is equal at every moment: the   *)
(* wallet's balance is the sum of the user's ledger, whichever bookings of *)
(* handlers and consumer met or broke off.                                 *)
ReconcileClean == \A u \in Users : wallet[u].balance = Total(u)

(* A txn id is booked once and the opening grant once, although a message  *)
(* may be published, consumed and booked by its publisher as well.         *)
CreditedOnce ==
  \A u \in Users : \A i, j \in 1..Len(ledger[u]) :
    ledger[u][i].txn = ledger[u][j].txn => i = j

Credits(u, k, d) ==
  {i \in Rows(u) : Kind[ledger[u][i].txn] = k /\ ledger[u][i].day = d}

(* PointsRules' daily limit: what a user is credited for one kind on one   *)
(* day's quota never exceeds it, with the counter in Redis, the booking in *)
(* MySQL and a rollback of the counter that may be lost between them.      *)
WithinLimit ==
  \A u \in Users, k \in Kinds, d \in Days : Cardinality(Credits(u, k, d)) <= Limit[k]

(* consumeLoopPointsEarn: an offset below the committed one was booked,    *)
(* sent to the dead-letter topic, or left for the next FetchMessage after  *)
(* a failed attempt short of the last or a failed dead-letter publish.     *)
(* Those the loop means to retry, but FetchMessage returns the next        *)
(* message, whose commit skips them; nothing else is ever skipped, by no   *)
(* crash, rebalance or lost commit.                                        *)
AccountedFor(i) == Credited(log[i]) \/ i \in dead \/ i \in missed
CommitCovers    == \A i \in 1..committed : AccountedFor(i)

(* A published earning is booked or dead-lettered in the end, or an        *)
(* attempt at it has failed, unless crashes or rebalances never stop.      *)
Outage == CrashRestart \/ Rebalance
EventuallyHandled ==
  \A i \in 1..MaxLog :
    \/ []<><<Outage>>_vars
    \/ (Len(log) >= i) ~> (Len(log) >= i /\ AccountedFor(i))

=============================================================================
