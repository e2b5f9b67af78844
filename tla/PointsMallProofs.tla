--------------------------- MODULE PointsMallProofs ---------------------------
(***************************************************************************)
(* Proofs about PointsMall for every number of clients, users, products    *)
(* and codes, with every fault the model has: its types and its ledger;    *)
(* then its sales: codes, orders, ledger and idempotency keys agree, the   *)
(* redeem lock serialises, an error means no sale, Redis strands no code,  *)
(* and the component implements MallSales.                                 *)
(***************************************************************************)
EXTENDS PointsMall, FiniteSetTheorems, TLAPS

-----------------------------------------------------------------------------
(* Type correctness.  The strengthening: the steps inside the transaction  *)
(* have their code, and every step that holds a unit of stock or follows   *)
(* the commit has its order id.                                            *)

LocalsOf(r) == /\ r.step \in InTx => r.code \in Codes
               /\ r.step \in Taken \cup Saved => r.order \in OrderIds
LocalsOK == \A c \in Clients : LocalsOf(task[c])
TypeInv  == TypeOK /\ LocalsOK
TaskInv  == task \in [Clients -> Task \cup {Idle}] /\ LocalsOK

ActiveStep == {"idem", "lock"} \cup LockHeld

(* The step names, spelled out for the provers.                            *)
LEMMA StepNames ==
  /\ ActiveStep = {"idem", "lock", "decr", "unlock", "claim", "incr", "wallet",
                   "commit", "save", "count", "set", "delwallet", "delorders"}
  /\ Taken = {"claim", "incr", "wallet", "commit"}
  /\ Taken \cup Saved = {"claim", "incr", "wallet", "commit", "save", "count",
                         "set", "delwallet", "delorders"}
BY DEF ActiveStep, LockHeld, Taken, InTx, Saved

(* A client inside Redeem has a full task record.                          *)
LEMMA ActiveTask ==
  ASSUME NEW c \in Clients, task \in [Clients -> Task \cup {Idle}],
         task[c].step # "idle"
  PROVE  task[c] \in Task
BY DEF Idle

(* A step that replaces one client's record leaves the others alone, so    *)
(* the conditions on the new record are enough.                            *)
LEMMA TaskStep ==
  ASSUME NEW c \in Clients, TaskInv, NEW r \in Task \cup {Idle}, LocalsOf(r),
         task' = [task EXCEPT ![c] = r]
  PROVE  TaskInv'
<1>1. task' \in [Clients -> Task \cup {Idle}]
  BY DEF TaskInv
<1>2. ASSUME NEW d \in Clients PROVE LocalsOf(task'[d])
  <2>1. task'[d] = IF d = c THEN r ELSE task[d]
    BY DEF TaskInv
  <2>. QED BY <2>1 DEF TaskInv, LocalsOK
<1>. QED BY <1>1, <1>2 DEF TaskInv, LocalsOK, LocalsOf

(* Return, Advance, Fail and Abort keep the task records in order.         *)
LEMMA ReturnTask ==
  ASSUME NEW c \in Clients, TaskInv, Return(c)
  PROVE  TaskInv'
<1>1. LocalsOf(Idle)
  BY StepNames DEF LocalsOf, Idle, InTx
<1>. QED BY <1>1, TaskStep DEF Return

(* Moving on to a later step of Redeem keeps the locals in order: the      *)
(* step may not need a code unless it is held already, nor an order id     *)
(* unless there is one.                                                    *)
LEMMA AdvanceTask ==
  ASSUME NEW c \in Clients, TaskInv, task[c] \in Task, NEW s \in ActiveStep,
         s \notin Taken, s \in Saved => task[c].order \in OrderIds, Advance(c, s)
  PROVE  TaskInv'
<1> DEFINE r == [task[c] EXCEPT !.step = s]
<1>1. r \in Task /\ r.step = s /\ r.order = task[c].order
  BY DEF Task, ActiveStep
<1>2. LocalsOf(r)
  BY <1>1 DEF LocalsOf, Taken
<1>3. task' = [task EXCEPT ![c] = r]
  BY DEF Advance
<1>. QED BY <1>1, <1>2, <1>3, TaskStep

(* Leaving Redeem before stock was taken keeps the locals in order.        *)
LEMMA FailTask ==
  ASSUME NEW c \in Clients, TaskInv, task[c] \in Task, NEW e \in Outcomes,
         Fail(c, "unlock", e)
  PROVE  TaskInv'
<1> DEFINE r == [task[c] EXCEPT !.step = "unlock", !.outcome = e]
<1>1. r \in Task /\ r.step = "unlock"
  BY DEF Task, LockHeld
<1>2. LocalsOf(r)
  BY <1>1, StepNames DEF LocalsOf, InTx
<1>3. task' = [task EXCEPT ![c] = r]
  BY DEF Fail
<1>. QED BY <1>1, <1>2, <1>3, TaskStep

(* Leaving Redeem through IncrStock keeps the locals in order.             *)
LEMMA AbortTask ==
  ASSUME NEW c \in Clients, TaskInv, task[c] \in Task, task[c].step \in Taken,
         NEW e \in Outcomes, Abort(c, e)
  PROVE  TaskInv'
<1> DEFINE r == [task[c] EXCEPT !.step = "incr", !.code = None, !.outcome = e]
<1>1. r \in Task /\ r.step = "incr" /\ r.order = task[c].order
  BY DEF Task, LockHeld, Taken
<1>2. task[c].order \in OrderIds
  BY DEF TaskInv, LocalsOK, LocalsOf
<1>3. LocalsOf(r)
  BY <1>1, <1>2 DEF LocalsOf, InTx
<1>4. task' = [task EXCEPT ![c] = r]
  BY DEF Abort
<1>. QED BY <1>1, <1>3, <1>4, TaskStep

(* A count of codes is a number.                                           *)
LEMMA AvailableCount ==
  ASSUME NEW p
  PROVE  Cardinality(Available(p)) \in Nat
<1>1. IsFiniteSet(Available(p))
  BY FS_Subset, CodesAssumption DEF Available
<1>. QED BY <1>1, FS_CardinalityType

(* A count of the units that redemptions hold is a number.                 *)
LEMMA UnitsCount ==
  ASSUME NEW p
  PROVE  Units(p) \in Nat
<1>1. IsFiniteSet({c \in Clients : task[c].step \in Taken /\ task[c].product = p})
  BY FS_Subset, ClientsAssumption
<1>. QED BY <1>1, FS_CardinalityType DEF Units

(* What a committing transaction writes is well typed: CanCommit keeps the *)
(* balance from going negative.                                            *)
LEMMA SaleWritesType ==
  ASSUME NEW c \in Clients, TypeOK, task[c] \in Task, task[c].code \in Codes,
         task[c].order \in OrderIds, CanCommit(c), SaleWrites(c)
  PROVE  /\ codeOrder' \in [Codes -> OrderIds \cup {None}]
         /\ wallet' \in [Users -> Wallet]
         /\ ledger' \in [Users -> Seq(Entry)]
         /\ orders' \subseteq Order
<1> DEFINE t == task[c]
           price == Price[t.product]
           grant == [ref |-> None, amount |-> Grant, after |-> Grant]
           expense == [ref |-> t.order, amount |-> -price, after |-> Funds(t.seen) - price]
<1>1. /\ t.user \in Users /\ t.product \in Products /\ t.key \in Keys \cup {NoKey}
      /\ t.seen \in Wallet
  BY DEF Task
<1>2. price \in Nat
  BY <1>1, PriceAssumption
<1>3. Funds(t.seen) \in Nat /\ Funds(wallet[t.user]) \in Nat
  BY <1>1, AmountsAssumption DEF Funds, Opening, TypeOK, Wallet
<1>4. codeOrder' \in [Codes -> OrderIds \cup {None}]
  BY DEF SaleWrites, TypeOK
<1>5. wallet' \in [Users -> Wallet]
  <2>1. Funds(wallet[t.user]) - price \in Nat
    BY <1>2, <1>3 DEF CanCommit
  <2>2. (IF Opening(t.seen) THEN 0 ELSE t.seen.version) + 1 \in Nat
    BY <1>1 DEF Opening, Wallet, NoRow
  <2>3. [version |-> (IF Opening(t.seen) THEN 0 ELSE t.seen.version) + 1,
         balance |-> Funds(wallet[t.user]) - price] \in Wallet
    BY <2>1, <2>2 DEF Wallet
  <2>. QED BY <1>1, <2>3 DEF SaleWrites, TypeOK
<1>6. ledger' \in [Users -> Seq(Entry)]
  <2>1. grant \in Entry /\ expense \in Entry
    BY <1>2, <1>3, AmountsAssumption DEF Entry
  <2>2. ledger[t.user] \in Seq(Entry)
    BY <1>1 DEF TypeOK
  <2>3. Append(IF Opening(t.seen) THEN Append(ledger[t.user], grant)
               ELSE ledger[t.user], expense) \in Seq(Entry)
    BY <2>1, <2>2
  <2>. QED BY <1>1, <2>3 DEF SaleWrites, TypeOK
<1>7. orders' \subseteq Order
  <2>1. [id |-> t.order, user |-> t.user, product |-> t.product,
         code |-> t.code, key |-> t.key] \in Order
    BY <1>1 DEF Order
  <2>. QED BY <2>1 DEF SaleWrites, TypeOK
<1>. QED BY <1>4, <1>5, <1>6, <1>7

(* An empty database, cold caches and idle goroutines are well typed.      *)
LEMMA TypeInit == Init => TypeInv
<1> SUFFICES ASSUME Init PROVE TypeInv
  OBVIOUS
<1>1. \A p \in Products : stock[p] \in Nat
  <2> TAKE p \in Products
  <2>1. IsFiniteSet({k \in Codes : ProductOf[k] = p})
    BY FS_Subset, CodesAssumption
  <2>. QED BY <2>1, FS_CardinalityType DEF Init
<1>2. TypeOK
  BY <1>1 DEF Init, TypeOK, Wallet, NoWallet, Idle, NoRow
<1>3. LocalsOK
  BY DEF Init, LocalsOK, LocalsOf, Idle, InTx, Taken, Saved
<1>. QED BY <1>2, <1>3 DEF TypeInv

(* TypeInv is TaskInv and the types of the shared state.                   *)
SharedOK ==
  /\ codeOrder \in [Codes -> OrderIds \cup {None}]
  /\ wallet \in [Users -> Wallet]
  /\ ledger \in [Users -> Seq(Entry)]
  /\ orders \subseteq Order
  /\ stock \in [Products -> Nat] /\ lost \in [Products -> Nat]
  /\ lock \in [Users -> BOOLEAN]
  /\ idem \in [Users -> [Keys -> OrderIds \cup {None}]]
  /\ ordersCache \in [Users -> (SUBSET OrderIds) \cup {None}]
  /\ walletCache \in [Users -> Nat \cup {NoRow}]
  /\ reader \in [Readers -> Fill \cup {Idle}]
  /\ dirty \subseteq Users

(* The type invariant is about the task records and the shared state.      *)
LEMMA TypeSplit == TypeInv <=> TaskInv /\ SharedOK
BY DEF TypeInv, TypeOK, TaskInv, SharedOK

(* A step that leaves all shared state alone leaves its types alone.       *)
LEMMA SharedStutters ==
  ASSUME SharedOK, UNCHANGED <<mysql, redis, caches, other>>
  PROVE  SharedOK'
BY DEF SharedOK, mysql, redis, caches, other

(* Redeem's steps.  First what they do to the task records ...             *)
LEMMA TypeRedeemTask ==
  ASSUME NEW c \in Clients, TypeInv, RedeemStep(c)
  PROVE  TaskInv' /\ task[c] \in Task
<1>0. TaskInv
  BY TypeSplit
<1>1. task[c].step # "idle"
  BY DEF RedeemStep, CheckIdem, AcquireLock, LockBusy, LockReplyLost, LookupFails, SoldOut,
         DecrReplyLost, DecrStock, ClaimCode, NoCode, ReadWallet, Commit,
         CommitConflict, CommitReplyLost, TxFails, RollbackStock, SaveIdem,
         CountCodes, SetStock, DelWallet, DelOrders, Unlock, At, InTx
<1>2. task[c] \in Task
  BY <1>1, ActiveTask DEF TypeInv, TypeOK
<1>3. task[c].step \in Taken \cup Saved => task[c].order \in OrderIds
  BY DEF TypeInv, LocalsOK, LocalsOf
<1>4. task[c].step \in InTx => task[c].code \in Codes
  BY DEF TypeInv, LocalsOK, LocalsOf
<1>5. CASE Return(c)
  BY <1>5, <1>0, <1>2, ReturnTask
<1>6. CASE \E s \in {"lock", "decr", "unlock"} : Advance(c, s)
  <2> PICK s \in {"lock", "decr", "unlock"} : Advance(c, s)
    BY <1>6
  <2>1. s \in ActiveStep /\ s \notin Taken /\ s \notin Saved
    BY StepNames DEF Saved
  <2>. QED BY <2>1, <1>0, <1>2, AdvanceTask
<1>7. CASE task[c].step \in Saved /\ \E s \in Saved : Advance(c, s)
  <2> PICK s \in Saved : Advance(c, s)
    BY <1>7
  <2>1. s \in ActiveStep /\ s \notin Taken
    BY StepNames DEF Saved
  <2>. QED BY <2>1, <1>0, <1>2, <1>3, <1>7, AdvanceTask
<1>8. CASE \E e \in Outcomes : Fail(c, "unlock", e)
  BY <1>8, <1>0, <1>2, FailTask
<1>9. CASE task[c].step \in Taken /\ \E e \in Outcomes : Abort(c, e)
  BY <1>9, <1>0, <1>2, AbortTask
<1>10. ASSUME NEW o \in OrderIds, DecrStock(c, o) PROVE TaskInv'
  <2> DEFINE r == [task[c] EXCEPT !.step = "claim", !.order = o]
  <2>1. r \in Task /\ r.step = "claim" /\ r.order = o
    BY <1>2 DEF Task, LockHeld, Taken
  <2>2. LocalsOf(r)
    BY <2>1 DEF LocalsOf, InTx
  <2>3. task' = [task EXCEPT ![c] = r]
    BY <1>10 DEF DecrStock
  <2>. QED BY <1>0, <2>1, <2>2, <2>3, TaskStep
<1>11. ASSUME NEW k \in Codes, ClaimCode(c, k) PROVE TaskInv'
  <2> DEFINE r == [task[c] EXCEPT !.step = "wallet", !.code = k]
  <2>1. r \in Task /\ r.step = "wallet" /\ r.code = k /\ r.order = task[c].order
    BY <1>2 DEF Task, LockHeld, Taken, InTx
  <2>2. task[c].order \in OrderIds
    BY <1>3, <1>11, StepNames DEF ClaimCode, At
  <2>3. LocalsOf(r)
    BY <2>1, <2>2 DEF LocalsOf
  <2>4. task' = [task EXCEPT ![c] = r]
    BY <1>11 DEF ClaimCode
  <2>. QED BY <1>0, <2>1, <2>3, <2>4, TaskStep
<1>12. ASSUME ReadWallet(c), ~Abort(c, "insufficient") PROVE TaskInv'
  <2> DEFINE w == wallet[task[c].user]
             r == [task[c] EXCEPT !.step = "commit", !.seen = w]
  <2>1. w \in Wallet
    BY <1>2 DEF TypeInv, TypeOK, Task
  <2>2. /\ r \in Task /\ r.step = "commit"
        /\ r.code = task[c].code /\ r.order = task[c].order
    BY <1>2, <2>1 DEF Task, LockHeld, Taken, InTx
  <2>3. task[c].order \in OrderIds /\ task[c].code \in Codes
    BY <1>3, <1>4, <1>12, StepNames DEF ReadWallet, At, InTx
  <2>4. LocalsOf(r)
    BY <2>2, <2>3 DEF LocalsOf
  <2>5. task' = [task EXCEPT ![c] = r]
    BY <1>12 DEF ReadWallet
  <2>. QED BY <1>0, <2>2, <2>4, <2>5, TaskStep
<1>13. ASSUME Commit(c) PROVE TaskInv'
  <2> DEFINE s == IF task[c].key = NoKey THEN "count" ELSE "save"
             r == [task[c] EXCEPT !.code = None, !.outcome = "ok", !.step = s]
  <2>1. r \in Task /\ r.step = s /\ r.order = task[c].order
    BY <1>2 DEF Task, LockHeld, Saved, Outcomes
  <2>2. task[c].order \in OrderIds
    BY <1>3, <1>13, StepNames DEF Commit, At
  <2>3. LocalsOf(r)
    BY <2>1, <2>2 DEF LocalsOf, InTx
  <2>4. task' = [task EXCEPT ![c] = r]
    BY <1>13 DEF Commit
  <2>. QED BY <1>0, <2>1, <2>3, <2>4, TaskStep
<1>14. ASSUME NEW n \in Nat, task[c].step \in Saved,
              task' = [task EXCEPT ![c].step = "set", ![c].counted = n]
       PROVE  TaskInv'
  <2> DEFINE r == [task[c] EXCEPT !.step = "set", !.counted = n]
  <2>1. r \in Task /\ r.step = "set" /\ r.order = task[c].order
    BY <1>2 DEF Task, LockHeld, Saved
  <2>2. LocalsOf(r)
    BY <1>3, <1>14, <2>1 DEF LocalsOf, InTx
  <2>3. task' = [task EXCEPT ![c] = r]
    BY <1>14
  <2>. QED BY <1>0, <2>1, <2>2, <2>3, TaskStep
<1>15. CASE \/ CheckIdem(c) \/ AcquireLock(c) \/ LockBusy(c) \/ LockReplyLost(c)
             \/ RollbackStock(c) \/ Unlock(c)
  <2>1. Return(c) \/ Advance(c, "lock") \/ Advance(c, "decr") \/ Advance(c, "unlock")
    BY <1>15 DEF CheckIdem, AcquireLock, LockBusy, LockReplyLost, RollbackStock, Unlock
  <2>. QED BY <2>1, <1>5, <1>6
<1>16. CASE LookupFails(c) \/ SoldOut(c) \/ DecrReplyLost(c)
  <2>1. Fail(c, "unlock", "error") \/ Fail(c, "unlock", "sold_out")
    BY <1>16 DEF LookupFails, SoldOut, DecrReplyLost
  <2>. QED BY <2>1, <1>8 DEF Outcomes
<1>17. CASE NoCode(c) \/ CommitConflict(c) \/ CommitReplyLost(c) \/ TxFails(c)
  <2>1. task[c].step \in Taken
    BY <1>17 DEF NoCode, CommitConflict, CommitReplyLost, TxFails, At, InTx, Taken
  <2>2. Abort(c, "sold_out") \/ Abort(c, "conflict") \/ Abort(c, "error")
    BY <1>17 DEF NoCode, CommitConflict, CommitReplyLost, TxFails
  <2>. QED BY <2>1, <2>2, <1>9 DEF Outcomes
<1>18. CASE ReadWallet(c)
  <2>1. task[c].step \in Taken
    BY <1>18 DEF ReadWallet, At, Taken, InTx
  <2>2. "insufficient" \in Outcomes
    BY DEF Outcomes
  <2>. QED BY <2>1, <2>2, <1>2, <1>9, <1>12, <1>18
<1>19. CASE SaveIdem(c) \/ SetStock(c) \/ DelWallet(c)
  <2>1. task[c].step \in Saved
    BY <1>19 DEF SaveIdem, SetStock, DelWallet, At, Saved
  <2>2. Advance(c, "count") \/ Advance(c, "delwallet") \/ Advance(c, "delorders")
    BY <1>19 DEF SaveIdem, SetStock, DelWallet
  <2>3. \E s \in Saved : Advance(c, s)
    BY <2>2 DEF Saved
  <2>. QED BY <2>1, <2>3, <1>7
<1>20. CASE DelOrders(c)
  BY <1>20, <1>6 DEF DelOrders
<1>21. CASE CountCodes(c)
  <2>1. task[c].step \in Saved
    BY <1>21 DEF CountCodes, At, Saved
  <2>2. Cardinality(Available(task[c].product)) \in Nat
    BY AvailableCount
  <2>3. \/ task' = [task EXCEPT ![c].step = "set",
                      ![c].counted = Cardinality(Available(task[c].product))]
        \/ Advance(c, "delwallet")
    BY <1>21 DEF CountCodes
  <2>4. "delwallet" \in Saved
    BY DEF Saved
  <2>. QED BY <2>1, <2>2, <2>3, <2>4, <1>2, <1>7, <1>14
<1>22. CASE \E o \in OrderIds : DecrStock(c, o)
  BY <1>2, <1>10, <1>22
<1>23. CASE \E k \in Codes : ClaimCode(c, k)
  BY <1>2, <1>11, <1>23
<1>. QED
  BY <1>2, <1>13, <1>15, <1>16, <1>17, <1>18, <1>19, <1>20, <1>21, <1>22, <1>23
     DEF RedeemStep

(* ... then to what the tables and keys hold.                              *)
LEMMA TypeRedeemShared ==
  ASSUME NEW c \in Clients, TypeInv, RedeemStep(c), task[c] \in Task
  PROVE  SharedOK'
<1> DEFINE u == task[c].user
           p == task[c].product
<1>0. SharedOK
  BY TypeSplit
<1>a. u \in Users /\ p \in Products /\ task[c].key \in Keys \cup {NoKey}
      /\ task[c].order \in OrderIds \cup {None} /\ task[c].counted \in Nat
  BY DEF Task
<1>1. CASE UNCHANGED <<mysql, redis, caches, other>>
  BY <1>0, <1>1, SharedStutters
<1>2. CASE AcquireLock(c) \/ LockReplyLost(c) \/ Unlock(c)
  <2>1. \/ lock' = [lock EXCEPT ![u] = TRUE]
        \/ lock' = [lock EXCEPT ![u] = FALSE]
        \/ lock' = lock
    BY <1>2 DEF AcquireLock, LockReplyLost, Unlock
  <2>2. UNCHANGED <<mysql, stock, lost, idem, caches, other>>
    BY <1>2 DEF AcquireLock, LockReplyLost, Unlock
  <2>. QED BY <2>1, <2>2, <1>0 DEF SharedOK, mysql, caches, other
<1>3. ASSUME NEW n \in Nat, NEW m \in Nat, stock' = [stock EXCEPT ![p] = n],
             lost' = [lost EXCEPT ![p] = m], UNCHANGED <<mysql, lock, idem, caches, other>>
      PROVE  SharedOK'
  BY <1>3, <1>0 DEF SharedOK, mysql, caches, other
<1>b. /\ stock[p] \in Nat /\ lost[p] \in Nat /\ lost[p] + 1 \in Nat
      /\ stock = [stock EXCEPT ![p] = stock[p]] /\ lost = [lost EXCEPT ![p] = lost[p]]
  BY <1>a, <1>0 DEF SharedOK
<1>4. CASE RollbackStock(c) \/ SetStock(c)
  <2>1. UNCHANGED <<mysql, lock, idem, caches, other>>
    BY <1>4 DEF RollbackStock, SetStock
  <2>2. GivenBack(p) \in Nat
    BY <1>b DEF GivenBack
  <2>3. \/ stock' = [stock EXCEPT ![p] = GivenBack(p)] /\ lost' = lost
        \/ stock' = stock /\ lost' = [lost EXCEPT ![p] = lost[p] + 1]
        \/ stock' = [stock EXCEPT ![p] = task[c].counted] /\ lost' = [lost EXCEPT ![p] = 0]
        \/ stock' = stock /\ lost' = lost
    BY <1>4 DEF RollbackStock, SetStock
  <2>4. \E n, m \in Nat : stock' = [stock EXCEPT ![p] = n] /\ lost' = [lost EXCEPT ![p] = m]
    <3>1. CASE stock' = [stock EXCEPT ![p] = GivenBack(p)] /\ lost' = lost
      BY <3>1, <2>2, <1>b
    <3>2. CASE stock' = stock /\ lost' = [lost EXCEPT ![p] = lost[p] + 1]
      BY <3>2, <1>b
    <3>3. CASE stock' = [stock EXCEPT ![p] = task[c].counted] /\ lost' = [lost EXCEPT ![p] = 0]
      BY <3>3, <1>a
    <3>4. CASE stock' = stock /\ lost' = lost
      BY <3>4, <1>b
    <3>. QED BY <2>3, <3>1, <3>2, <3>3, <3>4
  <2>. QED BY <2>1, <2>4, <1>3
<1>5. CASE DecrReplyLost(c) \/ \E o \in OrderIds : DecrStock(c, o)
  <2>1. /\ UNCHANGED <<mysql, lock, idem, caches, other>>
        /\ stock' = [stock EXCEPT ![p] = stock[p] - 1]
        /\ stock[p] > 0
        /\ lost' = lost \/ lost' = [lost EXCEPT ![p] = lost[p] + 1]
    BY <1>5 DEF DecrReplyLost, DecrStock, HasStock
  <2>2. stock[p] - 1 \in Nat
    BY <2>1, <1>b
  <2>3. \E m \in Nat : lost' = [lost EXCEPT ![p] = m]
    BY <2>1, <1>b
  <2>. QED BY <2>1, <2>2, <2>3, <1>3
<1>6. CASE SaveIdem(c)
  <2> DEFINE f == [idem[u] EXCEPT ![task[c].key] = task[c].order]
  <2>a. f \in [Keys -> OrderIds \cup {None}]
    BY <1>a, <1>0 DEF SharedOK
  <2>b. idem' = [idem EXCEPT ![u] = f] \/ idem' = idem
    BY <1>6 DEF SaveIdem
  <2>1. idem' \in [Users -> [Keys -> OrderIds \cup {None}]]
    BY <2>a, <2>b, <1>a, <1>0 DEF SharedOK
  <2>2. UNCHANGED <<mysql, stock, lost, lock, caches, other>>
    BY <1>6 DEF SaveIdem
  <2>. QED BY <2>1, <2>2, <1>0 DEF SharedOK, mysql, caches, other
<1>7. CASE DelWallet(c)
  <2>1. walletCache' \in [Users -> Nat \cup {NoRow}]
    BY <1>7, <1>a, <1>0 DEF DelWallet, SharedOK
  <2>2. UNCHANGED <<mysql, redis, ordersCache, other>>
    BY <1>7 DEF DelWallet
  <2>. QED BY <2>1, <2>2, <1>0 DEF SharedOK, mysql, redis, other
<1>8. CASE DelOrders(c)
  <2>1. ordersCache' \in [Users -> (SUBSET OrderIds) \cup {None}]
    BY <1>8, <1>a, <1>0 DEF DelOrders, SharedOK
  <2>2. UNCHANGED <<mysql, redis, walletCache, other>>
    BY <1>8 DEF DelOrders
  <2>. QED BY <2>1, <2>2, <1>0 DEF SharedOK, mysql, redis, other
<1>9. CASE Commit(c) \/ CommitReplyLost(c)
  <2>1. task[c].step = "commit" /\ CanCommit(c) /\ SaleWrites(c)
    BY <1>9 DEF Commit, CommitReplyLost, At
  <2>2. task[c].code \in Codes /\ task[c].order \in OrderIds
    BY <2>1 DEF TypeInv, LocalsOK, LocalsOf, InTx, Taken
  <2>3. UNCHANGED <<redis, caches, other>>
    BY <1>9 DEF Commit, CommitReplyLost
  <2>4. /\ codeOrder' \in [Codes -> OrderIds \cup {None}]
        /\ wallet' \in [Users -> Wallet]
        /\ ledger' \in [Users -> Seq(Entry)]
        /\ orders' \subseteq Order
    BY <2>1, <2>2, SaleWritesType DEF TypeInv
  <2>. QED BY <2>3, <2>4, <1>0 DEF SharedOK, redis, caches, other
<1>10. CASE CheckIdem(c) \/ LockBusy(c) \/ LookupFails(c) \/ SoldOut(c) \/ NoCode(c)
            \/ ReadWallet(c) \/ CommitConflict(c) \/ TxFails(c) \/ CountCodes(c)
  BY <1>1, <1>10 DEF CheckIdem, LockBusy, LookupFails, SoldOut, NoCode, ReadWallet,
                     CommitConflict, TxFails, CountCodes
<1>11. CASE \E k \in Codes : ClaimCode(c, k)
  BY <1>1, <1>11 DEF ClaimCode
<1>. QED
  BY <1>2, <1>4, <1>5, <1>6, <1>7, <1>8, <1>9, <1>10, <1>11 DEF RedeemStep

(* Every step of the component keeps the types and the locals in order.    *)
LEMMA TypeNext == TypeInv /\ [Next]_vars => TypeInv'
<1> SUFFICES ASSUME TypeInv, [Next]_vars PROVE TypeInv'
  OBVIOUS
<1>0. TaskInv /\ SharedOK
  BY TypeSplit
<1>1. ASSUME NEW c \in Clients, NEW u \in Users, NEW p \in Products,
             NEW k \in Keys \cup {NoKey}, Arrive(c, u, p, k)
      PROVE  TypeInv'
  <2> DEFINE s == IF k = NoKey THEN "lock" ELSE "idem"
             r == [step |-> s, user |-> u, product |-> p, key |-> k, order |-> None,
                   code |-> None, seen |-> NoWallet, counted |-> 0, outcome |-> "none"]
  <2>1. r \in Task /\ r.step \in {"lock", "idem"}
    BY DEF Task, Wallet, NoWallet, NoRow, Outcomes
  <2>2. LocalsOf(r)
    BY <2>1, StepNames DEF LocalsOf, InTx
  <2>3. task' = [task EXCEPT ![c] = r]
    BY <1>1 DEF Arrive
  <2>4. TaskInv'
    BY <2>1, <2>2, <2>3, <1>0, TaskStep
  <2>5. SharedOK'
    BY <1>1, <1>0, SharedStutters DEF Arrive
  <2>. QED BY <2>4, <2>5, TypeSplit, PTL
<1>2. ASSUME NEW c \in Clients, RedeemStep(c)
      PROVE  TypeInv'
  <2>1. TaskInv' /\ SharedOK'
    BY <1>2, TypeRedeemTask, TypeRedeemShared
  <2>. QED BY <2>1, TypeSplit, PTL
<1>3. ASSUME NEW u \in Users,
             LockExpires(u) \/ OrdersExpire(u) \/ WalletExpires(u) \/ EarnInvalidates(u)
      PROVE  TypeInv'
  <2>1. UNCHANGED <<mysql, stock, lost, idem, task, reader>> /\ dirty' \subseteq dirty
    BY <1>3 DEF LockExpires, OrdersExpire, WalletExpires, EarnInvalidates, mysql, redis,
                caches, other
  <2>2. lock' \in [Users -> BOOLEAN]
    BY <1>3, <1>0 DEF LockExpires, OrdersExpire, WalletExpires, EarnInvalidates, redis,
                      SharedOK
  <2>3. /\ ordersCache' \in [Users -> (SUBSET OrderIds) \cup {None}]
        /\ walletCache' \in [Users -> Nat \cup {NoRow}]
    BY <1>3, <1>0 DEF LockExpires, OrdersExpire, WalletExpires, EarnInvalidates, caches,
                      SharedOK
  <2>4. SharedOK'
    BY <2>1, <2>2, <2>3, <1>0 DEF SharedOK, mysql
  <2>5. TaskInv'
    BY <2>1, <1>0 DEF TaskInv, LocalsOK, LocalsOf
  <2>. QED BY <2>4, <2>5, TypeSplit, PTL
<1>4. ASSUME NEW u \in Users, OpenWallet(u) \/ Earn(u)
      PROVE  TypeInv'
  <2>1. /\ UNCHANGED <<codeOrder, orders, redis, caches, task, reader>>
        /\ dirty' \subseteq dirty \cup {u}
    BY <1>4 DEF OpenWallet, Earn, other
  <2>2. PICK w \in Wallet : wallet' = [wallet EXCEPT ![u] = w]
    <3>1. CASE OpenWallet(u)
      BY <3>1, AmountsAssumption DEF OpenWallet, Wallet
    <3>2. CASE Earn(u)
      <4>1. wallet[u] \in Wallet /\ wallet[u].version # NoRow
        BY <1>0, <3>2 DEF SharedOK, Earn, Opening
      <4>2. [version |-> wallet[u].version + 1,
             balance |-> wallet[u].balance + EarnAmount] \in Wallet
        BY <4>1, AmountsAssumption DEF Wallet
      <4>3. wallet' = [wallet EXCEPT ![u] = [version |-> wallet[u].version + 1,
                                            balance |-> wallet[u].balance + EarnAmount]]
        BY <3>2 DEF Earn
      <4>. QED BY <4>2, <4>3
    <3>. QED BY <1>4, <3>1, <3>2
  <2>3. PICK e \in Entry : ledger' = [ledger EXCEPT ![u] = Append(ledger[u], e)]
    <3>1. CASE OpenWallet(u)
      <4>1. [ref |-> None, amount |-> Grant, after |-> Grant] \in Entry
        BY AmountsAssumption DEF Entry
      <4>. QED BY <3>1, <4>1 DEF OpenWallet
    <3>2. CASE Earn(u)
      <4>1. wallet[u].balance \in Nat
        BY <1>0 DEF SharedOK, Wallet
      <4>2. [ref |-> None, amount |-> EarnAmount,
             after |-> wallet[u].balance + EarnAmount] \in Entry
        BY <4>1, AmountsAssumption DEF Entry
      <4>. QED BY <3>2, <4>2 DEF Earn
    <3>. QED BY <1>4, <3>1, <3>2
  <2>4. /\ wallet' \in [Users -> Wallet]
        /\ ledger' \in [Users -> Seq(Entry)]
    BY <2>2, <2>3, <1>0 DEF SharedOK
  <2>5. SharedOK'
    BY <2>1, <2>4, <1>0 DEF SharedOK, redis, caches
  <2>6. TaskInv'
    BY <2>1, <1>0 DEF TaskInv, LocalsOK, LocalsOf
  <2>. QED BY <2>5, <2>6, TypeSplit, PTL
<1>5. ASSUME NEW v \in Readers, NEW u \in Users,
             OrdersMiss(v, u) \/ WarmWallet(v, u) \/ ReadOrders(v)
      PROVE  TypeInv'
  <2>1. UNCHANGED <<mysql, redis, caches, task, dirty>>
    BY <1>5 DEF OrdersMiss, WarmWallet, ReadOrders
  <2>2. wallet[u].balance \in Nat
    BY <1>0 DEF SharedOK, Wallet
  <2>3. \A w \in Users : OrdersOf(w) \in SUBSET OrderIds
    BY <1>0 DEF SharedOK, Order, OrdersOf
  <2>4. reader[v].step = "orders_read" => reader[v].user \in Users
    BY <1>0 DEF SharedOK, Fill, Idle
  <2>5. PICK r \in Fill : reader' = [reader EXCEPT ![v] = r]
    <3>1. CASE OrdersMiss(v, u)
      BY <3>1 DEF OrdersMiss, Begin, Fill
    <3>2. CASE WarmWallet(v, u)
      BY <3>2, <2>2 DEF WarmWallet, Begin, Fill
    <3>3. CASE ReadOrders(v)
      BY <3>3, <2>3, <2>4 DEF ReadOrders, Begin, Fill
    <3>. QED BY <1>5, <3>1, <3>2, <3>3
  <2>6. SharedOK'
    BY <2>1, <2>5, <1>0 DEF SharedOK, mysql, redis, caches
  <2>7. TaskInv'
    BY <2>1, <1>0 DEF TaskInv, LocalsOK, LocalsOf
  <2>. QED BY <2>6, <2>7, TypeSplit, PTL
<1>6. ASSUME NEW v \in Readers, FillOrders(v) \/ FillWallet(v)
      PROVE  TypeInv'
  <2>1. /\ UNCHANGED <<mysql, redis, task, dirty>>
        /\ reader' = [reader EXCEPT ![v] = Idle]
    BY <1>6 DEF FillOrders, FillWallet
  <2>2. reader[v] \in Fill
    BY <1>6, <1>0 DEF FillOrders, FillWallet, SharedOK, Idle
  <2>3. /\ ordersCache' \in [Users -> (SUBSET OrderIds) \cup {None}]
        /\ walletCache' \in [Users -> Nat \cup {NoRow}]
    BY <1>6, <1>0, <2>2 DEF FillOrders, FillWallet, SharedOK, Fill
  <2>4. SharedOK'
    BY <2>1, <2>3, <1>0 DEF SharedOK, mysql, redis
  <2>5. TaskInv'
    BY <2>1, <1>0 DEF TaskInv, LocalsOK, LocalsOf
  <2>. QED BY <2>4, <2>5, TypeSplit, PTL
<1>7. CASE CrashRestart
  <2>1. UNCHANGED <<mysql, lock, idem, caches>> /\ dirty' = {}
    BY <1>7 DEF CrashRestart
  <2>a. \A p \in Products : Units(p) \in Nat
    BY UnitsCount
  <2>2. stock' \in [Products -> Nat] /\ lost' \in [Products -> Nat]
    BY <1>7, <1>0, <2>a, AvailableCount DEF CrashRestart, SharedOK
  <2>3. reader' \in [Readers -> Fill \cup {Idle}]
    BY <1>7 DEF CrashRestart
  <2>4. SharedOK'
    BY <2>1, <2>2, <2>3, <1>0 DEF SharedOK, mysql, caches
  <2>5. TaskInv'
    BY <1>7, StepNames DEF CrashRestart, TaskInv, LocalsOK, LocalsOf, Idle, InTx
  <2>. QED BY <2>4, <2>5, TypeSplit, PTL
<1>8. CASE UNCHANGED vars
  <2>1. UNCHANGED <<mysql, redis, caches, other>> /\ task' = task
    BY <1>8 DEF vars
  <2>2. SharedOK'
    BY <2>1, <1>0, SharedStutters
  <2>3. TaskInv'
    BY <2>1, <1>0 DEF TaskInv, LocalsOK, LocalsOf
  <2>. QED BY <2>2, <2>3, TypeSplit, PTL
<1>9. ASSUME NEW v \in Readers, ReadOrders(v)
      PROVE  TypeInv'
  <2>1. reader[v].user \in Users
    BY <1>9, <1>0 DEF ReadOrders, SharedOK, Fill, Idle
  <2>. QED BY <1>9, <1>5, <2>1
<1>. QED
  BY <1>1, <1>2, <1>3, <1>4, <1>5, <1>6, <1>7, <1>8, <1>9 DEF Next, ReaderStep

(* Every variable keeps its type, whatever interleaving, lost reply,       *)
(* failed statement, expiry or crash: in particular the MySQL balance and  *)
(* the Redis stock are never negative.                                     *)
THEOREM TypeCorrect == Spec => []TypeOK
<1>1. Init => TypeInv
  BY TypeInit
<1>2. TypeInv /\ [Next]_vars => TypeInv'
  BY TypeNext
<1>3. TypeInv => TypeOK
  BY DEF TypeInv
<1>. QED BY <1>1, <1>2, <1>3, PTL DEF Spec

-----------------------------------------------------------------------------
(* The ledger explains the balance.                                        *)

(* LedgerChain for one user, as a property of a ledger and a wallet.       *)
ChainBefore(s, i) == IF i = 1 THEN 0 ELSE s[i - 1].after
Chain(s, w) ==
  /\ Len(s) = w.version + 1
  /\ w.balance = ChainBefore(s, Len(s) + 1)
  /\ \A i \in 1..Len(s) : /\ s[i].after = ChainBefore(s, i) + s[i].amount
                          /\ s[i].after >= 0

(* LedgerChain says that each user's ledger and wallet form a chain.       *)
LEMMA ChainIsLedgerChain == LedgerChain <=> \A u \in Users : Chain(ledger[u], wallet[u])
BY DEF LedgerChain, Chain, Before, ChainBefore

(* Booking one amount extends the chain: the row's balance_after is the    *)
(* balance it was computed from plus the amount, and the version goes up.  *)
LEMMA ChainAppend ==
  ASSUME NEW s \in Seq(Entry), NEW w \in Wallet, Chain(s, w),
         NEW e \in Entry, e.after = w.balance + e.amount, e.after >= 0
  PROVE  Chain(Append(s, e), [version |-> w.version + 1, balance |-> e.after])
<1> DEFINE s2 == Append(s, e)
<1>1. /\ Len(s) \in Nat /\ Len(s2) = Len(s) + 1 /\ s2[Len(s) + 1] = e
      /\ \A i \in 1..Len(s) : s2[i] = s[i]
  OBVIOUS
<1>2. \A i \in 1..(Len(s) + 1) : ChainBefore(s2, i) = ChainBefore(s, i)
  BY <1>1 DEF ChainBefore
<1>3. ChainBefore(s2, Len(s2) + 1) = e.after
  BY <1>1 DEF ChainBefore
<1>4. ASSUME NEW i \in 1..Len(s2)
      PROVE  s2[i].after = ChainBefore(s2, i) + s2[i].amount /\ s2[i].after >= 0
  <2>1. CASE i = Len(s) + 1
    BY <2>1, <1>1, <1>2 DEF Chain
  <2>2. CASE i \in 1..Len(s)
    BY <2>2, <1>1, <1>2 DEF Chain
  <2>. QED BY <2>1, <2>2, <1>1
<1>5. Len(s2) = w.version + 1 + 1
  BY <1>1 DEF Chain
<1>. QED BY <1>3, <1>4, <1>5 DEF Chain

(* What a transaction read before it commits is the wallet or an older     *)
(* version of it: the version column tells the two apart.                  *)
SeenOf(r) == r.step = "commit" =>
               /\ r.seen.version <= wallet[r.user].version
               /\ r.seen.version = wallet[r.user].version => r.seen = wallet[r.user]
SeenOK   == \A c \in Clients : SeenOf(task[c])
ChainInv == TypeInv /\ LedgerChain /\ SeenOK

(* A step that changes no wallet keeps SeenOK if the new record does.      *)
LEMMA SeenTask ==
  ASSUME NEW c \in Clients, TypeInv, SeenOK, wallet' = wallet, NEW r, SeenOf(r),
         task' = [task EXCEPT ![c] = r]
  PROVE  SeenOK'
<1> SUFFICES ASSUME NEW d \in Clients PROVE SeenOf(task[d])'
  BY DEF SeenOK
<1>1. task'[d] = IF d = c THEN r ELSE task[d]
  BY DEF TypeInv, TypeOK
<1>. QED BY <1>1 DEF SeenOK, SeenOf

(* A step that raises the version of one wallet keeps SeenOK for the tasks *)
(* it leaves alone: whatever they have read is now older.                  *)
LEMMA SeenWallet ==
  ASSUME TypeInv, SeenOK, NEW u \in Users, NEW w \in Wallet,
         w.version > wallet[u].version, wallet' = [wallet EXCEPT ![u] = w],
         NEW d \in Clients, task'[d] = task[d]
  PROVE  SeenOf(task[d])'
<1> SUFFICES ASSUME task[d].step = "commit"
             PROVE  /\ task[d].seen.version <= wallet'[task[d].user].version
                    /\ task[d].seen.version = wallet'[task[d].user].version
                         => task[d].seen = wallet'[task[d].user]
  BY DEF SeenOf
<1>1. task[d] \in Task
  BY ActiveTask DEF TypeInv, TypeOK
<1>2. task[d].user \in Users /\ task[d].seen.version \in Nat \cup {NoRow}
  BY <1>1 DEF Task, Wallet
<1>3. /\ wallet[task[d].user].version \in Nat \cup {NoRow}
      /\ w.version \in Nat \cup {NoRow} /\ wallet[u].version \in Nat \cup {NoRow}
  BY <1>2 DEF TypeInv, TypeOK, Wallet
<1>4. wallet'[task[d].user] = IF task[d].user = u THEN w ELSE wallet[task[d].user]
  BY <1>2 DEF TypeInv, TypeOK
<1>5. /\ task[d].seen.version <= wallet[task[d].user].version
      /\ task[d].seen.version = wallet[task[d].user].version
           => task[d].seen = wallet[task[d].user]
  BY DEF SeenOK, SeenOf
<1>. QED BY <1>2, <1>3, <1>4, <1>5 DEF NoRow

(* The booking of a sale: the wallet the transaction read is the wallet it *)
(* updates, so the expense row is computed from the balance it lowers.     *)
LEMMA ChainSale ==
  ASSUME ChainInv, NEW c \in Clients, task[c].step = "commit", CanCommit(c), SaleWrites(c)
  PROVE  LedgerChain' /\ \E w \in Wallet :
           /\ wallet' = [wallet EXCEPT ![task[c].user] = w]
           /\ w.version > wallet[task[c].user].version
<1> DEFINE t       == task[c]
           u       == t.user
           price   == Price[t.product]
           grant   == [ref |-> None, amount |-> Grant, after |-> Grant]
           opened  == [version |-> 0, balance |-> Grant]
           before  == IF Opening(t.seen) THEN opened ELSE wallet[u]
           rows    == IF Opening(t.seen) THEN Append(ledger[u], grant) ELSE ledger[u]
           expense == [ref |-> t.order, amount |-> -price, after |-> Funds(t.seen) - price]
           paid    == [version |-> before.version + 1, balance |-> expense.after]
<1>1. t \in Task /\ t.order \in OrderIds
  BY ActiveTask, StepNames DEF ChainInv, TypeInv, TypeOK, LocalsOK, LocalsOf
<1>2. u \in Users /\ price \in Nat /\ t.seen \in Wallet
  BY <1>1, PriceAssumption DEF Task
<1>3. t.seen = wallet[u] /\ wallet[u] \in Wallet /\ ledger[u] \in Seq(Entry)
  BY <1>2 DEF ChainInv, SeenOK, SeenOf, CanCommit, VersionMatches, TypeInv, TypeOK
<1>4. Chain(ledger[u], wallet[u])
  BY <1>2, ChainIsLedgerChain DEF ChainInv
<1>5. before \in Wallet /\ rows \in Seq(Entry) /\ Chain(rows, before)
  <2>1. CASE Opening(t.seen)
    <3>1. grant \in Entry /\ opened \in Wallet
      BY AmountsAssumption DEF Entry, Wallet
    <3>2. wallet[u].version = -1
      BY <2>1, <1>3 DEF Opening, NoRow
    <3>3. wallet[u].balance = 0
      BY <3>2, <1>4, <1>3 DEF Chain, ChainBefore
    <3>4. grant.after = wallet[u].balance + grant.amount /\ grant.after >= 0
      BY <3>3, AmountsAssumption
    <3>5. [version |-> wallet[u].version + 1, balance |-> grant.after] = opened
      BY <3>2
    <3>6. Chain(Append(ledger[u], grant), opened)
      BY <3>1, <3>4, <3>5, <1>3, <1>4, ChainAppend
    <3>. QED BY <2>1, <3>1, <3>6, <1>3
  <2>2. CASE ~Opening(t.seen)
    BY <2>2, <1>3, <1>4
  <2>. QED BY <2>1, <2>2
<1>6. Funds(t.seen) = before.balance /\ Funds(t.seen) \in Nat
  BY <1>2, <1>3, AmountsAssumption DEF Funds, Wallet
<1>7. expense \in Entry /\ expense.after = before.balance + expense.amount
  BY <1>1, <1>2, <1>6 DEF Entry
<1>8. expense.after >= 0
  BY <1>2, <1>3, <1>6 DEF CanCommit
<1>9. Chain(Append(rows, expense), paid)
  BY <1>5, <1>7, <1>8, ChainAppend
<1>10. ledger' = [ledger EXCEPT ![u] = Append(rows, expense)]
  BY DEF SaleWrites
<1>11. wallet' = [wallet EXCEPT ![u] = paid]
  <2>1. before.version = IF Opening(t.seen) THEN 0 ELSE t.seen.version
    BY <1>3
  <2>2. expense.after = Funds(wallet[u]) - price
    BY <1>3
  <2>. QED BY <2>1, <2>2 DEF SaleWrites
<1>12. LedgerChain'
  <2> SUFFICES ASSUME NEW v \in Users PROVE Chain(ledger'[v], wallet'[v])
    BY DEF LedgerChain, Chain, Before, ChainBefore
  <2>1. CASE v = u
    BY <2>1, <1>9, <1>10, <1>11 DEF ChainInv, TypeInv, TypeOK
  <2>2. CASE v # u
    BY <2>2, <1>10, <1>11, ChainIsLedgerChain DEF ChainInv, TypeInv, TypeOK
  <2>. QED BY <2>1, <2>2
<1>13. paid \in Wallet /\ paid.version > wallet[u].version
  <2>1. before.version \in Nat
    BY <1>5, <1>3 DEF Wallet, Opening
  <2>2. wallet[u].version <= before.version
    BY <1>3, <2>1 DEF Opening, NoRow
  <2>3. expense.after \in Nat
    BY <1>7, <1>8 DEF Entry
  <2>4. wallet[u].version \in Int
    BY <1>3 DEF Wallet, NoRow
  <2>5. paid.version = before.version + 1 /\ paid.version \in Nat
    BY <2>1
  <2>6. paid \in Wallet
    BY <2>3, <2>5 DEF Wallet
  <2>. QED BY <2>1, <2>2, <2>4, <2>5, <2>6
<1>. QED BY <1>11, <1>12, <1>13

(* Booking a grant or an earning for one user.                             *)
LEMMA ChainBook ==
  ASSUME ChainInv, NEW u \in Users, OpenWallet(u) \/ Earn(u)
  PROVE  LedgerChain' /\ SeenOK'
<1> DEFINE amount == IF Opening(wallet[u]) THEN Grant ELSE EarnAmount
           e == [ref |-> None, amount |-> amount, after |-> wallet[u].balance + amount]
           w == [version |-> wallet[u].version + 1, balance |-> e.after]
<1>1. wallet[u] \in Wallet /\ ledger[u] \in Seq(Entry)
  BY DEF ChainInv, TypeInv, TypeOK
<1>2. Chain(ledger[u], wallet[u])
  BY ChainIsLedgerChain DEF ChainInv
<1>3. e \in Entry /\ e.after = wallet[u].balance + e.amount /\ e.after >= 0
  BY <1>1, AmountsAssumption DEF Entry, Wallet
<1>4. Chain(Append(ledger[u], e), w)
  BY <1>1, <1>2, <1>3, ChainAppend
<1>5. /\ wallet' = [wallet EXCEPT ![u] = w]
      /\ ledger' = [ledger EXCEPT ![u] = Append(ledger[u], e)]
      /\ task' = task
  <2>1. CASE OpenWallet(u)
    <3>1. wallet[u].version = -1
      BY <2>1 DEF OpenWallet, Opening, NoRow
    <3>2. wallet[u].balance = 0
      BY <3>1, <1>1, <1>2 DEF Chain, ChainBefore
    <3>3. amount = Grant /\ w = [version |-> 0, balance |-> Grant] /\ e.after = Grant
      BY <3>1, <3>2, AmountsAssumption DEF Opening, NoRow
    <3>. QED BY <2>1, <3>3 DEF OpenWallet
  <2>2. CASE Earn(u)
    <3>1. amount = EarnAmount
      BY <2>2 DEF Earn
    <3>2. w = [version |-> wallet[u].version + 1, balance |-> wallet[u].balance + EarnAmount]
      BY <3>1
    <3>. QED BY <2>2, <3>1, <3>2 DEF Earn
  <2>. QED BY <2>1, <2>2
<1>6. LedgerChain'
  <2> SUFFICES ASSUME NEW v \in Users PROVE Chain(ledger'[v], wallet'[v])
    BY DEF LedgerChain, Chain, Before, ChainBefore
  <2>1. CASE v = u
    BY <2>1, <1>4, <1>5 DEF ChainInv, TypeInv, TypeOK
  <2>2. CASE v # u
    BY <2>2, <1>5, ChainIsLedgerChain DEF ChainInv, TypeInv, TypeOK
  <2>. QED BY <2>1, <2>2
<1>7. w \in Wallet /\ w.version > wallet[u].version
  <2>1. wallet[u].version \in Nat \cup {-1}
    BY <1>1 DEF Wallet, NoRow
  <2>2. e.after \in Nat
    BY <1>3 DEF Entry
  <2>3. w.version = wallet[u].version + 1 /\ w.version \in Nat
    BY <2>1
  <2>. QED BY <2>1, <2>2, <2>3 DEF Wallet
<1>8. ASSUME NEW d \in Clients PROVE SeenOf(task[d])'
  BY <1>5, <1>7, SeenWallet DEF ChainInv
<1>9. SeenOK'
  BY <1>8 DEF SeenOK
<1>. QED BY <1>6, <1>9

(* Steps that touch neither wallet nor ledger keep the chain.              *)
LEMMA ChainFrame ==
  ASSUME LedgerChain, wallet' = wallet, ledger' = ledger
  PROVE  LedgerChain'
BY DEF LedgerChain, Before

(* A step of Redeem keeps the chain: only the commit of RedeemInTx         *)
(* writes to it, and what its transaction read is still true or the        *)
(* version has moved.                                                      *)
LEMMA ChainRedeem ==
  ASSUME ChainInv, NEW c \in Clients, RedeemStep(c)
  PROVE  LedgerChain' /\ SeenOK'
<1>0. /\ TypeInv /\ LedgerChain /\ SeenOK
      /\ task[c] \in Task
  BY TypeRedeemTask DEF ChainInv
<1>1. CASE Commit(c) \/ CommitReplyLost(c)
  <2>1. task[c].step = "commit" /\ CanCommit(c) /\ SaleWrites(c)
    BY <1>1 DEF Commit, CommitReplyLost, At
  <2>2. PICK w \in Wallet : /\ wallet' = [wallet EXCEPT ![task[c].user] = w]
                            /\ w.version > wallet[task[c].user].version
    BY <2>1, ChainSale
  <2>3. PICK r : task' = [task EXCEPT ![c] = r] /\ r.step # "commit"
    <3> DEFINE s == IF task[c].key = NoKey THEN "count" ELSE "save"
               r1 == [task[c] EXCEPT !.code = None, !.outcome = "ok", !.step = s]
               r2 == [task[c] EXCEPT !.step = "incr", !.code = None, !.outcome = "error"]
    <3>1. r1.step # "commit" /\ r2.step # "commit"
      BY <1>0 DEF Task
    <3>2. task' = [task EXCEPT ![c] = r1] \/ task' = [task EXCEPT ![c] = r2]
      BY <1>1 DEF Commit, CommitReplyLost, Abort
    <3>. QED BY <3>1, <3>2
  <2>4. ASSUME NEW d \in Clients PROVE SeenOf(task[d])'
    <3>1. CASE d = c
      BY <3>1, <2>3, <1>0 DEF SeenOf, TypeInv, TypeOK
    <3>2. CASE d # c
      <4>1. task'[d] = task[d]
        BY <3>2, <2>3, <1>0 DEF TypeInv, TypeOK
      <4>2. task[c].user \in Users
        BY <1>0 DEF Task
      <4>. QED BY <4>1, <4>2, <2>2, <1>0, SeenWallet
    <3>. QED BY <3>1, <3>2
  <2>. QED BY <2>1, <2>4, ChainSale DEF SeenOK
<1>2. CASE ~(Commit(c) \/ CommitReplyLost(c))
  <2>1. wallet' = wallet /\ ledger' = ledger
    BY <1>2 DEF RedeemStep, CheckIdem, AcquireLock, LockBusy, LockReplyLost, LookupFails, SoldOut,
         DecrReplyLost, DecrStock, ClaimCode, NoCode, ReadWallet, CommitConflict,
         TxFails, RollbackStock, SaveIdem, CountCodes, SetStock, DelWallet, DelOrders,
         Unlock, mysql
  <2>2. LedgerChain'
    BY <2>1, <1>0, ChainFrame
  <2>3. CASE ReadWallet(c) /\ ~Abort(c, "insufficient")
    <3> DEFINE r == [task[c] EXCEPT !.step = "commit", !.seen = wallet[task[c].user]]
    <3>1. task' = [task EXCEPT ![c] = r]
      BY <2>3 DEF ReadWallet
    <3>2. r.seen = wallet[task[c].user] /\ r.user = task[c].user /\ task[c].user \in Users
      BY <1>0 DEF Task
    <3>3. wallet[task[c].user].version \in Int
      BY <3>2, <1>0 DEF TypeInv, TypeOK, Wallet, NoRow
    <3>4. SeenOf(r)
      BY <3>2, <3>3 DEF SeenOf
    <3>. QED BY <3>1, <3>4, <2>1, <2>2, <1>0, SeenTask
  <2>4. ASSUME NEW r, task' = [task EXCEPT ![c] = r], r.step # "commit"
        PROVE  SeenOK'
    <3>1. SeenOf(r)
      BY <2>4 DEF SeenOf
    <3>. QED BY <3>1, <2>1, <2>4, <1>0, SeenTask
  <2>5. CASE ~(ReadWallet(c) /\ ~Abort(c, "insufficient"))
    <3>1. CASE Return(c)
      <4>1. Idle.step # "commit"
        BY DEF Idle
      <4>. QED BY <4>1, <3>1, <2>2, <2>4 DEF Return
    <3>2. CASE \E s \in ActiveStep \ InTx : Advance(c, s)
      <4> PICK s \in ActiveStep \ InTx : Advance(c, s)
        BY <3>2
      <4> DEFINE r == [task[c] EXCEPT !.step = s]
      <4>1. r.step # "commit"
        BY <1>0 DEF Task, InTx
      <4>2. task' = [task EXCEPT ![c] = r]
        BY DEF Advance
      <4>. QED BY <4>1, <4>2, <2>2, <2>4
    <3>3. CASE \E e \in Outcomes : Fail(c, "unlock", e)
      <4> PICK e \in Outcomes : Fail(c, "unlock", e)
        BY <3>3
      <4> DEFINE r == [task[c] EXCEPT !.step = "unlock", !.outcome = e]
      <4>1. r.step # "commit"
        BY <1>0 DEF Task
      <4>2. task' = [task EXCEPT ![c] = r]
        BY DEF Fail
      <4>. QED BY <4>1, <4>2, <2>2, <2>4
    <3>4. CASE \E e \in Outcomes : Abort(c, e)
      <4> PICK e \in Outcomes : Abort(c, e)
        BY <3>4
      <4> DEFINE r == [task[c] EXCEPT !.step = "incr", !.code = None, !.outcome = e]
      <4>1. r.step # "commit"
        BY <1>0 DEF Task
      <4>2. task' = [task EXCEPT ![c] = r]
        BY DEF Abort
      <4>. QED BY <4>1, <4>2, <2>2, <2>4
    <3>5. CASE \E o \in OrderIds : DecrStock(c, o)
      <4> PICK o \in OrderIds : DecrStock(c, o)
        BY <3>5
      <4> DEFINE r == [task[c] EXCEPT !.step = "claim", !.order = o]
      <4>1. r.step # "commit"
        BY <1>0 DEF Task
      <4>2. task' = [task EXCEPT ![c] = r]
        BY DEF DecrStock
      <4>. QED BY <4>1, <4>2, <2>2, <2>4
    <3>6. CASE \E k \in Codes : ClaimCode(c, k)
      <4> PICK k \in Codes : ClaimCode(c, k)
        BY <3>6
      <4> DEFINE r == [task[c] EXCEPT !.step = "wallet", !.code = k]
      <4>1. r.step # "commit"
        BY <1>0 DEF Task
      <4>2. task' = [task EXCEPT ![c] = r]
        BY DEF ClaimCode
      <4>. QED BY <4>1, <4>2, <2>2, <2>4
    <3>7. CASE CountCodes(c) /\ ~Advance(c, "delwallet")
      <4> DEFINE r == [task[c] EXCEPT !.step = "set",
                         !.counted = Cardinality(Available(task[c].product))]
      <4>1. r.step # "commit"
        BY <1>0 DEF Task
      <4>2. task' = [task EXCEPT ![c] = r]
        BY <3>7 DEF CountCodes
      <4>. QED BY <4>1, <4>2, <2>2, <2>4
    <3>8. /\ {"sold_out", "insufficient", "conflict", "error"} \subseteq Outcomes
          /\ {"lock", "decr", "unlock", "count", "delwallet", "delorders"}
               \subseteq ActiveStep \ InTx
      BY StepNames DEF Outcomes, InTx
    <3>9. CASE \/ CheckIdem(c) \/ AcquireLock(c) \/ LockBusy(c) \/ LockReplyLost(c)
               \/ RollbackStock(c)
               \/ SaveIdem(c) \/ SetStock(c) \/ DelWallet(c) \/ DelOrders(c) \/ Unlock(c)
      <4>1. \/ Return(c) \/ Advance(c, "lock") \/ Advance(c, "decr") \/ Advance(c, "unlock")
            \/ Advance(c, "count") \/ Advance(c, "delwallet") \/ Advance(c, "delorders")
        BY <3>9 DEF CheckIdem, AcquireLock, LockBusy, LockReplyLost, RollbackStock, SaveIdem, SetStock,
                    DelWallet, DelOrders, Unlock
      <4>. QED BY <4>1, <3>1, <3>2, <3>8
    <3>10. CASE LookupFails(c) \/ SoldOut(c) \/ DecrReplyLost(c)
      <4>1. Fail(c, "unlock", "error") \/ Fail(c, "unlock", "sold_out")
        BY <3>10 DEF LookupFails, SoldOut, DecrReplyLost
      <4>. QED BY <4>1, <3>3, <3>8
    <3>11. CASE NoCode(c) \/ ReadWallet(c) \/ CommitConflict(c) \/ TxFails(c)
      <4>1. \/ Abort(c, "sold_out") \/ Abort(c, "insufficient")
            \/ Abort(c, "conflict") \/ Abort(c, "error")
        BY <3>11, <2>5 DEF NoCode, CommitConflict, TxFails
      <4>. QED BY <4>1, <3>4, <3>8
    <3>12. CASE CountCodes(c)
      BY <3>12, <3>2, <3>7, <3>8
    <3>. QED BY <1>2, <3>5, <3>6, <3>9, <3>10, <3>11, <3>12 DEF RedeemStep
  <2>. QED BY <2>2, <2>3, <2>5
<1>. QED BY <1>1, <1>2

(* Every step of the component keeps the chain and what a transaction      *)
(* knows of it.                                                            *)
LEMMA ChainNext == ChainInv /\ [Next]_vars => ChainInv'
<1> SUFFICES ASSUME ChainInv, [Next]_vars PROVE ChainInv'
  OBVIOUS
<1>0. TypeInv /\ LedgerChain /\ SeenOK /\ TypeInv'
  BY TypeNext DEF ChainInv
<1>1. ASSUME wallet' = wallet, ledger' = ledger, task' = task
      PROVE  ChainInv'
  <2>1. SeenOK'
    BY <1>0, <1>1 DEF SeenOK, SeenOf
  <2>. QED BY <2>1, <1>0, <1>1, ChainFrame DEF ChainInv
<1>2. ASSUME NEW c \in Clients, NEW u \in Users, NEW p \in Products,
             NEW k \in Keys \cup {NoKey}, Arrive(c, u, p, k)
      PROVE  ChainInv'
  <2>1. wallet' = wallet /\ ledger' = ledger
    BY <1>2 DEF Arrive, mysql
  <2> DEFINE s == IF k = NoKey THEN "lock" ELSE "idem"
             r == [step |-> s, user |-> u, product |-> p, key |-> k, order |-> None,
                   code |-> None, seen |-> NoWallet, counted |-> 0, outcome |-> "none"]
  <2>2. task' = [task EXCEPT ![c] = r]
    BY <1>2 DEF Arrive
  <2>3. SeenOf(r)
    BY DEF SeenOf
  <2>4. SeenOK'
    BY <2>1, <2>2, <2>3, <1>0, SeenTask
  <2>. QED BY <2>1, <2>4, <1>0, ChainFrame DEF ChainInv
<1>3. ASSUME NEW c \in Clients, RedeemStep(c)
      PROVE  ChainInv'
  BY <1>3, <1>0, ChainRedeem DEF ChainInv
<1>4. ASSUME NEW u \in Users, OpenWallet(u) \/ Earn(u)
      PROVE  ChainInv'
  BY <1>4, <1>0, ChainBook DEF ChainInv
<1>5. ASSUME NEW u \in Users,
             LockExpires(u) \/ OrdersExpire(u) \/ WalletExpires(u) \/ EarnInvalidates(u)
      PROVE  ChainInv'
  BY <1>1, <1>5 DEF LockExpires, OrdersExpire, WalletExpires, EarnInvalidates, mysql
<1>6. ASSUME NEW v \in Readers, NEW u \in Users, OrdersMiss(v, u) \/ WarmWallet(v, u)
      PROVE  ChainInv'
  BY <1>1, <1>6 DEF OrdersMiss, WarmWallet, mysql
<1>7. ASSUME NEW v \in Readers, ReaderStep(v)
      PROVE  ChainInv'
  BY <1>1, <1>7 DEF ReaderStep, ReadOrders, FillOrders, FillWallet, mysql
<1>8. CASE CrashRestart
  <2>1. wallet' = wallet /\ ledger' = ledger /\ task' = [c \in Clients |-> Idle]
    BY <1>8 DEF CrashRestart, mysql
  <2>2. SeenOK'
    BY <2>1 DEF SeenOK, SeenOf, Idle
  <2>. QED BY <2>1, <2>2, <1>0, ChainFrame DEF ChainInv
<1>9. CASE UNCHANGED vars
  BY <1>1, <1>9 DEF vars, mysql
<1>. QED BY <1>2, <1>3, <1>4, <1>5, <1>6, <1>7, <1>8, <1>9 DEF Next

(* The ledger always explains the balance, row by row, for any number of   *)
(* concurrent redemptions, wallet openings and earnings: the transaction's *)
(* unlocked read of the wallet is made safe by the version check.          *)
THEOREM LedgerChainHolds == Spec => []LedgerChain
<1>1. Init => ChainInv
  <2> SUFFICES ASSUME Init PROVE ChainInv
    OBVIOUS
  <2>1. LedgerChain
    BY DEF Init, LedgerChain, Before, NoWallet, NoRow
  <2>2. SeenOK
    BY DEF Init, SeenOK, SeenOf, Idle
  <2>. QED BY <2>1, <2>2, TypeInit DEF ChainInv
<1>2. ChainInv /\ [Next]_vars => ChainInv'
  BY ChainNext
<1>3. ChainInv => LedgerChain
  BY DEF ChainInv
<1>. QED BY <1>1, <1>2, <1>3, PTL DEF Spec

-----------------------------------------------------------------------------
(* The inductive invariant of the sales.                                   *)

EarlySteps   == {"idem", "lock", "decr"}      \* no unit of stock, no order id yet
PendingSteps == {"claim", "wallet", "commit"} \* an order id, nothing written yet

(* Redemptions under way have order ids of their own.                      *)
OwnOrderIds == \A c, d \in Clients : c # d /\ UsedOrder(c) # None =>
                                       UsedOrder(c) # UsedOrder(d)

(* SELECT ... FOR UPDATE: no two transactions have the same code.          *)
OwnCodes == \A c, d \in Clients : /\ task[c].step \in InTx
                                  /\ task[d].step \in InTx
                                  /\ task[c].code = task[d].code
                                  => c = d

(* What the tables say of one redemption: the order id is drawn after the  *)
(* stock was taken; no order has it until the transaction commits; the     *)
(* locked code is an unsold one of the product; and the key is saved only  *)
(* for an order that was placed with it.                                   *)
EarlyOf(t)   == t.step \in EarlySteps => t.order = None
PendingOf(t) == t.step \in PendingSteps => \A x \in orders : x.id # t.order
LockedOf(t)  == t.step \in InTx => /\ codeOrder[t.code] = None
                                  /\ ProductOf[t.code] = t.product
SavedOf(t)   == t.step = "save" =>
                  \E x \in orders : x.id = t.order /\ x.user = t.user /\ x.key = t.key
Fits(t)      == EarlyOf(t) /\ PendingOf(t) /\ LockedOf(t) /\ SavedOf(t)
RecordsFit   == \A c \in Clients : Fits(task[c])

UnderWay == OwnOrderIds /\ OwnCodes /\ RecordsFit
SaleInv  == TypeInv /\ UnderWay /\ SaleConsistent /\ RecordedOrderIsOwn

-----------------------------------------------------------------------------
(* What a step of Redeem does to the client's record and to the tables, in *)
(* eight kinds.  r is the client's new record.                             *)

Replaces(c, r) == task' = [task EXCEPT ![c] = r]
SameCall(c, r) == /\ r.user = task[c].user
                  /\ r.product = task[c].product
                  /\ r.key = task[c].key

(* Redeem returns, before it has the lock or after it has let it go.       *)
Leaves(c) ==
  /\ task[c].step \in {"idem", "lock", "unlock"}
  /\ Replaces(c, Idle)
  /\ \/ UNCHANGED lock
     \/ task[c].step = "lock" /\ lock' = [lock EXCEPT ![task[c].user] = TRUE]
     \/ task[c].step = "unlock" /\ lock' = [lock EXCEPT ![task[c].user] = FALSE]
  /\ UNCHANGED <<mysql, idem, stock, lost>>

(* The script took a unit and its reply was lost.                          *)
Misplaces(c) ==
  /\ stock' = [stock EXCEPT ![task[c].product] = @ - 1]
  /\ lost' = [lost EXCEPT ![task[c].product] = @ + 1]

(* Idempotency check, lock, product lookup, or a sold-out answer.          *)
Prepares(c, r) ==
  /\ task[c].step \in EarlySteps
  /\ r.step \in {"lock", "decr", "unlock"}
  /\ \/ /\ task[c].step = "idem" /\ r.step = "lock"
        /\ UNCHANGED <<lock, stock, lost>>
     \/ /\ task[c].step = "lock" /\ r.step = "decr"
        /\ ~lock[task[c].user] /\ lock' = [lock EXCEPT ![task[c].user] = TRUE]
        /\ UNCHANGED <<stock, lost>>
     \/ /\ task[c].step = "decr" /\ r.step = "unlock"
        /\ UNCHANGED lock /\ (Misplaces(c) \/ UNCHANGED <<stock, lost>>)
  /\ r.order = task[c].order
  /\ r.outcome \in {task[c].outcome, "error", "sold_out"}
  /\ UNCHANGED <<mysql, idem>>

(* The stock gave a unit, and the order has its id.                        *)
Takes(c, r) ==
  /\ task[c].step = "decr"
  /\ r.step = "claim"
  /\ r.order \in OrderIds /\ Fresh(r.order)
  /\ r.outcome = task[c].outcome
  /\ stock[task[c].product] > 0
  /\ stock' = [stock EXCEPT ![task[c].product] = @ - 1]
  /\ UNCHANGED <<mysql, idem, lock, lost>>

Claims(c, r) ==
  /\ task[c].step = "claim"
  /\ r.step = "wallet"
  /\ r.code \in Unlocked(task[c].product)
  /\ r.order = task[c].order /\ r.outcome = task[c].outcome
  /\ UNCHANGED <<mysql, idem, lock, stock, lost>>

Reads(c, r) ==
  /\ task[c].step = "wallet"
  /\ r.step = "commit"
  /\ r.code = task[c].code
  /\ r.order = task[c].order /\ r.outcome = task[c].outcome
  /\ UNCHANGED <<mysql, idem, lock, stock, lost>>

(* The transaction rolls back.                                             *)
Aborts(c, r) ==
  /\ task[c].step \in PendingSteps
  /\ r.step = "incr"
  /\ r.order = task[c].order
  /\ UNCHANGED <<mysql, idem, lock, stock, lost>>

(* The transaction commits; the reply of its COMMIT may be lost.           *)
Sells(c, r) ==
  /\ task[c].step = "commit"
  /\ CanCommit(c) /\ SaleWrites(c)
  /\ r.order = task[c].order
  /\ \/ r.step \in {"save", "count"} /\ r.outcome = "ok"
     \/ r.step = "incr" /\ CommitLost
  /\ UNCHANGED <<idem, lock, stock, lost>>

(* The unit is given back, or the command is lost and the unit with it.    *)
GivesBack(c, r) ==
  /\ task[c].step = "incr"
  /\ r.step = "unlock"
  /\ \/ stock' = [stock EXCEPT ![task[c].product] = @ + 1] /\ UNCHANGED lost
     \/ lost' = [lost EXCEPT ![task[c].product] = @ + 1] /\ UNCHANGED stock

(* The sale's caches and keys are brought up to date.                      *)
Updates(c, r) ==
  /\ task[c].step \in Saved
  /\ r.step \in {"unlock", "count", "set", "delwallet", "delorders"}
  /\ r.step = "set" => r.counted = Cardinality(Available(task[c].product))
  /\ \/ UNCHANGED <<stock, lost>>
     \/ /\ task[c].step = "set"
        /\ stock' = [stock EXCEPT ![task[c].product] = task[c].counted]
        /\ lost' = [lost EXCEPT ![task[c].product] = 0]

Finishes(c, r) ==
  /\ task[c].step \in {"incr"} \cup Saved
  /\ r.step \in {"unlock", "count", "set", "delwallet", "delorders"}
  /\ GivesBack(c, r) \/ Updates(c, r)
  /\ r.order = task[c].order /\ r.outcome = task[c].outcome
  /\ \/ UNCHANGED idem
     \/ /\ task[c].step = "save"
        /\ idem' = [idem EXCEPT ![task[c].user][task[c].key] = task[c].order]
  /\ UNCHANGED <<mysql, lock>>

MovesOn(c, r) ==
  \/ Prepares(c, r) \/ Takes(c, r) \/ Claims(c, r) \/ Reads(c, r)
  \/ Aborts(c, r) \/ Sells(c, r) \/ Finishes(c, r)

(* Every step of Redeem is of one of these kinds.                          *)
LEMMA RedeemKinds ==
  ASSUME NEW c \in Clients, TypeInv, RedeemStep(c)
  PROVE  /\ task[c] \in Task
         /\ \/ Leaves(c)
            \/ \E r : Replaces(c, r) /\ SameCall(c, r) /\ MovesOn(c, r)
<1>0. task[c] \in Task
  BY TypeRedeemTask
<1> DEFINE Goal == \/ Leaves(c)
                   \/ \E r : Replaces(c, r) /\ SameCall(c, r) /\ MovesOn(c, r)
<1> SUFFICES Goal
  BY <1>0
<1>1. CASE LockBusy(c) \/ LockReplyLost(c) \/ Unlock(c) \/ (CheckIdem(c) /\ Return(c))
  BY <1>1 DEF LockBusy, LockReplyLost, Unlock, CheckIdem, Return, Leaves, Replaces, redis, At
<1>3. CASE CheckIdem(c) /\ ~Return(c)
  <2> DEFINE r == [task[c] EXCEPT !.step = "lock"]
  <2>1. Advance(c, "lock") /\ UNCHANGED <<mysql, redis>> /\ task[c].step = "idem"
    BY <1>3 DEF CheckIdem, At
  <2>2. SameCall(c, r) /\ Prepares(c, r)
    BY <1>0, <2>1 DEF SameCall, Prepares, Task, EarlySteps, redis
  <2>3. Replaces(c, r)
    BY <2>1 DEF Advance, Replaces
  <2>. QED BY <2>2, <2>3 DEF MovesOn
<1>4. CASE AcquireLock(c)
  <2> DEFINE r == [task[c] EXCEPT !.step = "decr"]
  <2>1. SameCall(c, r) /\ Prepares(c, r)
    BY <1>0, <1>4 DEF SameCall, Prepares, Task, EarlySteps, AcquireLock, At, LockFree
  <2>2. Replaces(c, r)
    BY <1>4 DEF AcquireLock, Advance, Replaces
  <2>. QED BY <2>1, <2>2 DEF MovesOn
<1>5. CASE LookupFails(c) \/ SoldOut(c) \/ DecrReplyLost(c)
  <2> PICK e \in {"error", "sold_out"} : Fail(c, "unlock", e)
    BY <1>5 DEF LookupFails, SoldOut, DecrReplyLost
  <2> DEFINE r == [task[c] EXCEPT !.step = "unlock", !.outcome = e]
  <2>1. /\ UNCHANGED <<mysql, idem, lock>> /\ task[c].step = "decr"
        /\ Misplaces(c) \/ UNCHANGED <<stock, lost>>
    BY <1>5 DEF LookupFails, SoldOut, DecrReplyLost, Misplaces, redis, At
  <2>2. SameCall(c, r) /\ Prepares(c, r)
    BY <1>0, <2>1 DEF SameCall, Prepares, Task, EarlySteps
  <2>3. Replaces(c, r)
    BY DEF Fail, Replaces
  <2>. QED BY <2>2, <2>3 DEF MovesOn
<1>6. ASSUME NEW o \in OrderIds, DecrStock(c, o) PROVE Goal
  <2> DEFINE r == [task[c] EXCEPT !.step = "claim", !.order = o]
  <2>1. SameCall(c, r) /\ Takes(c, r)
    BY <1>0, <1>6 DEF SameCall, Takes, Task, DecrStock, At, HasStock
  <2>2. Replaces(c, r)
    BY <1>6 DEF DecrStock, Replaces
  <2>. QED BY <2>1, <2>2 DEF MovesOn
<1>7. ASSUME NEW k \in Codes, ClaimCode(c, k) PROVE Goal
  <2> DEFINE r == [task[c] EXCEPT !.step = "wallet", !.code = k]
  <2>1. SameCall(c, r) /\ Claims(c, r)
    BY <1>0, <1>7 DEF SameCall, Claims, Task, ClaimCode, At, redis
  <2>2. Replaces(c, r)
    BY <1>7 DEF ClaimCode, Replaces
  <2>. QED BY <2>1, <2>2 DEF MovesOn
<1>8. ASSUME NEW e, Abort(c, e), task[c].step \in PendingSteps, UNCHANGED <<mysql, redis>>
      PROVE  Goal
  <2> DEFINE r == [task[c] EXCEPT !.step = "incr", !.code = None, !.outcome = e]
  <2>1. SameCall(c, r) /\ Aborts(c, r)
    BY <1>0, <1>8 DEF SameCall, Aborts, Task, redis
  <2>2. Replaces(c, r)
    BY <1>8 DEF Abort, Replaces
  <2>. QED BY <2>1, <2>2 DEF MovesOn
<1>9. CASE NoCode(c) \/ CommitConflict(c) \/ TxFails(c)
  <2>1. Abort(c, "sold_out") \/ Abort(c, "conflict") \/ Abort(c, "error")
    BY <1>9 DEF NoCode, CommitConflict, TxFails
  <2>2. task[c].step \in PendingSteps /\ UNCHANGED <<mysql, redis>>
    BY <1>9 DEF NoCode, CommitConflict, TxFails, At, InTx, PendingSteps
  <2>. QED BY <2>1, <2>2, <1>8
<1>10. CASE ReadWallet(c)
  <2>1. UNCHANGED <<mysql, redis>> /\ task[c].step = "wallet"
    BY <1>10 DEF ReadWallet, At
  <2>2. CASE Abort(c, "insufficient")
    BY <2>1, <2>2, <1>8 DEF PendingSteps
  <2>3. CASE ~Abort(c, "insufficient")
    <3> DEFINE r == [task[c] EXCEPT !.step = "commit", !.seen = wallet[task[c].user]]
    <3>1. SameCall(c, r) /\ Reads(c, r)
      BY <1>0, <2>1 DEF SameCall, Reads, Task, redis
    <3>2. Replaces(c, r)
      BY <1>10, <2>3 DEF ReadWallet, Replaces
    <3>. QED BY <3>1, <3>2 DEF MovesOn
  <2>. QED BY <2>2, <2>3
<1>11. CASE Commit(c)
  <2> DEFINE s == IF task[c].key = NoKey THEN "count" ELSE "save"
             r == [task[c] EXCEPT !.code = None, !.outcome = "ok", !.step = s]
  <2>1. SameCall(c, r) /\ Sells(c, r)
    BY <1>0, <1>11 DEF SameCall, Sells, Task, Commit, At, redis
  <2>2. Replaces(c, r)
    BY <1>11 DEF Commit, Replaces
  <2>. QED BY <2>1, <2>2 DEF MovesOn
<1>12. CASE CommitReplyLost(c)
  <2> DEFINE r == [task[c] EXCEPT !.step = "incr", !.code = None, !.outcome = "error"]
  <2>1. SameCall(c, r) /\ Sells(c, r)
    BY <1>0, <1>12 DEF SameCall, Sells, Task, CommitReplyLost, At, redis
  <2>2. Replaces(c, r)
    BY <1>12 DEF CommitReplyLost, Abort, Replaces
  <2>. QED BY <2>1, <2>2 DEF MovesOn
<1>13. CASE RollbackStock(c)
  <2> DEFINE r == [task[c] EXCEPT !.step = "unlock"]
  <2>1. SameCall(c, r) /\ Finishes(c, r)
    BY <1>0, <1>13 DEF SameCall, Finishes, GivesBack, Task, RollbackStock, At, GivenBack
  <2>2. Replaces(c, r)
    BY <1>13 DEF RollbackStock, Advance, Replaces
  <2>. QED BY <2>1, <2>2 DEF MovesOn
<1>14. ASSUME NEW s \in {"unlock", "count", "delwallet", "delorders"}, Advance(c, s),
              task[c].step \in Saved, UNCHANGED <<mysql, lock>>,
              \/ UNCHANGED idem
              \/ /\ task[c].step = "save"
                 /\ idem' = [idem EXCEPT ![task[c].user][task[c].key] = task[c].order],
              \/ UNCHANGED <<stock, lost>>
              \/ /\ task[c].step = "set"
                 /\ stock' = [stock EXCEPT ![task[c].product] = task[c].counted]
                 /\ lost' = [lost EXCEPT ![task[c].product] = 0]
       PROVE  Goal
  <2> DEFINE r == [task[c] EXCEPT !.step = s]
  <2>1. SameCall(c, r) /\ Finishes(c, r)
    BY <1>0, <1>14 DEF SameCall, Finishes, Updates, Task
  <2>2. Replaces(c, r)
    BY <1>14 DEF Advance, Replaces
  <2>. QED BY <2>1, <2>2 DEF MovesOn
<1>15. CASE SaveIdem(c)
  <2>1. /\ Advance(c, "count") /\ UNCHANGED <<mysql, lock, stock, lost>> /\ task[c].step = "save"
        /\ \/ UNCHANGED idem
           \/ idem' = [idem EXCEPT ![task[c].user][task[c].key] = task[c].order]
    BY <1>15 DEF SaveIdem, At
  <2>. QED BY <2>1, <1>14 DEF Saved
<1>16. CASE CountCodes(c)
  <2>1. UNCHANGED <<mysql, idem, lock, stock, lost>> /\ task[c].step = "count"
    BY <1>16 DEF CountCodes, redis, At
  <2>2. CASE Advance(c, "delwallet")
    BY <2>1, <2>2, <1>14 DEF Saved
  <2>3. CASE ~Advance(c, "delwallet")
    <3> DEFINE r == [task[c] EXCEPT !.step = "set",
                       !.counted = Cardinality(Available(task[c].product))]
    <3>1. SameCall(c, r) /\ Finishes(c, r)
      BY <1>0, <2>1 DEF SameCall, Finishes, Updates, Task, Saved
    <3>2. Replaces(c, r)
      BY <1>16, <2>3 DEF CountCodes, Replaces
    <3>. QED BY <3>1, <3>2 DEF MovesOn
  <2>. QED BY <2>2, <2>3
<1>17. CASE SetStock(c) \/ DelWallet(c) \/ DelOrders(c)
  <2>1. Advance(c, "delwallet") \/ Advance(c, "delorders") \/ Advance(c, "unlock")
    BY <1>17 DEF SetStock, DelWallet, DelOrders
  <2>2. /\ UNCHANGED <<mysql, idem, lock>> /\ task[c].step \in Saved
        /\ \/ UNCHANGED <<stock, lost>>
           \/ /\ task[c].step = "set"
              /\ stock' = [stock EXCEPT ![task[c].product] = task[c].counted]
              /\ lost' = [lost EXCEPT ![task[c].product] = 0]
    BY <1>17 DEF SetStock, DelWallet, DelOrders, redis, At, Saved
  <2>. QED BY <2>1, <2>2, <1>14
<1>. QED
  BY <1>0, <1>1, <1>3, <1>4, <1>5, <1>6, <1>7, <1>9, <1>10, <1>11, <1>12, <1>13, <1>15,
     <1>16, <1>17 DEF RedeemStep

-----------------------------------------------------------------------------
(* The redemptions under way.                                              *)

(* A client's new record, and nobody else's.                               *)
LEMMA NewRecord ==
  ASSUME NEW c \in Clients, NEW r, TypeInv, Replaces(c, r)
  PROVE  /\ task'[c] = r
         /\ \A d \in Clients : d # c => task'[d] = task[d]
BY DEF TypeInv, TypeOK, Replaces

(* A client may replace its record by one that fits the tables and shares  *)
(* no order id and no code, when the others' records still fit.            *)
LEMMA UnderWayStep ==
  ASSUME NEW c \in Clients, NEW r, TypeInv, UnderWay, Replaces(c, r),
         Fits(r)', \A d \in Clients : d # c => Fits(task[d])',
         r.step # "idle" /\ r.order # None =>
           \A d \in Clients : d # c => UsedOrder(d) # r.order,
         r.step \in InTx => \A d \in Clients : d # c /\ task[d].step \in InTx =>
                                             task[d].code # r.code
  PROVE  UnderWay'
<1>1. /\ task'[c] = r
      /\ \A d \in Clients : d # c => task'[d] = task[d]
  BY NewRecord
<1>2. OwnOrderIds'
  BY <1>1 DEF UnderWay, OwnOrderIds, UsedOrder, Active
<1>3. OwnCodes'
  BY <1>1 DEF UnderWay, OwnCodes
<1>4. RecordsFit'
  <2> SUFFICES ASSUME NEW d \in Clients PROVE Fits(task[d])'
    BY DEF RecordsFit
  <2>1. CASE d = c
    BY <2>1, <1>1 DEF Fits, EarlyOf, PendingOf, LockedOf, SavedOf
  <2>2. CASE d # c
    BY <2>2
  <2>. QED BY <2>1, <2>2
<1>. QED BY <1>2, <1>3, <1>4 DEF UnderWay

(* A record that fits the tables still does when they have not changed.    *)
LEMMA FitsSame ==
  ASSUME NEW t, Fits(t), codeOrder' = codeOrder, orders' = orders
  PROVE  Fits(t)'
BY DEF Fits, EarlyOf, PendingOf, LockedOf, SavedOf

(* What the invariant says of one client.                                  *)
LEMMA FitsOne ==
  ASSUME NEW c \in Clients, UnderWay
  PROVE  EarlyOf(task[c]) /\ PendingOf(task[c]) /\ LockedOf(task[c]) /\ SavedOf(task[c])
BY DEF UnderWay, RecordsFit, Fits

(* A step that changes neither table keeps the redemptions in order: a     *)
(* fresh order id is nobody's, and SKIP LOCKED skips the others' codes.    *)
LEMMA UnderWayQuiet ==
  ASSUME NEW c \in Clients, NEW r, SaleInv, task[c] \in Task,
         Replaces(c, r), SameCall(c, r), MovesOn(c, r), ~Sells(c, r)
  PROVE  UnderWay'
<1>0. TypeInv /\ UnderWay
  BY DEF SaleInv
<1>1. codeOrder' = codeOrder /\ orders' = orders
  BY DEF MovesOn, Prepares, Takes, Claims, Reads, Aborts, Finishes, mysql
<1>2. \A d \in Clients : d # c => Fits(task[d])'
  <2> SUFFICES ASSUME NEW d \in Clients, d # c PROVE Fits(task[d])'
    OBVIOUS
  <2>1. task'[d] = task[d]
    BY <1>0, NewRecord
  <2>2. Fits(task[d])
    BY <1>0 DEF UnderWay, RecordsFit
  <2>. QED BY <1>1, <2>1, <2>2 DEF Fits, EarlyOf, PendingOf, LockedOf, SavedOf
<1>3. EarlyOf(task[c]) /\ PendingOf(task[c]) /\ LockedOf(task[c]) /\ SavedOf(task[c])
  BY <1>0, FitsOne
<1>4. Active(c) /\ UsedOrder(c) = task[c].order
  BY StepNames DEF Active, UsedOrder, Task, ActiveStep
<1>5. r.order # task[c].order => Takes(c, r)
  BY DEF MovesOn, Prepares, Claims, Reads, Aborts, Finishes, Sells
<1>6. r.order # None => \A d \in Clients : d # c => UsedOrder(d) # r.order
  <2>1. CASE Takes(c, r)
    BY <2>1 DEF Takes, Fresh
  <2>2. CASE r.order = task[c].order
    BY <2>2, <1>0, <1>4 DEF UnderWay, OwnOrderIds
  <2>. QED BY <2>1, <2>2, <1>5
<1>7. Fits(r)
  <2>1. EarlyOf(r)
    BY <1>3 DEF EarlyOf, EarlySteps, MovesOn, Prepares, Takes, Claims, Reads, Aborts, Finishes
  <2>2. PendingOf(r)
    BY <1>3 DEF PendingOf, PendingSteps, MovesOn, Prepares, Takes, Claims, Reads, Aborts,
                Finishes, Fresh
  <2>3. LockedOf(r)
    BY <1>3 DEF LockedOf, InTx, MovesOn, Prepares, Takes, Claims, Reads, Aborts, Finishes,
                Unlocked, Available, SameCall
  <2>4. SavedOf(r)
    BY DEF SavedOf, MovesOn, Prepares, Takes, Claims, Reads, Aborts, Finishes
  <2>. QED BY <2>1, <2>2, <2>3, <2>4 DEF Fits
<1>8. r.step \in InTx => Claims(c, r) \/ Reads(c, r)
  BY DEF InTx, MovesOn, Prepares, Takes, Aborts, Finishes
<1>9. r.step \in InTx => \A d \in Clients : d # c /\ task[d].step \in InTx =>
                                        task[d].code # r.code
  <2>1. CASE Claims(c, r)
    <3> SUFFICES ASSUME NEW d \in Clients, task[d].step \in InTx
                 PROVE  task[d].code # r.code
      OBVIOUS
    <3>1. LockedCode(d) = task[d].code
      BY DEF LockedCode, Active, InTx
    <3>. QED BY <2>1, <3>1 DEF Claims, Unlocked
  <2>2. CASE Reads(c, r)
    BY <2>2, <1>0 DEF Reads, UnderWay, OwnCodes, InTx
  <2>. QED BY <2>1, <2>2, <1>8
<1>10. Fits(r)'
  BY <1>1, <1>7, FitsSame
<1>. QED BY <1>0, <1>2, <1>6, <1>9, <1>10, UnderWayStep

(* What a committing transaction writes to codes and orders.               *)
NewOrder(c) == [id |-> task[c].order, user |-> task[c].user, product |-> task[c].product,
                code |-> task[c].code, key |-> task[c].key]

(* The records of the other redemptions still fit after a sale, and the    *)
(* seller's own is ready to save its key.                                  *)
LEMMA UnderWaySells ==
  ASSUME NEW c \in Clients, NEW r, SaleInv, task[c] \in Task,
         Replaces(c, r), SameCall(c, r), Sells(c, r)
  PROVE  UnderWay'
<1>0. TypeInv /\ UnderWay /\ codeOrder \in [Codes -> OrderIds \cup {None}]
  BY DEF SaleInv, TypeInv, TypeOK
<1>1. /\ codeOrder' = [codeOrder EXCEPT ![task[c].code] = task[c].order]
      /\ orders' = orders \cup {NewOrder(c)}
      /\ r.order = task[c].order /\ r.step \in {"save", "count", "incr"}
  BY DEF Sells, SaleWrites, NewOrder
<1>2. /\ task[c].step \in InTx /\ task[c].code \in Codes /\ task[c].order \in OrderIds
  BY <1>0 DEF Sells, InTx, TypeInv, LocalsOK, LocalsOf, Taken
<1>3. UsedOrder(c) = task[c].order /\ task[c].order # None
  BY <1>2, NoneAssumption DEF UsedOrder, Active, InTx
<1>4. ASSUME NEW d \in Clients, d # c PROVE Fits(task[d])'
  <2> DEFINE t == task[d]
  <2>0. task'[d] = t /\ EarlyOf(t) /\ PendingOf(t) /\ LockedOf(t) /\ SavedOf(t)
    BY <1>0, <1>4, NewRecord, FitsOne
  <2>1. PendingOf(task[d])'
    <3> SUFFICES ASSUME t.step \in PendingSteps PROVE \A x \in orders' : x.id # t.order
      BY <2>0 DEF PendingOf
    <3>1. UsedOrder(d) = t.order
      BY DEF UsedOrder, Active, PendingSteps
    <3>2. t.order # task[c].order
      BY <1>0, <1>3, <1>4, <3>1 DEF UnderWay, OwnOrderIds
    <3>3. NewOrder(c).id = task[c].order
      BY DEF NewOrder
    <3>. QED BY <1>1, <2>0, <3>2, <3>3 DEF PendingOf
  <2>2. LockedOf(task[d])'
    <3> SUFFICES ASSUME t.step \in InTx
                 PROVE  codeOrder'[t.code] = None /\ ProductOf[t.code] = t.product
      BY <2>0 DEF LockedOf
    <3>1. t.code \in Codes
      BY <1>0 DEF TypeInv, LocalsOK, LocalsOf
    <3>2. t.code # task[c].code
      BY <1>0, <1>2, <1>4 DEF UnderWay, OwnCodes
    <3>. QED BY <1>0, <1>1, <2>0, <3>1, <3>2 DEF LockedOf
  <2>3. SavedOf(task[d])'
    BY <1>1, <2>0 DEF SavedOf
  <2>. QED BY <2>0, <2>1, <2>2, <2>3 DEF Fits, EarlyOf
<1>5. Fits(r)'
  <2>1. SavedOf(r)'
    <3>1. /\ NewOrder(c).id = r.order /\ NewOrder(c).user = r.user
          /\ NewOrder(c).key = r.key
      BY <1>1 DEF NewOrder, SameCall
    <3>2. NewOrder(c) \in orders'
      BY <1>1
    <3>. QED BY <3>1, <3>2 DEF SavedOf
  <2>. QED BY <2>1, <1>1 DEF Fits, EarlyOf, PendingOf, LockedOf, EarlySteps, PendingSteps, InTx
<1>6. \A d \in Clients : d # c => UsedOrder(d) # r.order
  BY <1>0, <1>1, <1>3 DEF UnderWay, OwnOrderIds
<1>. QED BY <1>0, <1>1, <1>4, <1>5, <1>6, UnderWayStep DEF InTx

-----------------------------------------------------------------------------
(* Codes, orders and ledger.                                               *)

(* What Append does to length and rows.                                    *)
LEMMA AppendFacts ==
  ASSUME NEW S, NEW s \in Seq(S), NEW e \in S
  PROVE  /\ Append(s, e) \in Seq(S)
         /\ Len(s) \in Nat
         /\ Len(Append(s, e)) = Len(s) + 1
         /\ Append(s, e)[Len(s) + 1] = e
         /\ \A i \in 1..Len(s) : Append(s, e)[i] = s[i]
OBVIOUS

(* The ledger of the buyer grows at its end, by the grant if this          *)
(* transaction opens the wallet, and by the expense.                       *)
LEMMA SaleLedger ==
  ASSUME NEW c \in Clients, TypeOK, task[c] \in Task, task[c].order \in OrderIds,
         SaleWrites(c)
  PROVE  LET u == task[c].user
             n == Len(ledger'[u])
         IN  /\ \A v \in Users : v # u => ledger'[v] = ledger[v]
             /\ Len(ledger[u]) \in Nat /\ n \in Nat /\ n > Len(ledger[u])
             /\ \A i \in 1..Len(ledger[u]) : ledger'[u][i] = ledger[u][i]
             /\ \A i \in 1..n : i > Len(ledger[u]) /\ i # n => ledger'[u][i].ref = None
             /\ ledger'[u][n].ref = task[c].order
             /\ ledger'[u][n].amount = -Price[task[c].product]
<1> DEFINE t == task[c]
           u == t.user
           price == Price[t.product]
           grant == [ref |-> None, amount |-> Grant, after |-> Grant]
           expense == [ref |-> t.order, amount |-> -price, after |-> Funds(t.seen) - price]
           before == IF Opening(t.seen) THEN Append(ledger[u], grant) ELSE ledger[u]
<1>1. u \in Users /\ t.product \in Products /\ t.seen \in Wallet
  BY DEF Task
<1>2. ledger[u] \in Seq(Entry) /\ Len(ledger[u]) \in Nat
  BY <1>1 DEF TypeOK
<1>3. ledger' = [ledger EXCEPT ![u] = Append(before, expense)]
  BY DEF SaleWrites
<1>4. ledger'[u] = Append(before, expense) /\ \A v \in Users : v # u => ledger'[v] = ledger[v]
  BY <1>1, <1>3 DEF TypeOK
<1>5. grant \in Entry /\ expense \in Entry
  <2>1. price \in Nat
    BY <1>1, PriceAssumption
  <2>2. Funds(t.seen) \in Nat
    BY <1>1, AmountsAssumption DEF Funds, Opening, Wallet
  <2>. QED BY <2>1, <2>2, AmountsAssumption DEF Entry
<1>6. before \in Seq(Entry)
  BY <1>2, <1>5
<1>7. /\ Len(before) \in Nat /\ Len(before) >= Len(ledger[u])
      /\ \A i \in 1..Len(ledger[u]) : before[i] = ledger[u][i]
      /\ \A i \in 1..Len(before) : i > Len(ledger[u]) => before[i] = grant
  <2>1. CASE Opening(t.seen)
    <3>1. before = Append(ledger[u], grant)
      BY <2>1
    <3>2. /\ Len(before) = Len(ledger[u]) + 1
          /\ before[Len(ledger[u]) + 1] = grant
          /\ \A i \in 1..Len(ledger[u]) : before[i] = ledger[u][i]
      BY <3>1, <1>2, <1>5, AppendFacts
    <3>. HIDE DEF before, grant, u
    <3>. QED BY <3>2, <1>2
  <2>2. CASE ~Opening(t.seen)
    BY <2>2, <1>2
  <2>. QED BY <2>1, <2>2
<1>8. expense.ref = t.order /\ expense.amount = -price /\ grant.ref = None
  OBVIOUS
<1>. HIDE DEF before, expense, grant
<1>9. /\ Len(ledger'[u]) = Len(before) + 1
      /\ ledger'[u][Len(before) + 1] = expense
      /\ \A i \in 1..Len(before) : ledger'[u][i] = before[i]
  BY <1>4, <1>5, <1>6
<1>. QED BY <1>2, <1>4, <1>7, <1>8, <1>9

(* A sale keeps codes, orders and ledger in agreement: the order's id and  *)
(* code are new, and so is the reference of its expense row.               *)
LEMMA SaleConsistentSells ==
  ASSUME NEW c \in Clients, SaleInv, task[c] \in Task, task[c].step = "commit",
         SaleWrites(c)
  PROVE  SaleConsistent'
<1> DEFINE t == task[c]
           u == t.user
<1>. PICK x0 : x0 = NewOrder(c)
  OBVIOUS
<1>. PICK n : n = Len(ledger'[u])
  OBVIOUS
<1>0. TypeInv /\ TypeOK /\ UnderWay /\ SaleConsistent
  BY DEF SaleInv, TypeInv
<1>1. /\ t.code \in Codes /\ t.order \in OrderIds /\ u \in Users
      /\ t.step \in InTx /\ t.step \in PendingSteps
  BY <1>0, StepNames DEF TypeInv, LocalsOK, LocalsOf, InTx, PendingSteps, Task
<1>2. /\ codeOrder[t.code] = None /\ ProductOf[t.code] = t.product
      /\ \A x \in orders : x.id # t.order
  BY <1>0, <1>1, FitsOne DEF LockedOf, PendingOf
<1>3. /\ codeOrder' = [codeOrder EXCEPT ![t.code] = t.order]
      /\ orders' = orders \cup {x0}
  BY DEF SaleWrites, NewOrder
<1>4. /\ x0.id = t.order /\ x0.user = u /\ x0.product = t.product /\ x0.code = t.code
  BY DEF NewOrder
<1>5. /\ \A v \in Users : v # u => ledger'[v] = ledger[v]
      /\ Len(ledger[u]) \in Nat /\ n \in Nat /\ n > Len(ledger[u])
      /\ \A i \in 1..Len(ledger[u]) : ledger'[u][i] = ledger[u][i]
      /\ \A i \in 1..n : i > Len(ledger[u]) /\ i # n => ledger'[u][i].ref = None
      /\ ledger'[u][n].ref = t.order
      /\ ledger'[u][n].amount = -Price[t.product]
  BY <1>0, <1>1, SaleLedger
<1>6. orders \subseteq Order /\ codeOrder \in [Codes -> OrderIds \cup {None}]
  BY <1>0 DEF TypeOK
<1>7. \A x \in orders : x.code # t.code
  <2> SUFFICES ASSUME NEW x \in orders PROVE x.code # t.code
    OBVIOUS
  <2>1. codeOrder[x.code] = x.id /\ x.id \in OrderIds
    BY <1>0, <1>6 DEF SaleConsistent, Order
  <2>. QED BY <2>1, <1>2, NoneAssumption
<1>8. \A x \in orders : /\ x.user \in Users /\ x.code \in Codes /\ x.id \in OrderIds
  BY <1>6 DEF Order
<1>. HIDE DEF u, t
<1>9. \A x, y \in orders' : x.id = y.id \/ x.code = y.code => x = y
  BY <1>0, <1>2, <1>3, <1>4, <1>7 DEF SaleConsistent
<1>10. \A v \in Users : Len(ledger[v]) \in Nat /\ Len(ledger'[v]) \in Nat
                        /\ Len(ledger'[v]) >= Len(ledger[v])
                        /\ \A i \in 1..Len(ledger[v]) : ledger'[v][i] = ledger[v][i]
  <2> SUFFICES ASSUME NEW v \in Users
               PROVE  /\ Len(ledger[v]) \in Nat /\ Len(ledger'[v]) \in Nat
                      /\ Len(ledger'[v]) >= Len(ledger[v])
                      /\ \A i \in 1..Len(ledger[v]) : ledger'[v][i] = ledger[v][i]
    OBVIOUS
  <2>1. CASE v = u
    BY <2>1, <1>5
  <2>2. CASE v # u
    <3>1. ledger'[v] = ledger[v] /\ ledger[v] \in Seq(Entry)
      BY <2>2, <1>0, <1>5 DEF TypeOK
    <3>. QED BY <3>1
  <2>. QED BY <2>1, <2>2
<1>11. \A x \in orders' : /\ codeOrder'[x.code] = x.id
                          /\ ProductOf[x.code] = x.product
                          /\ \E i \in 1..Len(ledger'[x.user]) : IsExpense(x.user, i, x)'
  <2> SUFFICES ASSUME NEW x \in orders'
               PROVE  /\ codeOrder'[x.code] = x.id
                      /\ ProductOf[x.code] = x.product
                      /\ \E i \in 1..Len(ledger'[x.user]) : IsExpense(x.user, i, x)'
    OBVIOUS
  <2>1. CASE x = x0
    <3>1. IsExpense(x.user, n, x)'
      BY <2>1, <1>4, <1>5 DEF IsExpense
    <3>2. n \in 1..Len(ledger'[x.user])
      BY <2>1, <1>4, <1>5
    <3>3. codeOrder'[x.code] = x.id /\ ProductOf[x.code] = x.product
      BY <2>1, <1>1, <1>2, <1>3, <1>4, <1>6
    <3>. QED BY <3>1, <3>2, <3>3
  <2>2. CASE x # x0
    <3>1. x \in orders
      BY <2>2, <1>3
    <3>2. codeOrder'[x.code] = x.id /\ ProductOf[x.code] = x.product
      BY <3>1, <1>0, <1>3, <1>6, <1>7, <1>8 DEF SaleConsistent
    <3>3. PICK i \in 1..Len(ledger[x.user]) : IsExpense(x.user, i, x)
      BY <3>1, <1>0 DEF SaleConsistent
    <3>4. ledger'[x.user][i] = ledger[x.user][i] /\ i \in 1..Len(ledger'[x.user])
      BY <3>1, <3>3, <1>8, <1>10
    <3>5. IsExpense(x.user, i, x)'
      BY <3>3, <3>4 DEF IsExpense
    <3>. QED BY <3>2, <3>4, <3>5
  <2>. QED BY <2>1, <2>2
<1>12. \A k \in Codes : codeOrder'[k] # None =>
         \E x \in orders' : x.code = k /\ x.id = codeOrder'[k]
  <2> SUFFICES ASSUME NEW k \in Codes, codeOrder'[k] # None
               PROVE  \E x \in orders' : x.code = k /\ x.id = codeOrder'[k]
    OBVIOUS
  <2>1. CASE k = t.code
    BY <2>1, <1>1, <1>3, <1>4, <1>6
  <2>2. CASE k # t.code
    <3>1. codeOrder'[k] = codeOrder[k]
      BY <2>2, <1>3, <1>6
    <3>. QED BY <3>1, <1>0, <1>3 DEF SaleConsistent
  <2>. QED BY <2>1, <2>2
<1>13. ASSUME NEW v \in Users, NEW i \in 1..Len(ledger'[v]), ledger'[v][i].ref # None
       PROVE  \/ i \in 1..Len(ledger[v]) /\ ledger'[v][i] = ledger[v][i]
              \/ v = u /\ i = n /\ ledger'[v][i].ref = t.order
  <2>1. CASE v = u
    BY <2>1, <1>5, <1>13, <1>10
  <2>2. CASE v # u
    BY <2>2, <1>5, <1>13, <1>10
  <2>. QED BY <2>1, <2>2
<1>14. \A v \in Users : \A i \in 1..Len(ledger[v]) :
         ledger[v][i].ref # None => ledger[v][i].ref # t.order
  BY <1>0, <1>2 DEF SaleConsistent, IsExpense
<1>15. ASSUME NEW v \in Users, NEW i \in 1..Len(ledger'[v]), ledger'[v][i].ref # None
       PROVE  /\ \E x \in orders' : IsExpense(v, i, x)'
              /\ \A j \in 1..Len(ledger'[v]) : ledger'[v][j].ref = ledger'[v][i].ref => i = j
  <2>1. CASE i \in 1..Len(ledger[v]) /\ ledger'[v][i] = ledger[v][i]
    <3>1. PICK x \in orders : IsExpense(v, i, x)
      BY <2>1, <1>0, <1>15 DEF SaleConsistent
    <3>2. IsExpense(v, i, x)' /\ x \in orders'
      BY <3>1, <2>1, <1>3 DEF IsExpense
    <3>3. \A j \in 1..Len(ledger'[v]) : ledger'[v][j].ref = ledger'[v][i].ref => i = j
      <4> SUFFICES ASSUME NEW j \in 1..Len(ledger'[v]), ledger'[v][j].ref = ledger'[v][i].ref
                   PROVE  i = j
        OBVIOUS
      <4>1. \/ j \in 1..Len(ledger[v]) /\ ledger'[v][j] = ledger[v][j]
            \/ ledger'[v][j].ref = t.order
        BY <1>13, <1>15
      <4>2. ledger[v][i].ref # t.order
        BY <2>1, <1>14, <1>15
      <4>. QED BY <4>1, <4>2, <2>1, <1>0, <1>15 DEF SaleConsistent
    <3>. QED BY <3>2, <3>3
  <2>2. CASE v = u /\ i = n /\ ledger'[v][i].ref = t.order
    <3>1. x0 \in orders' /\ IsExpense(v, i, x0)'
      BY <2>2, <1>3, <1>4, <1>5 DEF IsExpense
    <3>2. \A j \in 1..Len(ledger'[v]) : ledger'[v][j].ref = ledger'[v][i].ref => i = j
      <4> SUFFICES ASSUME NEW j \in 1..Len(ledger'[v]), ledger'[v][j].ref = ledger'[v][i].ref
                   PROVE  i = j
        OBVIOUS
      <4>1. \/ j \in 1..Len(ledger[v]) /\ ledger'[v][j] = ledger[v][j]
            \/ j = n
        BY <1>13, <1>15
      <4>. QED BY <4>1, <2>2, <1>14, <1>15
    <3>. QED BY <3>1, <3>2
  <2>. QED BY <2>1, <2>2, <1>13, <1>15
<1>. QED BY <1>9, <1>11, <1>12, <1>15 DEF SaleConsistent

(* Codes, orders and the ledger rows they rest on have not changed.        *)
LEMMA SaleConsistentQuiet ==
  ASSUME SaleConsistent, codeOrder' = codeOrder, orders' = orders, ledger' = ledger
  PROVE  SaleConsistent'
BY DEF SaleConsistent, IsExpense

(* A row without a reference (a grant, an earning) leaves the sales alone. *)
LEMMA SaleConsistentBook ==
  ASSUME TypeOK, SaleConsistent, NEW u \in Users, NEW e \in Entry, e.ref = None,
         codeOrder' = codeOrder, orders' = orders,
         ledger' = [ledger EXCEPT ![u] = Append(@, e)]
  PROVE  SaleConsistent'
<1>1. \A v \in Users : ledger[v] \in Seq(Entry) /\ Len(ledger[v]) \in Nat
  BY DEF TypeOK
<1>2. ledger'[u] = Append(ledger[u], e) /\ \A v \in Users : v # u => ledger'[v] = ledger[v]
  BY DEF TypeOK
<1>3. ASSUME NEW v \in Users
      PROVE  /\ \A i \in 1..Len(ledger[v]) : /\ i \in 1..Len(ledger'[v])
                                             /\ ledger'[v][i] = ledger[v][i]
             /\ \A i \in 1..Len(ledger'[v]) : i \in 1..Len(ledger[v]) \/ ledger'[v][i].ref = None
  <2>1. CASE v = u
    <3>1. /\ Len(ledger'[v]) = Len(ledger[v]) + 1
          /\ ledger'[v][Len(ledger[v]) + 1] = e
          /\ \A i \in 1..Len(ledger[v]) : ledger'[v][i] = ledger[v][i]
      BY <2>1, <1>1, <1>2
    <3>. QED BY <3>1, <1>1
  <2>2. CASE v # u
    BY <2>2, <1>2
  <2>. QED BY <2>1, <2>2
<1>4. \A x \in orders : x.user \in Users
  BY DEF TypeOK, Order
<1>5. \A x \in orders' : \E i \in 1..Len(ledger'[x.user]) : IsExpense(x.user, i, x)'
  <2> SUFFICES ASSUME NEW x \in orders
               PROVE  \E i \in 1..Len(ledger'[x.user]) : IsExpense(x.user, i, x)'
    OBVIOUS
  <2>1. PICK i \in 1..Len(ledger[x.user]) : IsExpense(x.user, i, x)
    BY DEF SaleConsistent
  <2>2. i \in 1..Len(ledger'[x.user]) /\ IsExpense(x.user, i, x)'
    BY <2>1, <1>3, <1>4 DEF IsExpense
  <2>. QED BY <2>2
<1>6. ASSUME NEW v \in Users, NEW i \in 1..Len(ledger'[v]), ledger'[v][i].ref # None
      PROVE  /\ \E x \in orders' : IsExpense(v, i, x)'
             /\ \A j \in 1..Len(ledger'[v]) : ledger'[v][j].ref = ledger'[v][i].ref => i = j
  <2>1. i \in 1..Len(ledger[v]) /\ ledger'[v][i] = ledger[v][i]
    BY <1>3, <1>6
  <2>2. PICK x \in orders : IsExpense(v, i, x)
    BY <2>1, <1>6 DEF SaleConsistent
  <2>3. \A j \in 1..Len(ledger'[v]) : ledger'[v][j].ref = ledger'[v][i].ref => i = j
    BY <2>1, <1>3, <1>6 DEF SaleConsistent
  <2>. QED BY <2>1, <2>2, <2>3 DEF IsExpense
<1>. QED BY <1>5, <1>6 DEF SaleConsistent

-----------------------------------------------------------------------------
(* Idempotency keys.                                                       *)

(* A recorded key leads to its order after every step of Redeem: SaveIdem  *)
(* records an order of the caller, and orders are never deleted.           *)
LEMMA IdemRedeem ==
  ASSUME NEW c \in Clients, NEW r, SaleInv, task[c] \in Task, MovesOn(c, r)
  PROVE  RecordedOrderIsOwn'
<1>0. TypeOK /\ UnderWay /\ RecordedOrderIsOwn
  BY DEF SaleInv, TypeInv
<1>1. orders \subseteq orders'
  BY DEF MovesOn, Prepares, Takes, Claims, Reads, Aborts, Finishes, Sells, SaleWrites, mysql
<1>2. SUFFICES ASSUME NEW u \in Users, NEW k \in Keys, idem'[u][k] # None
               PROVE  \E x \in orders : x.id = idem'[u][k] /\ x.user = u /\ x.key = k
  BY <1>1 DEF RecordedOrderIsOwn
<1>3. CASE UNCHANGED idem
  BY <1>0, <1>2, <1>3 DEF RecordedOrderIsOwn
<1>4. CASE /\ task[c].step = "save"
           /\ idem' = [idem EXCEPT ![task[c].user][task[c].key] = task[c].order]
  <2>1. CASE u = task[c].user /\ k = task[c].key
    <3>1. idem'[u][k] = task[c].order
      BY <1>0, <1>4, <2>1 DEF TypeOK
    <3>. QED BY <3>1, <2>1, <1>0, <1>4, FitsOne DEF SavedOf
  <2>2. CASE ~(u = task[c].user /\ k = task[c].key)
    <3>1. idem'[u][k] = idem[u][k]
      BY <1>0, <1>4, <2>2 DEF TypeOK
    <3>. QED BY <3>1, <1>0, <1>2 DEF RecordedOrderIsOwn
  <2>. QED BY <2>1, <2>2
<1>. QED
  BY <1>3, <1>4 DEF MovesOn, Prepares, Takes, Claims, Reads, Aborts, Finishes, Sells

-----------------------------------------------------------------------------
(* The inductive step.                                                     *)

(* Nothing that the invariant is about has changed.                        *)
LEMMA SaleQuiet ==
  ASSUME SaleInv, TypeInv', UNCHANGED <<codeOrder, orders, ledger, idem, task>>
  PROVE  SaleInv'
<1>1. UnderWay'
  BY DEF SaleInv, UnderWay, OwnOrderIds, OwnCodes, RecordsFit, Fits, EarlyOf, PendingOf,
         LockedOf, SavedOf, UsedOrder, Active
<1>2. RecordedOrderIsOwn'
  BY DEF SaleInv, RecordedOrderIsOwn
<1>. QED BY <1>1, <1>2, SaleConsistentQuiet DEF SaleInv

(* A client that is idle again, or has just arrived, has no order id and   *)
(* no code.                                                                *)
LEMMA UnderWayReset ==
  ASSUME NEW c \in Clients, NEW r, TypeInv, UnderWay, Replaces(c, r),
         r = Idle \/ (r.step \in {"idem", "lock"} /\ r.order = None),
         codeOrder' = codeOrder, orders' = orders
  PROVE  UnderWay'
<1>1. Idle.step = "idle"
  BY DEF Idle
<1>2. Fits(r)'
  BY <1>1 DEF Fits, EarlyOf, PendingOf, LockedOf, SavedOf, EarlySteps, PendingSteps, InTx
<1>3. \A d \in Clients : d # c => Fits(task[d])'
  <2> SUFFICES ASSUME NEW d \in Clients, d # c PROVE Fits(task[d])'
    OBVIOUS
  <2>1. task'[d] = task[d] /\ Fits(task[d])
    BY NewRecord DEF UnderWay, RecordsFit
  <2>. QED BY <2>1 DEF Fits, EarlyOf, PendingOf, LockedOf, SavedOf
<1>4. r.step \notin InTx /\ (r.step # "idle" => r.order = None)
  BY <1>1 DEF InTx
<1>. QED BY <1>2, <1>3, <1>4, UnderWayStep

(* A step of Redeem keeps the invariant.                                   *)
LEMMA SaleRedeem ==
  ASSUME NEW c \in Clients, SaleInv, TypeInv', RedeemStep(c)
  PROVE  SaleInv'
<1>0. TypeInv /\ TypeOK /\ UnderWay /\ SaleConsistent /\ RecordedOrderIsOwn /\ task[c] \in Task
  BY RedeemKinds DEF SaleInv, TypeInv
<1>1. CASE Leaves(c)
  <2>1. UNCHANGED <<codeOrder, orders, ledger, idem>>
    BY <1>1 DEF Leaves, mysql
  <2>2. UnderWay'
    BY <1>0, <1>1, <2>1, UnderWayReset DEF Leaves
  <2>3. RecordedOrderIsOwn'
    BY <1>0, <2>1 DEF RecordedOrderIsOwn
  <2>. QED BY <1>0, <2>1, <2>2, <2>3, SaleConsistentQuiet DEF SaleInv
<1>2. ASSUME NEW r, Replaces(c, r), SameCall(c, r), MovesOn(c, r)
      PROVE  SaleInv'
  <2>1. RecordedOrderIsOwn'
    BY <1>0, <1>2, IdemRedeem
  <2>2. CASE Sells(c, r)
    <3>1. UnderWay'
      BY <1>0, <1>2, <2>2, UnderWaySells
    <3>2. SaleConsistent'
      BY <1>0, <2>2, SaleConsistentSells DEF Sells
    <3>. QED BY <2>1, <3>1, <3>2 DEF SaleInv
  <2>3. CASE ~Sells(c, r)
    <3>1. UnderWay'
      BY <1>0, <1>2, <2>3, UnderWayQuiet
    <3>2. codeOrder' = codeOrder /\ orders' = orders /\ ledger' = ledger
      BY <1>2, <2>3 DEF MovesOn, Prepares, Takes, Claims, Reads, Aborts, Finishes, mysql
    <3>. QED BY <1>0, <2>1, <3>1, <3>2, SaleConsistentQuiet DEF SaleInv
  <2>. QED BY <2>2, <2>3
<1>. QED BY <1>1, <1>2, RedeemKinds, <1>0

(* Every step of the component keeps the invariant.                        *)
LEMMA SaleNext == SaleInv /\ [Next]_vars => SaleInv'
<1> SUFFICES ASSUME SaleInv, [Next]_vars PROVE SaleInv'
  OBVIOUS
<1>0. TypeInv /\ TypeOK /\ UnderWay /\ SaleConsistent /\ RecordedOrderIsOwn /\ TypeInv'
  BY TypeNext DEF SaleInv, TypeInv
<1>1. ASSUME NEW c \in Clients, NEW u \in Users, NEW p \in Products,
             NEW k \in Keys \cup {NoKey}, Arrive(c, u, p, k)
      PROVE  SaleInv'
  <2> DEFINE s == IF k = NoKey THEN "lock" ELSE "idem"
             r == [step |-> s, user |-> u, product |-> p, key |-> k, order |-> None,
                   code |-> None, seen |-> NoWallet, counted |-> 0, outcome |-> "none"]
  <2>1. Replaces(c, r) /\ r.step \in {"idem", "lock"} /\ r.order = None
    BY <1>1 DEF Arrive, Replaces
  <2>2. UNCHANGED <<codeOrder, orders, ledger, idem>>
    BY <1>1 DEF Arrive, mysql, redis
  <2>. HIDE DEF r
  <2>3. UnderWay'
    BY <1>0, <2>1, <2>2, UnderWayReset
  <2>4. RecordedOrderIsOwn'
    BY <1>0, <2>2 DEF RecordedOrderIsOwn
  <2>. QED BY <1>0, <2>2, <2>3, <2>4, SaleConsistentQuiet DEF SaleInv
<1>2. ASSUME NEW c \in Clients, RedeemStep(c) PROVE SaleInv'
  BY <1>0, <1>2, SaleRedeem
<1>3. ASSUME NEW u \in Users, OpenWallet(u) \/ Earn(u) PROVE SaleInv'
  <2>1. PICK e \in Entry : /\ e.ref = None
                           /\ ledger' = [ledger EXCEPT ![u] = Append(@, e)]
    <3> DEFINE e1 == [ref |-> None, amount |-> Grant, after |-> Grant]
               e2 == [ref |-> None, amount |-> EarnAmount,
                      after |-> wallet[u].balance + EarnAmount]
    <3>1. wallet[u].balance \in Nat
      BY <1>0 DEF TypeOK, Wallet
    <3>2. e1 \in Entry /\ e2 \in Entry /\ e1.ref = None /\ e2.ref = None
      BY <3>1, AmountsAssumption DEF Entry
    <3>. QED BY <1>3, <3>2 DEF OpenWallet, Earn
  <2>2. UNCHANGED <<codeOrder, orders, idem, task>>
    BY <1>3 DEF OpenWallet, Earn, redis
  <2>3. SaleConsistent'
    BY <1>0, <2>1, <2>2, SaleConsistentBook
  <2>4. RecordedOrderIsOwn'
    BY <1>0, <2>2 DEF RecordedOrderIsOwn
  <2>5. UnderWay'
    BY <1>0, <2>2 DEF UnderWay, OwnOrderIds, OwnCodes, RecordsFit, Fits, EarlyOf, PendingOf,
                      LockedOf, SavedOf, UsedOrder, Active
  <2>. QED BY <1>0, <2>3, <2>4, <2>5 DEF SaleInv
<1>4. ASSUME NEW u \in Users,
             LockExpires(u) \/ OrdersExpire(u) \/ WalletExpires(u) \/ EarnInvalidates(u)
      PROVE  SaleInv'
  BY <1>0, <1>4, SaleQuiet
     DEF LockExpires, OrdersExpire, WalletExpires, EarnInvalidates, mysql, redis
<1>5. ASSUME NEW v \in Readers, NEW u \in Users, OrdersMiss(v, u) \/ WarmWallet(v, u)
      PROVE  SaleInv'
  BY <1>0, <1>5, SaleQuiet DEF OrdersMiss, WarmWallet, mysql, redis
<1>6. ASSUME NEW v \in Readers, ReaderStep(v) PROVE SaleInv'
  BY <1>0, <1>6, SaleQuiet DEF ReaderStep, ReadOrders, FillOrders, FillWallet, mysql, redis
<1>7. CASE CrashRestart
  <2>1. UNCHANGED <<codeOrder, orders, ledger, idem>> /\ task' = [c \in Clients |-> Idle]
    BY <1>7 DEF CrashRestart, mysql
  <2>2. UnderWay'
    BY <2>1 DEF UnderWay, OwnOrderIds, OwnCodes, RecordsFit, Fits, EarlyOf, PendingOf,
                LockedOf, SavedOf, UsedOrder, Active, Idle, EarlySteps, PendingSteps, InTx
  <2>3. RecordedOrderIsOwn'
    BY <1>0, <2>1 DEF RecordedOrderIsOwn
  <2>. QED BY <1>0, <2>1, <2>2, <2>3, SaleConsistentQuiet DEF SaleInv
<1>8. CASE UNCHANGED vars
  BY <1>0, <1>8, SaleQuiet DEF vars, mysql, redis
<1>. QED BY <1>1, <1>2, <1>3, <1>4, <1>5, <1>6, <1>7, <1>8 DEF Next

(* The empty shop.                                                         *)
LEMMA SaleInit == Init => SaleInv
<1> SUFFICES ASSUME Init PROVE SaleInv
  OBVIOUS
<1>1. UnderWay
  BY DEF Init, UnderWay, OwnOrderIds, OwnCodes, RecordsFit, Fits, EarlyOf, PendingOf,
         LockedOf, SavedOf, UsedOrder, Active, Idle, EarlySteps, PendingSteps, InTx
<1>2. SaleConsistent
  <2>1. \A u \in Users : ledger[u] = <<>>
    BY DEF Init
  <2>. QED BY <2>1 DEF Init, SaleConsistent
<1>3. RecordedOrderIsOwn
  BY DEF Init, RecordedOrderIsOwn
<1>. QED BY <1>1, <1>2, <1>3, TypeInit DEF SaleInv

(* The invariant holds in every behaviour.                                 *)
LEMMA SaleInvHolds == Spec => []SaleInv
BY SaleInit, SaleNext, PTL DEF Spec

(* Codes, orders and ledger agree, whatever expires, fails, is lost or     *)
(* crashes, for any number of clients, users, products and codes.          *)
THEOREM SaleConsistentHolds == Spec => []SaleConsistent
<1>1. SaleInv => SaleConsistent
  BY DEF SaleInv
<1>. QED BY <1>1, SaleInvHolds, PTL

(* The order an idempotency key leads to is its user's own, placed with    *)
(* that key, even though Redeem returns it without looking.                *)
THEOREM RecordedOrderIsOwnHolds == Spec => []RecordedOrderIsOwn
<1>1. SaleInv => RecordedOrderIsOwn
  BY DEF SaleInv
<1>. QED BY <1>1, SaleInvHolds, PTL

-----------------------------------------------------------------------------
(* An error means no sale, as long as the reply of COMMIT is not lost.     *)

ErrorOf(t) == t.step # "idle" /\ t.outcome \notin {"none", "ok"} =>
                \A x \in orders : x.id # t.order

(* A step of Redeem that answers with an error has not sold, and a sale of *)
(* somebody else has an order id of its own.                               *)
LEMMA ErrorRedeem ==
  ASSUME ~CommitLost, NEW c \in Clients, SaleInv, ErrorMeansNoSale, RedeemStep(c)
  PROVE  ErrorMeansNoSale'
<1>0. TypeInv /\ TypeOK /\ UnderWay /\ task[c] \in Task
  BY RedeemKinds DEF SaleInv, TypeInv
<1>1. \A d \in Clients : ErrorOf(task[d])
  BY DEF ErrorMeansNoSale, ErrorOf, Active
<1>2. SUFFICES \A d \in Clients : ErrorOf(task[d])'
  BY DEF ErrorMeansNoSale, ErrorOf, Active
<1>3. CASE Leaves(c)
  <2>1. orders' = orders /\ Replaces(c, Idle)
    BY <1>3 DEF Leaves, mysql
  <2>2. /\ task'[c] = Idle
        /\ \A d \in Clients : d # c => task'[d] = task[d]
    BY <1>0, <2>1, NewRecord
  <2>3. Idle.step = "idle"
    BY DEF Idle
  <2>. QED BY <1>1, <2>1, <2>2, <2>3 DEF ErrorOf
<1>4. ASSUME NEW r, Replaces(c, r), SameCall(c, r), MovesOn(c, r), NEW d \in Clients
      PROVE  ErrorOf(task[d])'
  <2>0. /\ task'[c] = r
        /\ \A e \in Clients : e # c => task'[e] = task[e]
    BY <1>0, <1>4, NewRecord
  <2>1. CASE Sells(c, r)
    <3>1. orders' = orders \cup {NewOrder(c)} /\ NewOrder(c).id = task[c].order
      BY <2>1 DEF Sells, SaleWrites, NewOrder
    <3>2. r.outcome = "ok"
      BY <2>1 DEF Sells
    <3>3. CASE d = c
      BY <3>2, <3>3, <2>0 DEF ErrorOf
    <3>4. CASE d # c
      <4>1. UsedOrder(c) = task[c].order /\ task[c].order # None
        BY <1>0, <2>1, NoneAssumption
           DEF Sells, UsedOrder, Active, TypeInv, LocalsOK, LocalsOf, Taken, InTx
      <4>2. task[d].step # "idle" => task[d].order # task[c].order
        BY <4>1, <3>4, <1>0 DEF UnderWay, OwnOrderIds, UsedOrder, Active
      <4>3. task'[d] = task[d] /\ ErrorOf(task[d])
        BY <3>4, <2>0, <1>1
      <4>. QED BY <3>1, <4>2, <4>3 DEF ErrorOf
    <3>. QED BY <3>3, <3>4
  <2>2. CASE ~Sells(c, r)
    <3>1. orders' = orders
      BY <1>4, <2>2 DEF MovesOn, Prepares, Takes, Claims, Reads, Aborts, Finishes, mysql
    <3>2. CASE d # c
      BY <3>1, <3>2, <2>0, <1>1 DEF ErrorOf
    <3>3. CASE d = c
      <4>1. task[c].step # "idle" /\ ErrorOf(task[c])
        BY <1>0, <1>1, StepNames DEF Task, ActiveStep
      <4>2. EarlyOf(task[c]) /\ PendingOf(task[c])
        BY <1>0, FitsOne
      <4>3. \A x \in orders : x.id # None
        BY <1>0, NoneAssumption DEF TypeOK, Order
      <4>4. ErrorOf(r)
        <5>1. CASE Prepares(c, r)
          BY <5>1, <4>2, <4>3 DEF Prepares, ErrorOf, EarlyOf
        <5>2. CASE Takes(c, r)
          BY <5>2 DEF Takes, Fresh, ErrorOf
        <5>3. CASE Claims(c, r) \/ Reads(c, r) \/ Aborts(c, r)
          BY <5>3, <4>2 DEF Claims, Reads, Aborts, PendingOf, PendingSteps, ErrorOf
        <5>4. CASE Finishes(c, r)
          BY <5>4, <4>1 DEF Finishes, ErrorOf
        <5>. QED BY <5>1, <5>2, <5>3, <5>4, <2>2, <1>4 DEF MovesOn
      <4>. QED BY <4>4, <3>1, <3>3, <2>0 DEF ErrorOf
    <3>. QED BY <3>2, <3>3
  <2>. QED BY <2>1, <2>2
<1>. QED BY <1>3, <1>4, RedeemKinds, <1>0

(* A step that leaves orders alone, and the records but for new arrivals   *)
(* and restarts.                                                           *)
LEMMA ErrorQuiet ==
  ASSUME ErrorMeansNoSale, orders' = orders,
         \A d \in Clients : \/ task'[d] = task[d]
                            \/ task'[d].step = "idle"
                            \/ task'[d].outcome = "none"
  PROVE  ErrorMeansNoSale'
BY DEF ErrorMeansNoSale, Active

(* Redeem never answers with an error for an order it has placed and       *)
(* charged, unless MySQL loses the reply of a COMMIT: every other failure  *)
(* of the transaction rolls it back, and the steps after the commit ignore *)
(* their errors.                                                           *)
THEOREM ErrorMeansNoSaleHolds == ASSUME ~CommitLost PROVE Spec => []ErrorMeansNoSale
<1>1. Init => ErrorMeansNoSale
  BY DEF Init, ErrorMeansNoSale
<1>2. SaleInv /\ ErrorMeansNoSale /\ [Next]_vars => ErrorMeansNoSale'
  <2> SUFFICES ASSUME SaleInv, ErrorMeansNoSale, [Next]_vars PROVE ErrorMeansNoSale'
    OBVIOUS
  <2>0. TypeInv /\ TypeOK
    BY DEF SaleInv, TypeInv
  <2>1. ASSUME NEW c \in Clients, NEW u \in Users, NEW p \in Products,
               NEW k \in Keys \cup {NoKey}, Arrive(c, u, p, k)
        PROVE  ErrorMeansNoSale'
    <3> DEFINE r == [step |-> IF k = NoKey THEN "lock" ELSE "idem", user |-> u,
                     product |-> p, key |-> k, order |-> None, code |-> None,
                     seen |-> NoWallet, counted |-> 0, outcome |-> "none"]
    <3>1. orders' = orders /\ Replaces(c, r) /\ r.outcome = "none"
      BY <2>1 DEF Arrive, mysql, Replaces
    <3>. HIDE DEF r
    <3>3. task'[c] = r /\ \A d \in Clients : d # c => task'[d] = task[d]
      BY <2>0, <3>1, NewRecord
    <3>. QED BY <3>1, <3>3, ErrorQuiet
  <2>2. ASSUME NEW c \in Clients, RedeemStep(c) PROVE ErrorMeansNoSale'
    BY <2>2, ErrorRedeem
  <2>3. ASSUME NEW u \in Users,
               \/ LockExpires(u) \/ OrdersExpire(u) \/ WalletExpires(u) \/ OpenWallet(u)
               \/ Earn(u) \/ EarnInvalidates(u)
        PROVE  ErrorMeansNoSale'
    BY <2>3, ErrorQuiet DEF LockExpires, OrdersExpire, WalletExpires, OpenWallet, Earn,
                            EarnInvalidates, mysql
  <2>4. ASSUME NEW v \in Readers, NEW u \in Users, OrdersMiss(v, u) \/ WarmWallet(v, u)
        PROVE  ErrorMeansNoSale'
    BY <2>4, ErrorQuiet DEF OrdersMiss, WarmWallet, mysql
  <2>5. ASSUME NEW v \in Readers, ReaderStep(v) PROVE ErrorMeansNoSale'
    BY <2>5, ErrorQuiet DEF ReaderStep, ReadOrders, FillOrders, FillWallet, mysql
  <2>6. CASE CrashRestart
    BY <2>6, ErrorQuiet DEF CrashRestart, mysql, Idle
  <2>7. CASE UNCHANGED vars
    BY <2>7, ErrorQuiet DEF vars, mysql
  <2>. QED BY <2>1, <2>2, <2>3, <2>4, <2>5, <2>6, <2>7 DEF Next
<1>. QED BY <1>1, <1>2, SaleInvHolds, PTL DEF Spec

-----------------------------------------------------------------------------
(* The redeem lock serialises, as long as it does not expire under its     *)
(* holder.                                                                 *)

LockTaken == \A c \in Clients : task[c].step \in LockHeld => lock[task[c].user]
LockInv   == TypeInv /\ LockTaken /\ RedeemSerialised

(* A step of Redeem keeps the lock with its holder: SETNX lets a client    *)
(* past only when nobody of its user is inside, and the DEL is the last    *)
(* thing the holder does.                                                  *)
LEMMA LockRedeem ==
  ASSUME NEW c \in Clients, LockInv, TypeInv', RedeemStep(c)
  PROVE  LockInv'
<1> DEFINE u == task[c].user
<1>0. TypeInv /\ TypeOK /\ LockTaken /\ RedeemSerialised /\ task[c] \in Task /\ u \in Users
  BY RedeemKinds DEF LockInv, TypeInv, Task
<1>1. lock \in [Users -> BOOLEAN]
  BY <1>0 DEF TypeOK
<1>4. \A d \in Clients : task[d].step \in LockHeld => task[d].user \in Users
  <2>1. "idle" \notin LockHeld
    BY StepNames DEF LockHeld, Taken, InTx, Saved
  <2>. QED BY <2>1, <1>0 DEF TypeOK, Task, Idle
<1>2. CASE Leaves(c)
  <2>1. /\ task'[c] = Idle
        /\ \A d \in Clients : d # c => task'[d] = task[d]
    BY <1>0, <1>2, NewRecord DEF Leaves
  <2>2. Idle.step \notin LockHeld
    BY StepNames DEF Idle, LockHeld, Taken, InTx, Saved
  <2>3. RedeemSerialised'
    BY <1>0, <2>1, <2>2 DEF RedeemSerialised
  <2>4. ASSUME NEW d \in Clients, task'[d].step \in LockHeld
        PROVE  lock'[task'[d].user]
    <3>1. d # c /\ task'[d] = task[d] /\ task[d].step \in LockHeld /\ lock[task[d].user]
      BY <1>0, <2>1, <2>2, <2>4 DEF LockTaken
    <3>2. task[c].step = "unlock" => task[d].user # u
      BY <1>0, <3>1 DEF RedeemSerialised, LockHeld
    <3>. QED BY <3>1, <3>2, <1>1, <1>4, <1>2 DEF Leaves
  <2>. QED BY <2>3, <2>4 DEF LockInv, LockTaken
<1>3. ASSUME NEW r, Replaces(c, r), SameCall(c, r), MovesOn(c, r)
      PROVE  LockInv'
  <2>1. /\ task'[c] = r
        /\ \A d \in Clients : d # c => task'[d] = task[d]
    BY <1>0, <1>3, NewRecord
  <2>2. r.user = u
    BY <1>3 DEF SameCall
  <2>3. \/ r.step \notin LockHeld /\ lock' = lock
        \/ ~lock[u] /\ lock' = [lock EXCEPT ![u] = TRUE]
        \/ task[c].step \in LockHeld /\ lock' = lock
    <3>1. CASE Prepares(c, r)
      <4>1. "lock" \notin LockHeld /\ "decr" \in LockHeld
        BY DEF LockHeld, Taken, InTx, Saved
      <4>. QED BY <4>1, <3>1 DEF Prepares
    <3>2. CASE ~Prepares(c, r)
      <4>1. lock' = lock
        BY <3>2, <1>3 DEF MovesOn, Takes, Claims, Reads, Aborts, Sells, Finishes
      <4>2. task[c].step \in LockHeld
        BY <3>2, <1>3 DEF MovesOn, Takes, Claims, Reads, Aborts, Sells, Finishes, LockHeld,
                          Taken, InTx, PendingSteps
      <4>. QED BY <4>1, <4>2
    <3>. QED BY <3>1, <3>2
  <2>4. RedeemSerialised'
    <3> SUFFICES ASSUME NEW d \in Clients, NEW e \in Clients, task'[d].step \in LockHeld,
                        task'[e].step \in LockHeld, task'[d].user = task'[e].user, d # e
                 PROVE  FALSE
      BY DEF RedeemSerialised
    <3>1. PICK f \in Clients : /\ f # c /\ task[f].step \in LockHeld /\ task[f].user = u
                               /\ r.step \in LockHeld
      BY <1>0, <2>1, <2>2 DEF RedeemSerialised
    <3>2. lock[u] /\ task[c].step \notin LockHeld
      BY <3>1, <1>0 DEF LockTaken, RedeemSerialised
    <3>. QED BY <3>1, <3>2, <2>3
  <2>5. LockTaken'
    <3> SUFFICES ASSUME NEW d \in Clients, task'[d].step \in LockHeld
                 PROVE  lock'[task'[d].user]
      BY DEF LockTaken
    <3>1. CASE d = c
      BY <3>1, <1>0, <1>1, <2>1, <2>2, <2>3 DEF LockTaken
    <3>2. CASE d # c
      <4>1. task'[d] = task[d] /\ lock[task[d].user] /\ task[d].user \in Users
        BY <3>2, <1>0, <1>4, <2>1 DEF LockTaken
      <4>. QED BY <4>1, <1>1, <2>3
    <3>. QED BY <3>1, <3>2
  <2>. QED BY <2>4, <2>5 DEF LockInv
<1>. QED BY <1>0, <1>2, <1>3, RedeemKinds

(* Nobody moves and no lock is let go.                                     *)
LEMMA LockQuiet ==
  ASSUME LockInv, TypeInv', lock' = lock,
         \A d \in Clients : task'[d] = task[d] \/ task'[d].step \notin LockHeld
  PROVE  LockInv'
BY DEF LockInv, LockTaken, RedeemSerialised

(* Two redemptions of one user never overlap, whatever fails or crashes,   *)
(* as long as the lock's TTL outlasts its holder.                          *)
THEOREM RedeemSerialisedHolds == ASSUME ~LockMayExpire PROVE Spec => []RedeemSerialised
<1>0. "idle" \notin LockHeld /\ "idem" \notin LockHeld /\ "lock" \notin LockHeld
  BY DEF LockHeld, Taken, InTx, Saved
<1>1. Init => LockInv
  BY <1>0, TypeInit DEF Init, LockInv, LockTaken, RedeemSerialised, Idle
<1>2. LockInv /\ [Next]_vars => LockInv'
  <2> SUFFICES ASSUME LockInv, [Next]_vars PROVE LockInv'
    OBVIOUS
  <2>0. TypeInv /\ TypeOK /\ LockTaken /\ RedeemSerialised /\ TypeInv'
    BY TypeNext DEF LockInv, TypeInv
  <2>1. ASSUME NEW c \in Clients, NEW u \in Users, NEW p \in Products,
               NEW k \in Keys \cup {NoKey}, Arrive(c, u, p, k)
        PROVE  LockInv'
    <3> DEFINE r == [step |-> IF k = NoKey THEN "lock" ELSE "idem", user |-> u,
                     product |-> p, key |-> k, order |-> None, code |-> None,
                     seen |-> NoWallet, counted |-> 0, outcome |-> "none"]
    <3>1. lock' = lock /\ Replaces(c, r) /\ r.step \in {"lock", "idem"}
      BY <2>1 DEF Arrive, redis, Replaces
    <3>. HIDE DEF r
    <3>2. task'[c] = r /\ \A d \in Clients : d # c => task'[d] = task[d]
      BY <2>0, <3>1, NewRecord
    <3>. QED BY <3>1, <3>2, <2>0, <1>0, LockQuiet
  <2>2. ASSUME NEW c \in Clients, RedeemStep(c) PROVE LockInv'
    BY <2>0, <2>2, LockRedeem
  <2>3. ASSUME NEW u \in Users, LockExpires(u) PROVE LockInv'
    <3>1. ~Held(u) /\ lock' = [lock EXCEPT ![u] = FALSE] /\ task' = task
      BY <2>3 DEF LockExpires
    <3>2. LockTaken'
      BY <3>1, <2>0 DEF LockTaken, Held, TypeOK, Task, Idle
    <3>. QED BY <2>0, <3>1, <3>2 DEF LockInv, RedeemSerialised
  <2>4. ASSUME NEW u \in Users,
               \/ OrdersExpire(u) \/ WalletExpires(u) \/ OpenWallet(u)
               \/ Earn(u) \/ EarnInvalidates(u)
        PROVE  LockInv'
    BY <2>0, <2>4, LockQuiet DEF OrdersExpire, WalletExpires, OpenWallet, Earn,
                                 EarnInvalidates, redis
  <2>5. ASSUME NEW v \in Readers, NEW u \in Users, OrdersMiss(v, u) \/ WarmWallet(v, u)
        PROVE  LockInv'
    BY <2>0, <2>5, LockQuiet DEF OrdersMiss, WarmWallet, redis
  <2>6. ASSUME NEW v \in Readers, ReaderStep(v) PROVE LockInv'
    BY <2>0, <2>6, LockQuiet DEF ReaderStep, ReadOrders, FillOrders, FillWallet, redis
  <2>7. CASE CrashRestart
    BY <1>0, <2>0, <2>7, LockQuiet DEF CrashRestart, Idle
  <2>8. CASE UNCHANGED vars
    BY <2>0, <2>8, LockQuiet DEF vars, redis
  <2>. QED BY <2>1, <2>2, <2>3, <2>4, <2>5, <2>6, <2>7, <2>8 DEF Next
<1>3. LockInv => RedeemSerialised
  BY DEF LockInv
<1>. QED BY <1>1, <1>2, <1>3, PTL DEF Spec

-----------------------------------------------------------------------------
(* What becomes of the redeem lock.  A lock that is set while nobody of    *)
(* its user is inside blocks that user until its TTL.                      *)

Abandoned(u) == lock[u] /\ ~Held(u)

(* A step of Redeem leaves no lock behind but by a lost command: every way *)
(* out after SETNX goes through the deferred DEL.                          *)
LEMMA AbandonRedeem ==
  ASSUME NEW c \in Clients, TypeInv, RedeemStep(c), NEW u \in Users, ~Abandoned(u), Abandoned(u)'
  PROVE  RedisFaults /\ (LockReplyLost(c) \/ Unlock(c))
<1>0. /\ task[c] \in Task /\ task[c].user \in Users /\ lock \in [Users -> BOOLEAN]
      /\ "idem" \notin LockHeld /\ "lock" \notin LockHeld /\ Idle.step \notin LockHeld
  BY RedeemKinds DEF TypeInv, TypeOK, Task, Idle, LockHeld, Taken, InTx, Saved
<1>1. CASE Leaves(c)
  <2>1. /\ task'[c] = Idle
        /\ \A d \in Clients : d # c => task'[d] = task[d]
    BY <1>0, <1>1, NewRecord DEF Leaves
  <2>2. CASE task[c].step = "unlock"
    <3>1. Unlock(c)
      BY <2>2 DEF RedeemStep, CheckIdem, AcquireLock, LockBusy, LockReplyLost, LookupFails, SoldOut, DecrReplyLost,
                  DecrStock, ClaimCode, NoCode, ReadWallet, Commit, CommitConflict, CommitReplyLost, TxFails,
                  RollbackStock, SaveIdem, CountCodes, SetStock, DelWallet, DelOrders, At, InTx, CanCommit
    <3>2. CASE lock' = [lock EXCEPT ![task[c].user] = FALSE]
      <4>1. task[c].user # u /\ lock[u]
        BY <1>0, <3>2 DEF Abandoned
      <4>2. PICK d \in Clients : task[d].step \in LockHeld /\ task[d].user = u
        BY <4>1 DEF Abandoned, Held
      <4> QED BY <2>1, <4>1, <4>2 DEF Abandoned, Held
    <3> QED BY <3>1, <3>2 DEF Unlock
  <2>3. CASE task[c].step # "unlock"
    <3>1. \A v \in Users : Held(v) => Held(v)'
      BY <1>0, <1>1, <2>1, <2>3 DEF Held, Leaves
    <3>2. ~lock[u] /\ lock'[u]
      BY <3>1 DEF Abandoned
    <3>3. lock' # lock /\ task[c].step = "lock" /\ Replaces(c, Idle)
      BY <1>1, <2>3, <3>2 DEF Leaves
    <3>4. LockReplyLost(c)
      <4>1. ~AcquireLock(c)
        <5>1. AcquireLock(c) => task'[c].step = "decr"
          BY <1>0 DEF AcquireLock, Advance, Task, TypeInv, TypeOK
        <5> QED BY <5>1, <2>1 DEF Idle
      <4> QED BY <3>3, <4>1 DEF RedeemStep, CheckIdem, LockBusy, LookupFails, SoldOut, DecrReplyLost,
                  DecrStock, ClaimCode, NoCode, ReadWallet, Commit, CommitConflict, CommitReplyLost, TxFails,
                  RollbackStock, SaveIdem, CountCodes, SetStock, DelWallet, DelOrders, Unlock, At, InTx, CanCommit, redis
    <3> QED BY <3>4 DEF LockReplyLost
  <2> QED BY <2>2, <2>3
<1>2. ASSUME NEW r, Replaces(c, r), SameCall(c, r), MovesOn(c, r)
      PROVE  FALSE
  <2>1. /\ task'[c] = r
        /\ \A d \in Clients : d # c => task'[d] = task[d]
    BY <1>0, <1>2, NewRecord DEF TypeInv
  <2>2. r.user = task[c].user
    BY <1>2 DEF SameCall
  <2>3. /\ task[c].step \in LockHeld => r.step \in LockHeld
        /\ lock' = lock \/ (r.step \in LockHeld /\ lock' = [lock EXCEPT ![task[c].user] = TRUE])
    <3>1. CASE Prepares(c, r)
      BY <1>0, <3>1 DEF Prepares, EarlySteps, LockHeld
    <3>2. CASE ~Prepares(c, r)
      <4>1. r.step \in LockHeld /\ lock' = lock
        BY <3>2, <1>2 DEF MovesOn, Takes, Claims, Reads, Aborts, Sells, Finishes, LockHeld, Taken, InTx, Saved
      <4> QED BY <4>1
    <3> QED BY <3>1, <3>2
  <2>4. \A v \in Users : Held(v) => Held(v)'
    BY <2>1, <2>2, <2>3 DEF Held
  <2>5. lock'[u] # lock[u] => u = task[c].user /\ Held(u)'
    BY <1>0, <2>1, <2>2, <2>3 DEF Held
  <2> QED BY <2>4, <2>5 DEF Abandoned
<1> QED BY <1>1, <1>2, RedeemKinds

(* Nobody who is inside leaves, and no lock is set.                        *)
LEMMA AbandonQuiet ==
  ASSUME UNCHANGED lock, NEW u \in Users, ~Abandoned(u),
         \A d \in Clients : task'[d] = task[d] \/ task[d].step \notin LockHeld
  PROVE  ~Abandoned(u)'
BY DEF Abandoned, Held

(* A lock stays in Redis without a holder only after a restart, a lost     *)
(* SETNX or DEL: Redeem lets it go on every path, whatever MySQL, the      *)
(* stock and the other redemptions do to it.                               *)
Abandons == CrashRestart \/ (RedisFaults /\ \E c \in Clients : LockReplyLost(c) \/ Unlock(c))
THEOREM LockNotAbandoned ==
  Spec => [][\A u \in Users : ~Abandoned(u) /\ Abandoned(u)' => Abandons]_vars
<1>1. ASSUME TypeInv, [Next]_vars, NEW u \in Users, ~Abandoned(u), Abandoned(u)'
      PROVE  Abandons
  <2>0. "idle" \notin LockHeld /\ lock \in [Users -> BOOLEAN]
    BY <1>1 DEF LockHeld, Taken, InTx, Saved, TypeInv, TypeOK
  <2>1. ASSUME NEW c \in Clients, NEW v \in Users, NEW p \in Products,
               NEW k \in Keys \cup {NoKey}, Arrive(c, v, p, k)
        PROVE  FALSE
    <3>1. /\ UNCHANGED lock /\ task[c].step \notin LockHeld
          /\ \A d \in Clients : d # c => task'[d] = task[d]
      BY <1>1, <2>0, <2>1 DEF Arrive, Active, redis, TypeInv, TypeOK
    <3> QED BY <1>1, <3>1, AbandonQuiet
  <2>2. ASSUME NEW c \in Clients, RedeemStep(c) PROVE Abandons
    BY <1>1, <2>2, AbandonRedeem DEF Abandons
  <2>3. ASSUME NEW v \in Users, LockExpires(v) PROVE FALSE
    <3>1. task' = task /\ (lock'[u] => lock[u])
      BY <2>0, <2>3 DEF LockExpires
    <3> QED BY <1>1, <3>1 DEF Abandoned, Held
  <2>4. ASSUME NEW v \in Users,
               \/ OrdersExpire(v) \/ WalletExpires(v) \/ OpenWallet(v)
               \/ Earn(v) \/ EarnInvalidates(v)
        PROVE  FALSE
    BY <1>1, <2>4, AbandonQuiet DEF OrdersExpire, WalletExpires, OpenWallet, Earn,
                                    EarnInvalidates, redis
  <2>5. ASSUME NEW v \in Readers, NEW w \in Users, OrdersMiss(v, w) \/ WarmWallet(v, w)
        PROVE  FALSE
    BY <1>1, <2>5, AbandonQuiet DEF OrdersMiss, WarmWallet, redis
  <2>6. ASSUME NEW v \in Readers, ReaderStep(v) PROVE FALSE
    BY <1>1, <2>6, AbandonQuiet DEF ReaderStep, ReadOrders, FillOrders, FillWallet, redis
  <2>7. CASE UNCHANGED vars
    BY <1>1, <2>7, AbandonQuiet DEF vars, redis
  <2> QED BY <1>1, <2>1, <2>2, <2>3, <2>4, <2>5, <2>6, <2>7 DEF Next, Abandons
<1>2. TypeInv /\ [Next]_vars => [\A u \in Users : ~Abandoned(u) /\ Abandoned(u)' => Abandons]_vars
  BY <1>1
<1> QED BY <1>2, TypeInit, TypeNext, PTL DEF Spec

-----------------------------------------------------------------------------
(* The stock strands no code but by the units that faults take out of it.  *)

Taking(p)   == {c \in Clients : task[c].step \in Taken /\ task[c].product = p}
CountCovers == \A c \in Clients : task[c].step = "set" =>
                 task[c].counted >= Cardinality(Available(task[c].product))
StockInv    == SaleInv /\ CountCovers /\ StockCoversCodes

(* How the number of redemptions that hold a unit of a product's stock     *)
(* changes with one client's record.                                       *)
LEMMA TakingStep ==
  ASSUME NEW c \in Clients, NEW r, NEW p, TypeInv, Replaces(c, r), SameCall(c, r)
  PROVE  /\ Cardinality(Taking(p)) \in Nat
         /\ task[c].product # p => Taking(p)' = Taking(p)
         /\ (task[c].step \in Taken <=> r.step \in Taken) => Taking(p)' = Taking(p)
         /\ task[c].product = p /\ task[c].step \notin Taken /\ r.step \in Taken =>
              Cardinality(Taking(p)') = Cardinality(Taking(p)) + 1
         /\ task[c].product = p /\ task[c].step \in Taken /\ r.step \notin Taken =>
              Cardinality(Taking(p)) = Cardinality(Taking(p)') + 1
<1>1. /\ task'[c] = r
      /\ \A d \in Clients : d # c => task'[d] = task[d]
  BY NewRecord
<1>2. IsFiniteSet(Taking(p)) /\ IsFiniteSet(Taking(p)')
  BY FS_Subset, ClientsAssumption DEF Taking
<1>3. Cardinality(Taking(p)) \in Nat /\ Cardinality(Taking(p)') \in Nat
  BY <1>2, FS_CardinalityType
<1>4. \/ task[c].product # p
      \/ task[c].step \in Taken <=> r.step \in Taken
      => Taking(p)' = Taking(p)
  BY <1>1 DEF Taking, SameCall
<1>5. ASSUME task[c].product = p, task[c].step \notin Taken, r.step \in Taken
      PROVE  Cardinality(Taking(p)') = Cardinality(Taking(p)) + 1
  <2>1. Taking(p)' = Taking(p) \cup {c} /\ c \notin Taking(p)
    BY <1>1, <1>5 DEF Taking, SameCall
  <2>. QED BY <2>1, <1>2, FS_AddElement
<1>6. ASSUME task[c].product = p, task[c].step \in Taken, r.step \notin Taken
      PROVE  Cardinality(Taking(p)) = Cardinality(Taking(p)') + 1
  <2>1. Taking(p) = Taking(p)' \cup {c} /\ c \notin Taking(p)'
    BY <1>1, <1>6 DEF Taking, SameCall
  <2>. QED BY <2>1, <1>2, FS_AddElement
<1>. QED BY <1>3, <1>4, <1>5, <1>6

(* A sale takes its code from the available ones, and no other.            *)
LEMMA AvailableSells ==
  ASSUME NEW c \in Clients, NEW p, SaleInv, task[c].step = "commit", SaleWrites(c)
  PROVE  /\ Cardinality(Available(p)') \in Nat
         /\ task[c].product # p => Available(p)' = Available(p)
         /\ task[c].product = p =>
              Cardinality(Available(p)) = Cardinality(Available(p)') + 1
         /\ Cardinality(Available(p)') <= Cardinality(Available(p))
<1> DEFINE k == task[c].code
<1>0. /\ k \in Codes /\ codeOrder[k] = None /\ ProductOf[k] = task[c].product
      /\ task[c].order \in OrderIds /\ task[c].order # None
  BY FitsOne, StepNames, NoneAssumption
     DEF SaleInv, TypeInv, LocalsOK, LocalsOf, InTx, LockedOf
<1>1. codeOrder' = [codeOrder EXCEPT ![k] = task[c].order]
  BY DEF SaleWrites
<1>2. codeOrder \in [Codes -> OrderIds \cup {None}]
  BY DEF SaleInv, TypeInv, TypeOK
<1>3. IsFiniteSet(Available(p)) /\ IsFiniteSet(Available(p)')
  BY FS_Subset, CodesAssumption DEF Available
<1>4. Cardinality(Available(p)) \in Nat /\ Cardinality(Available(p)') \in Nat
  BY <1>3, FS_CardinalityType
<1>5. CASE task[c].product # p
  <2>1. Available(p)' = Available(p)
    BY <1>0, <1>1, <1>2, <1>5 DEF Available
  <2>. QED BY <2>1, <1>4, <1>5
<1>6. CASE task[c].product = p
  <2>1. Available(p) = Available(p)' \cup {k} /\ k \notin Available(p)'
    BY <1>0, <1>1, <1>2, <1>6 DEF Available
  <2>2. Cardinality(Available(p)) = Cardinality(Available(p)') + 1
    BY <2>1, <1>3, FS_AddElement
  <2>. QED BY <2>2, <1>4, <1>6
<1>. QED BY <1>5, <1>6

(* A step of Redeem leaves every available code covered: a unit taken from *)
(* the stock is held until it is given back or its code is sold, and a     *)
(* stale count can only be too high.                                       *)
LEMMA StockRedeem ==
  ASSUME NEW c \in Clients, NEW r, StockInv, SaleInv', task[c] \in Task,
         Replaces(c, r), SameCall(c, r), MovesOn(c, r)
  PROVE  StockInv'
<1> DEFINE A(q) == Cardinality(Available(q))
           T(q) == Cardinality(Taking(q))
           p == task[c].product
<1>0. /\ TypeInv /\ SaleInv /\ CountCovers /\ p \in Products
      /\ stock \in [Products -> Nat] /\ stock' \in [Products -> Nat]
      /\ lost \in [Products -> Nat] /\ lost' \in [Products -> Nat]
  BY DEF StockInv, SaleInv, TypeInv, TypeOK, Task
<1>1. \A q \in Products : A(q) \in Nat /\ T(q) \in Nat /\ stock[q] + T(q) + lost[q] >= A(q)
  <2>1. \A q \in Products : stock[q] + T(q) + lost[q] >= A(q)
    BY DEF StockInv, StockCoversCodes, Taking, Units
  <2>2. \A q \in Products : T(q) \in Nat
    BY <1>0, TakingStep
  <2>. QED BY <2>1, <2>2, AvailableCount
<1>2. /\ task'[c] = r
      /\ \A d \in Clients : d # c => task'[d] = task[d]
  BY <1>0, NewRecord
<1>3. \A q \in Products : A(q)' \in Nat /\ A(q)' <= A(q)
  <2>1. CASE Sells(c, r)
    BY <2>1, <1>0, AvailableSells DEF Sells
  <2>2. CASE ~Sells(c, r)
    <3>1. codeOrder' = codeOrder
      BY <2>2 DEF MovesOn, Prepares, Takes, Claims, Reads, Aborts, Finishes, mysql
    <3>2. \A q \in Products : A(q)' = A(q)
      BY <3>1 DEF Available
    <3>. QED BY <3>2, <1>1
  <2>. QED BY <2>1, <2>2
<1>4. CountCovers'
  <2> SUFFICES ASSUME NEW d \in Clients, task'[d].step = "set",
                      NEW q, q = task'[d].product
               PROVE  task'[d].counted >= A(q)'
    BY DEF CountCovers, Available
  <2>1. CASE d = c
    <3>1. Updates(c, r) /\ r.product = p /\ codeOrder' = codeOrder
      BY <2>1, <1>2 DEF MovesOn, Prepares, Takes, Claims, Reads, Aborts, Sells, Finishes,
                        GivesBack, SameCall, mysql
    <3>2. q = p /\ r.counted = A(q) /\ A(q)' = A(q)
      BY <3>1, <2>1, <1>2 DEF Updates, Available
    <3>. QED BY <3>2, <2>1, <1>0, <1>1, <1>2
  <2>2. CASE d # c
    <3>1. task'[d] = task[d] /\ task[d] \in Task
      BY <2>2, <1>0, <1>2 DEF TypeInv, TypeOK, Idle
    <3>2. task[d].counted >= A(q) /\ q \in Products /\ task[d].counted \in Nat
      BY <3>1, <1>0 DEF CountCovers, Task
    <3>. QED BY <3>1, <3>2, <1>1, <1>3
  <2>. QED BY <2>1, <2>2
<1>5. ASSUME NEW q \in Products PROVE stock'[q] + T(q)' + lost'[q] >= A(q)'
  <2>0. /\ A(q) \in Nat /\ T(q) \in Nat /\ stock[q] \in Nat /\ stock'[q] \in Nat
        /\ lost[q] \in Nat /\ lost'[q] \in Nat
        /\ stock[q] + T(q) + lost[q] >= A(q) /\ A(q)' \in Nat /\ A(q)' <= A(q)
    BY <1>0, <1>1, <1>3
  <2>1. ASSUME stock'[q] + lost'[q] >= stock[q] + lost[q], task[c].step \in Taken <=> r.step \in Taken
        PROVE  stock'[q] + T(q)' + lost'[q] >= A(q)'
    <3>1. T(q)' = T(q)
      BY <2>1, <1>0, TakingStep
    <3>. QED BY <3>1, <2>0, <2>1
  <2>2. CASE Prepares(c, r)
    <3>1. task[c].step \notin Taken /\ r.step \notin Taken
      BY <2>2, StepNames DEF Prepares, EarlySteps
    <3>2. Misplaces(c) \/ UNCHANGED <<stock, lost>>
      BY <2>2 DEF Prepares
    <3>3. stock'[q] + lost'[q] = stock[q] + lost[q]
      BY <3>2, <2>0, <1>0 DEF Misplaces
    <3>. QED BY <2>0, <3>1, <3>3, <2>1
  <2>3. CASE Takes(c, r)
    <3>1. task[c].step \notin Taken /\ r.step \in Taken
      BY <2>3, StepNames DEF Takes
    <3>2. CASE q = p
      <4>1. T(q)' = T(q) + 1
        BY <3>1, <3>2, <1>0, TakingStep
      <4>2. stock'[q] = stock[q] - 1 /\ lost'[q] = lost[q]
        BY <2>3, <3>2, <1>0 DEF Takes
      <4>. QED BY <4>1, <4>2, <2>0
    <3>3. CASE q # p
      <4>1. T(q)' = T(q)
        BY <3>3, <1>0, TakingStep
      <4>2. stock'[q] = stock[q] /\ lost'[q] = lost[q]
        BY <2>3, <3>3, <1>0 DEF Takes
      <4>. QED BY <4>1, <4>2, <2>0
    <3>. QED BY <3>2, <3>3
  <2>4. CASE Claims(c, r) \/ Reads(c, r) \/ Aborts(c, r)
    <3>1. /\ stock' = stock /\ lost' = lost
          /\ task[c].step \in Taken /\ r.step \in Taken
      BY <2>4, StepNames DEF Claims, Reads, Aborts, PendingSteps
    <3>. QED BY <3>1, <2>0, <2>1
  <2>5. CASE Sells(c, r)
    <3>1. stock' = stock /\ lost' = lost /\ task[c].step \in Taken
      BY <2>5, StepNames DEF Sells
    <3>2. CASE q = p
      <4>1. A(q) = A(q)' + 1
        BY <2>5, <3>2, <1>0, AvailableSells DEF Sells
      <4>2. T(q)' = T(q) \/ T(q) = T(q)' + 1
        BY <3>1, <3>2, <1>0, TakingStep
      <4>3. T(q)' \in Nat
        <5>1. IsFiniteSet(Taking(q)')
          BY FS_Subset, ClientsAssumption DEF Taking
        <5>. QED BY <5>1, FS_CardinalityType
      <4>. QED BY <4>1, <4>2, <4>3, <3>1, <2>0
    <3>3. CASE q # p
      <4>1. T(q)' = T(q)
        BY <3>3, <1>0, TakingStep
      <4>. QED BY <4>1, <3>1, <2>0
    <3>. QED BY <3>2, <3>3
  <2>6. CASE GivesBack(c, r)
    <3>1. task[c].step \in Taken /\ r.step \notin Taken
      BY <2>6, StepNames DEF GivesBack
    <3>2. CASE q = p
      <4>1. T(q) = T(q)' + 1
        BY <3>1, <3>2, <1>0, TakingStep
      <4>2. stock'[q] + lost'[q] = stock[q] + lost[q] + 1
        BY <2>0, <2>6, <3>2, <1>0 DEF GivesBack
      <4>3. T(q)' \in Nat
        <5>1. IsFiniteSet(Taking(q)')
          BY FS_Subset, ClientsAssumption DEF Taking
        <5>. QED BY <5>1, FS_CardinalityType
      <4>. QED BY <4>1, <4>2, <4>3, <2>0
    <3>3. CASE q # p
      <4>1. T(q)' = T(q)
        BY <3>3, <1>0, TakingStep
      <4>2. stock'[q] = stock[q] /\ lost'[q] = lost[q]
        BY <2>6, <3>3, <1>0 DEF GivesBack
      <4>. QED BY <4>1, <4>2, <2>0
    <3>. QED BY <3>2, <3>3
  <2>7. CASE Updates(c, r)
    <3>1. task[c].step \notin Taken /\ r.step \notin Taken
      BY <2>7, StepNames DEF Updates, Saved
    <3>2. CASE stock' = stock /\ lost' = lost
      BY <3>1, <3>2, <2>0, <2>1
    <3>3. CASE /\ task[c].step = "set"
               /\ stock' = [stock EXCEPT ![p] = task[c].counted]
               /\ lost' = [lost EXCEPT ![p] = 0]
      <4>1. T(q)' = T(q)
        BY <3>1, <1>0, TakingStep
      <4>2. q = p => stock'[q] = task[c].counted /\ task[c].counted >= A(q)
        BY <3>3, <1>0 DEF CountCovers
      <4>3. q # p => stock'[q] = stock[q] /\ lost'[q] = lost[q]
        BY <3>3, <1>0
      <4>4. T(q) \in Nat
        BY <2>0
      <4>. QED BY <4>1, <4>2, <4>3, <4>4, <2>0
    <3>. QED BY <3>2, <3>3, <2>7 DEF Updates
  <2>. QED BY <2>2, <2>3, <2>4, <2>5, <2>6, <2>7 DEF MovesOn, Finishes
<1>6. StockCoversCodes'
  BY <1>5 DEF StockCoversCodes, Taking, Units
<1>. QED BY <1>4, <1>6 DEF StockInv

(* Stock, codes and the units held have not changed.                       *)
LEMMA StockQuiet ==
  ASSUME StockInv, SaleInv', stock' = stock, lost' = lost, codeOrder' = codeOrder,
         \A d \in Clients : \/ task'[d] = task[d]
                            \/ /\ task[d].step \notin Taken
                               /\ task'[d].step \notin Taken \cup {"set"}
  PROVE  StockInv'
<1>1. \A q : Available(q)' = Available(q)
  BY DEF Available
<1>2. \A q : Taking(q)' = Taking(q)
  BY DEF Taking
<1>3. CountCovers'
  BY <1>1 DEF StockInv, CountCovers
<1>4. StockCoversCodes'
  BY <1>1, <1>2 DEF StockInv, StockCoversCodes, Taking, Units
<1>. QED BY <1>3, <1>4 DEF StockInv

(* What Redis shows in stock, with the units redemptions hold and those a  *)
(* fault took out since the last completed sync or SET, covers every       *)
(* available code: no interleaving of takes, give-backs and stale SETs     *)
(* strands one, and no fault strands more than the units it took.          *)
THEOREM StockCoversCodesHolds == Spec => []StockCoversCodes
<1>0. "idle" \notin Taken /\ "idem" \notin Taken /\ "lock" \notin Taken /\ "unlock" \notin Taken
  BY StepNames
<1>1. Init => StockInv
  <2> SUFFICES ASSUME Init PROVE StockInv
    OBVIOUS
  <2>1. \A p \in Products : /\ stock[p] = Cardinality(Available(p)) /\ Taking(p) = {}
                            /\ lost[p] = 0
    BY <1>0 DEF Init, Available, Taking, Idle
  <2>2. StockCoversCodes
    <3> SUFFICES ASSUME NEW p \in Products
                 PROVE  stock[p] + Units(p) + lost[p] >= Cardinality(Available(p))
      BY DEF StockCoversCodes
    <3>1. Units(p) = 0
      BY <2>1, FS_EmptySet DEF Units, Taking
    <3>. QED BY <2>1, <3>1, AvailableCount
  <2>3. CountCovers
    BY DEF Init, CountCovers, Idle
  <2>. QED BY <2>2, <2>3, SaleInit DEF StockInv
<1>2. StockInv /\ [Next]_vars => StockInv'
  <2> SUFFICES ASSUME StockInv, [Next]_vars PROVE StockInv'
    OBVIOUS
  <2>0. TypeInv /\ TypeOK /\ SaleInv /\ SaleInv'
    BY SaleNext DEF StockInv, SaleInv, TypeInv
  <2>1. ASSUME NEW c \in Clients, NEW u \in Users, NEW p \in Products,
               NEW k \in Keys \cup {NoKey}, Arrive(c, u, p, k)
        PROVE  StockInv'
    <3> DEFINE r == [step |-> IF k = NoKey THEN "lock" ELSE "idem", user |-> u,
                     product |-> p, key |-> k, order |-> None, code |-> None,
                     seen |-> NoWallet, counted |-> 0, outcome |-> "none"]
    <3>1. /\ stock' = stock /\ lost' = lost /\ codeOrder' = codeOrder /\ task[c].step = "idle"
          /\ Replaces(c, r) /\ r.step \in {"lock", "idem"}
      BY <2>1 DEF Arrive, redis, mysql, Replaces, Active
    <3>. HIDE DEF r
    <3>2. task'[c] = r /\ \A d \in Clients : d # c => task'[d] = task[d]
      BY <2>0, <3>1, NewRecord
    <3>. QED BY <3>1, <3>2, <2>0, <1>0, StockQuiet
  <2>2. ASSUME NEW c \in Clients, RedeemStep(c) PROVE StockInv'
    <3>1. task[c] \in Task
      BY <2>0, <2>2, RedeemKinds
    <3>2. CASE Leaves(c)
      <4>1. /\ stock' = stock /\ lost' = lost /\ codeOrder' = codeOrder
            /\ task[c].step \notin Taken
        BY <3>2, <1>0 DEF Leaves, mysql
      <4>2. task'[c].step = "idle" /\ \A d \in Clients : d # c => task'[d] = task[d]
        BY <3>2, <2>0, NewRecord DEF Leaves, Idle
      <4>. QED BY <4>1, <4>2, <2>0, <1>0, StockQuiet
    <3>3. CASE \E r : Replaces(c, r) /\ SameCall(c, r) /\ MovesOn(c, r)
      BY <3>1, <3>3, <2>0, StockRedeem
    <3>. QED BY <3>2, <3>3, <2>0, <2>2, RedeemKinds
  <2>3. ASSUME NEW u \in Users,
               \/ LockExpires(u) \/ OrdersExpire(u) \/ WalletExpires(u) \/ OpenWallet(u)
               \/ Earn(u) \/ EarnInvalidates(u)
        PROVE  StockInv'
    BY <2>0, <2>3, StockQuiet DEF LockExpires, OrdersExpire, WalletExpires, OpenWallet, Earn,
                                  EarnInvalidates, redis, mysql
  <2>4. ASSUME NEW v \in Readers, NEW u \in Users, OrdersMiss(v, u) \/ WarmWallet(v, u)
        PROVE  StockInv'
    BY <2>0, <2>4, StockQuiet DEF OrdersMiss, WarmWallet, redis, mysql
  <2>5. ASSUME NEW v \in Readers, ReaderStep(v) PROVE StockInv'
    BY <2>0, <2>5, StockQuiet DEF ReaderStep, ReadOrders, FillOrders, FillWallet, redis, mysql
  <2>6. CASE CrashRestart
    <3>1. /\ task' = [c \in Clients |-> Idle] /\ codeOrder' = codeOrder
          /\ \A p \in Products :
               \/ stock'[p] = Cardinality(Available(p)) /\ lost'[p] = 0
               \/ stock'[p] = stock[p] /\ lost'[p] = lost[p] + Units(p)
      BY <2>6 DEF CrashRestart, mysql
    <3>2. \A p \in Products : Available(p)' = Available(p) /\ Taking(p)' = {}
      BY <1>0, <3>1 DEF Available, Taking, Idle
    <3>3. StockCoversCodes'
      <4> SUFFICES ASSUME NEW p \in Products
                   PROVE  stock'[p] + Cardinality(Taking(p)') + lost'[p]
                            >= Cardinality(Available(p)')
        BY DEF StockCoversCodes, Taking, Units
      <4>1. /\ Cardinality(Available(p)) \in Nat /\ Cardinality(Taking(p)') = 0
            /\ Units(p) \in Nat /\ stock[p] \in Nat /\ lost[p] \in Nat
        BY <3>2, <2>0, AvailableCount, UnitsCount, FS_EmptySet DEF TypeOK
      <4>2. stock[p] + Units(p) + lost[p] >= Cardinality(Available(p))
        BY DEF StockInv, StockCoversCodes
      <4>. QED BY <4>1, <4>2, <3>1, <3>2
    <3>4. CountCovers'
      BY <3>1 DEF CountCovers, Idle
    <3>. QED BY <2>0, <3>3, <3>4 DEF StockInv
  <2>7. CASE UNCHANGED vars
    BY <2>0, <2>7, StockQuiet DEF vars, redis, mysql
  <2>. QED BY <2>1, <2>2, <2>3, <2>4, <2>5, <2>6, <2>7 DEF Next
<1>3. StockInv => StockCoversCodes
  BY DEF StockInv
<1>. QED BY <1>1, <1>2, <1>3, PTL DEF Spec

-----------------------------------------------------------------------------
(* The component implements MallSales.                                     *)

(* The balance the abstract specification sees.                            *)
Shown == [u \in Users |-> IF Opening(wallet[u]) THEN None ELSE wallet[u].balance]

(* Writing one wallet is writing one abstract balance.                     *)
LEMMA ShownWrite ==
  ASSUME TypeOK, NEW u \in Users, NEW w \in Wallet, ~Opening(w),
         wallet' = [wallet EXCEPT ![u] = w]
  PROVE  Shown' = [Shown EXCEPT ![u] = w.balance]
BY DEF TypeOK, Shown, Opening

(* A wallet is open exactly when the abstract balance is a number.         *)
LEMMA ShownOpen ==
  ASSUME TypeOK, NEW u \in Users
  PROVE  /\ Shown[u] = None <=> Opening(wallet[u])
         /\ ~Opening(wallet[u]) => Shown[u] = wallet[u].balance
BY NoneAssumption DEF TypeOK, Shown, Wallet

(* A committing transaction is one abstract sale: its code was unsold, no  *)
(* other code was sold to its order, and the buyer could pay the price of  *)
(* the code's product.                                                     *)
LEMMA SellsImplements ==
  ASSUME SaleInv, NEW c \in Clients, task[c] \in Task, task[c].step = "commit",
         CanCommit(c), SaleWrites(c)
  PROVE  Sales!SalesNext
<1>. PICK u, k, o : u = task[c].user /\ k = task[c].code /\ o = task[c].order
  OBVIOUS
<1> DEFINE t == task[c]
           price == Price[t.product]
           w == [version |-> (IF Opening(t.seen) THEN 0 ELSE t.seen.version) + 1,
                 balance |-> Funds(wallet[u]) - price]
<1>0. /\ TypeOK /\ SaleConsistent
      /\ u \in Users /\ t.product \in Products /\ t.seen \in Wallet
      /\ k \in Codes /\ o \in OrderIds /\ o # None
      /\ codeOrder[k] = None /\ ProductOf[k] = t.product
      /\ \A x \in orders : x.id # o
  BY FitsOne, StepNames, NoneAssumption
     DEF SaleInv, TypeInv, LocalsOK, LocalsOf, InTx, LockedOf, PendingOf, PendingSteps, Task
<1>1. \A j \in Codes : codeOrder[j] # o
  BY <1>0 DEF SaleConsistent
<1>2. /\ codeOrder' = [codeOrder EXCEPT ![k] = o]
      /\ wallet' = [wallet EXCEPT ![u] = w]
  BY DEF SaleWrites
<1>3. Funds(wallet[u]) >= price /\ Funds(wallet[u]) \in Nat /\ price \in Nat
  BY <1>0, PriceAssumption, AmountsAssumption DEF CanCommit, Funds, TypeOK, Wallet
<1>4. w \in Wallet /\ ~Opening(w) /\ w.balance = Funds(wallet[u]) - price
  <2>1. (IF Opening(t.seen) THEN 0 ELSE t.seen.version) + 1 \in Nat \ {0}
    BY <1>0 DEF Opening, Wallet, NoRow
  <2>2. Funds(wallet[u]) - price \in Nat
    BY <1>3
  <2>. QED BY <2>1, <2>2 DEF Wallet, Opening, NoRow
<1>. HIDE DEF w
<1>5. Shown' = [Shown EXCEPT ![u] = w.balance]
  BY <1>0, <1>2, <1>4, ShownWrite
<1>6. (IF Shown[u] = None THEN Grant ELSE Shown[u]) = Funds(wallet[u])
  BY <1>0, ShownOpen DEF Funds
<1>7. Sales!Sell(u, k, o)
  BY <1>0, <1>1, <1>2, <1>3, <1>4, <1>5, <1>6 DEF Sales!Sell, Sales!Points, Shown
<1>8. u \in Users /\ k \in Codes /\ o \in OrderIds
  BY <1>0
<1>. QED BY <1>7, <1>8 DEF Sales!SalesNext

(* Codes and wallets have not changed.                                     *)
LEMMA SalesStutter ==
  ASSUME codeOrder' = codeOrder, wallet' = wallet
  PROVE  UNCHANGED Sales!salesVars
BY DEF Sales!salesVars, Opening

(* Every behaviour of the mall, with every fault of the model, is one of   *)
(* the abstract specification: the steps of RedeemInTx show as one sale or *)
(* not at all, an opened wallet as a grant, an earning as a credit.        *)
THEOREM MallImplementsSales == Spec => ImplementsSales
<1>1. Init => Sales!SalesInit
  BY DEF Init, Sales!SalesInit, Opening, NoWallet
<1>2. SaleInv /\ [Next]_vars => [Sales!SalesNext]_(Sales!salesVars)
  <2> SUFFICES ASSUME SaleInv, [Next]_vars PROVE Sales!SalesNext \/ UNCHANGED Sales!salesVars
    OBVIOUS
  <2>0. TypeInv /\ TypeOK
    BY DEF SaleInv, TypeInv
  <2>1. ASSUME NEW c \in Clients, NEW u \in Users, NEW p \in Products,
               NEW k \in Keys \cup {NoKey}, Arrive(c, u, p, k)
        PROVE  UNCHANGED Sales!salesVars
    BY <2>1, SalesStutter DEF Arrive, mysql
  <2>2. ASSUME NEW c \in Clients, RedeemStep(c)
        PROVE  Sales!SalesNext \/ UNCHANGED Sales!salesVars
    <3>1. task[c] \in Task
      BY <2>0, <2>2, RedeemKinds
    <3>2. CASE Leaves(c)
      BY <3>2, SalesStutter DEF Leaves, mysql
    <3>3. ASSUME NEW r, MovesOn(c, r)
          PROVE  Sales!SalesNext \/ UNCHANGED Sales!salesVars
      <4>1. CASE Sells(c, r)
        BY <3>1, <4>1, SellsImplements DEF Sells
      <4>2. CASE ~Sells(c, r)
        BY <3>3, <4>2, SalesStutter
           DEF MovesOn, Prepares, Takes, Claims, Reads, Aborts, Finishes, mysql
      <4>. QED BY <4>1, <4>2
    <3>. QED BY <3>2, <3>3, <2>0, <2>2, RedeemKinds
  <2>3. ASSUME NEW u \in Users, OpenWallet(u) PROVE Sales!SalesNext
    <3> DEFINE w == [version |-> 0, balance |-> Grant]
    <3>1. /\ codeOrder' = codeOrder /\ wallet' = [wallet EXCEPT ![u] = w]
          /\ Shown[u] = None
      BY <2>0, <2>3, ShownOpen DEF OpenWallet
    <3>2. w \in Wallet /\ ~Opening(w) /\ w.balance = Grant
      BY AmountsAssumption DEF Wallet, Opening, NoRow
    <3>. HIDE DEF w
    <3>3. Shown' = [Shown EXCEPT ![u] = Grant]
      BY <2>0, <3>1, <3>2, ShownWrite
    <3>. QED BY <3>1, <3>3 DEF Sales!SalesNext, Sales!Open, Shown
  <2>4. ASSUME NEW u \in Users, Earn(u) PROVE Sales!SalesNext
    <3> DEFINE w == [version |-> wallet[u].version + 1,
                     balance |-> wallet[u].balance + EarnAmount]
    <3>1. /\ codeOrder' = codeOrder /\ wallet' = [wallet EXCEPT ![u] = w]
          /\ Shown[u] # None /\ Shown[u] = wallet[u].balance
      BY <2>0, <2>4, ShownOpen DEF Earn
    <3>2. w \in Wallet /\ ~Opening(w) /\ w.balance = Shown[u] + EarnAmount
      <4>1. wallet[u] \in Wallet /\ wallet[u].version # -1
        BY <2>0, <2>4 DEF TypeOK, Earn, Opening, NoRow
      <4>2. wallet[u].version \in Nat /\ wallet[u].balance \in Nat
        BY <4>1 DEF Wallet, NoRow
      <4>. QED BY <3>1, <4>2, AmountsAssumption DEF Wallet, Opening, NoRow
    <3>. HIDE DEF w
    <3>3. Shown' = [Shown EXCEPT ![u] = Shown[u] + EarnAmount]
      BY <2>0, <3>1, <3>2, ShownWrite
    <3>. QED BY <3>1, <3>3 DEF Sales!SalesNext, Sales!Credit, Shown
  <2>5. ASSUME NEW u \in Users,
               LockExpires(u) \/ OrdersExpire(u) \/ WalletExpires(u) \/ EarnInvalidates(u)
        PROVE  UNCHANGED Sales!salesVars
    BY <2>5, SalesStutter DEF LockExpires, OrdersExpire, WalletExpires, EarnInvalidates, mysql
  <2>6. ASSUME NEW v \in Readers, NEW u \in Users, OrdersMiss(v, u) \/ WarmWallet(v, u)
        PROVE  UNCHANGED Sales!salesVars
    BY <2>6, SalesStutter DEF OrdersMiss, WarmWallet, mysql
  <2>7. ASSUME NEW v \in Readers, ReaderStep(v) PROVE UNCHANGED Sales!salesVars
    BY <2>7, SalesStutter DEF ReaderStep, ReadOrders, FillOrders, FillWallet, mysql
  <2>8. CASE CrashRestart
    BY <2>8, SalesStutter DEF CrashRestart, mysql
  <2>9. CASE UNCHANGED vars
    BY <2>9, SalesStutter DEF vars, mysql
  <2>. QED BY <2>1, <2>2, <2>3, <2>4, <2>5, <2>6, <2>7, <2>8, <2>9 DEF Next
<1>. QED BY <1>1, <1>2, SaleInvHolds, PTL DEF Spec, ImplementsSales, Sales!SalesSpec

=============================================================================
