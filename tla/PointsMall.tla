------------------------------ MODULE PointsMall ------------------------------
(***************************************************************************)
(* Points-mall redemption: PointsMallService.Redeem and the repositories   *)
(* it calls (MySQL: codes, wallets, ledger, orders; Redis: stock, redeem   *)
(* lock, idempotency keys, order-list and balance caches).                 *)
(*                                                                         *)
(* A client is one HTTP handler goroutine; every Redis command and every   *)
(* MySQL statement whose effect others can see is a step of its own.  The  *)
(* MySQL transaction of RedeemInTx is three steps: the code row is locked, *)
(* the wallet snapshot is read, and the writes take effect at the commit   *)
(* (from the wallet UPDATE on, its row lock keeps other writers out and    *)
(* readers still see the old rows).                                        *)
(***************************************************************************)
EXTENDS Integers, Sequences, FiniteSets

CONSTANTS
  Clients,       \* handler goroutines that call Redeem
  Readers,       \* handler goroutines that call ListMyOrders / WarmWalletRedisFromDB
  Users, Products,
  Codes,         \* rows of points_mall_codes
  ProductOf,     \* Codes -> Products
  Price,         \* Products -> price_points
  OrderIds,      \* snowflake ids
  Keys,          \* non-empty idempotency keys
  NoKey,         \* the empty idempotency key
  None,          \* "no row", "no key"
  Grant,         \* InitialWalletBalance
  EarnAmount,    \* points of one earning rule
  MaxLedger,     \* bound: earnings stop when a user has this many ledger rows
  LockMayExpire, \* the lock's 15s TTL may run out under a live holder
  DbFaults,      \* MySQL may fail a statement of Redeem or of the boot sync
  CommitLost,    \* MySQL may lose the reply of Redeem's COMMIT
  Crashes,       \* the process may stop and start again
  RedisFaults    \* Redis may lose a command or its reply, also in the boot sync

ASSUME ClientsAssumption == IsFiniteSet(Clients)
ASSUME CodesAssumption == ProductOf \in [Codes -> Products] /\ IsFiniteSet(Codes)
ASSUME PriceAssumption == Price \in [Products -> Nat]
ASSUME AmountsAssumption == Grant \in Nat /\ EarnAmount \in Nat
ASSUME NoneAssumption == /\ None \notin OrderIds /\ None \notin Codes
                         /\ None \notin Users /\ None \notin Nat
                         /\ NoKey \notin Keys

NoRow == -1      \* version of a wallet that has no row

VARIABLES
  codeOrder,     \* points_mall_codes: the order a code is sold to, or None
  wallet,        \* user_wallets: version and balance per user
  ledger,        \* points_transactions per user, in commit order
  orders,        \* points_mall_orders (key is a history field)
  stock,         \* Redis mall:stock:<product>
  lost,          \* history: units a fault took out of the stock, per product
  lock,          \* Redis mall:redeem:lock:<user> exists
  idem,          \* Redis mall:idem:<user>:<key>
  ordersCache,   \* Redis mall:orders:<user>: cached order ids, or None
  walletCache,   \* Redis points:wallet:<user>: cached balance, or NoRow
  task,          \* per client: where Redeem is, its arguments and locals
  reader,        \* per reader: where the cache fill is, and what it read
  dirty          \* users whose committed earning has not yet dropped the cache

mysql  == <<codeOrder, wallet, ledger, orders>>
redis  == <<stock, lost, lock, idem>>
caches == <<ordersCache, walletCache>>
other  == <<reader, dirty>>
vars   == <<mysql, redis, caches, task, other>>

InTx  == {"wallet", "commit"}                     \* the code's row is locked
Taken == {"claim", "incr"} \cup InTx              \* a unit of stock is held
Saved == {"save", "count", "set", "delwallet", "delorders"}   \* committed
LockHeld == {"decr", "unlock"} \cup Taken \cup Saved
Outcomes == {"none", "ok", "sold_out", "insufficient", "conflict", "error"}

Wallet == [version : Nat \cup {NoRow}, balance : Nat]
Entry  == [ref : OrderIds \cup {None}, amount : Int, after : Int]
Order  == [id : OrderIds, user : Users, product : Products, code : Codes,
           key : Keys \cup {NoKey}]
Task   == [step : {"idem", "lock"} \cup LockHeld, user : Users,
           product : Products, key : Keys \cup {NoKey},
           order : OrderIds \cup {None}, code : Codes \cup {None},
           seen : Wallet, counted : Nat, outcome : Outcomes]
Idle   == [step |-> "idle"]
Fill   == [step : {"orders_read", "orders_fill", "wallet_fill"}, user : Users,
           ids : SUBSET OrderIds, balance : Nat]
NoWallet == [version |-> NoRow, balance |-> 0]

(* Every variable holds a value of its table, key or local type; a Redis   *)
(* stock is never negative (the Lua script takes only what is there).      *)
TypeOK ==
  /\ codeOrder \in [Codes -> OrderIds \cup {None}]
  /\ wallet \in [Users -> Wallet]
  /\ ledger \in [Users -> Seq(Entry)]
  /\ orders \subseteq Order
  /\ stock \in [Products -> Nat] /\ lost \in [Products -> Nat]
  /\ lock \in [Users -> BOOLEAN]
  /\ idem \in [Users -> [Keys -> OrderIds \cup {None}]]
  /\ ordersCache \in [Users -> (SUBSET OrderIds) \cup {None}]
  /\ walletCache \in [Users -> Nat \cup {NoRow}]
  /\ task \in [Clients -> Task \cup {Idle}]
  /\ reader \in [Readers -> Fill \cup {Idle}]
  /\ dirty \subseteq Users

AnyCode(p)   == {k \in Codes : ProductOf[k] = p}
Available(p) == {k \in Codes : ProductOf[k] = p /\ codeOrder[k] = None}

Init ==
  /\ codeOrder = [k \in Codes |-> None]
  /\ wallet = [u \in Users |-> NoWallet]
  /\ ledger = [u \in Users |-> <<>>]
  /\ orders = {}
  /\ stock = [p \in Products |-> Cardinality({k \in Codes : ProductOf[k] = p})]
  /\ lost = [p \in Products |-> 0]
  /\ lock = [u \in Users |-> FALSE]
  /\ idem = [u \in Users |-> [k \in Keys |-> None]]
  /\ ordersCache = [u \in Users |-> None]
  /\ walletCache = [u \in Users |-> NoRow]
  /\ task = [c \in Clients |-> Idle]
  /\ reader = [v \in Readers |-> Idle]
  /\ dirty = {}

-----------------------------------------------------------------------------
(* What the statements read, and what they decide.                         *)

At(c, s)  == task[c].step = s
Active(c) == task[c].step # "idle"
Advance(c, s) == task' = [task EXCEPT ![c].step = s]
Return(c)     == task' = [task EXCEPT ![c] = Idle]
Fail(c, s, err) == task' = [task EXCEPT ![c].step = s, ![c].outcome = err]

(* RedeemInTx returns an error: the transaction has rolled back, its row   *)
(* lock is free, and Redeem goes on to IncrStock.                          *)
AbortAndRecord(c, err) ==
  task' = [task EXCEPT ![c].step = IF task[c].key = NoKey THEN "incr" ELSE "save",
                       ![c].code = None, ![c].outcome = err]
Abort(c, err) == task' = [task EXCEPT ![c].step = "incr", ![c].code = None,
                                      ![c].outcome = err]

UsedOrder(c) == IF Active(c) THEN task[c].order ELSE None
LockedCode(c) == IF Active(c) THEN task[c].code ELSE None

AnyId(o) == TRUE
Fresh(o) == /\ \A x \in orders : x.id # o
            /\ \A c \in Clients : UsedOrder(c) # o

RowsLocked(p) == Available(p)
Unlocked(p)   == Available(p) \ {LockedCode(c) : c \in Clients}

OrdersOf(u) == {x.id : x \in {y \in orders : y.user = u}}

(* The balance RedeemInTx works with: CreateWalletInTx opens a missing     *)
(* wallet with the initial grant.                                          *)
Opening(w) == w.version = NoRow
Funds(w)   == IF Opening(w) THEN Grant ELSE w.balance

(* UpdateBalance's "version = ?", and the duplicate key that stops a       *)
(* transaction from opening a wallet somebody else has opened since.       *)
AnyVersion(c)     == TRUE
VersionMatches(c) == wallet[task[c].user].version = task[c].seen.version

(* The redeem lock is SETNX; the Lua script takes a unit of a positive     *)
(* stock; IncrStock gives it back.                                         *)
LockIgnored(u)    == TRUE
LockFree(u)       == ~lock[u]
HasStockOrZero(p) == stock[p] >= 0
HasStock(p)       == stock[p] > 0
KeptAway(p)       == stock[p]
GivenBack(p)      == stock[p] + 1

-----------------------------------------------------------------------------
(* Redeem up to the transaction.                                           *)

Arrive(c, u, p, k) ==
  /\ ~Active(c)
  /\ task' = [task EXCEPT ![c] =
       [step |-> IF k = NoKey THEN "lock" ELSE "idem", user |-> u,
        product |-> p, key |-> k, order |-> None, code |-> None,
        seen |-> NoWallet, counted |-> 0, outcome |-> "none"]]
  /\ UNCHANGED <<mysql, redis, caches, other>>

Recorded(c) == idem[task[c].user][task[c].key] # None

(* A hit returns the recorded order; the key is not looked at again.       *)
CheckIdem(c) ==
  /\ At(c, "idem")
  /\ \/ Recorded(c) /\ Return(c)
     \/ ~Recorded(c) /\ Advance(c, "lock")
     \/ RedisFaults /\ Return(c)
  /\ UNCHANGED <<mysql, redis, caches, other>>

AcquireLock(c) ==
  /\ At(c, "lock")
  /\ LockFree(task[c].user)
  /\ lock' = [lock EXCEPT ![task[c].user] = TRUE]
  /\ Advance(c, "decr")
  /\ UNCHANGED <<mysql, stock, lost, idem, caches, other>>

LockBusy(c) ==
  /\ At(c, "lock")
  /\ ~LockFree(task[c].user)
  /\ Return(c)
  /\ UNCHANGED <<mysql, redis, caches, other>>

(* SETNX or its reply is lost: Redeem returns the error before it has       *)
(* deferred the release, and a lock that was set stays until it expires.   *)
LockReplyLost(c) ==
  /\ RedisFaults
  /\ At(c, "lock")
  /\ \/ lock' = [lock EXCEPT ![task[c].user] = TRUE]
     \/ UNCHANGED lock
  /\ Return(c)
  /\ UNCHANGED <<mysql, stock, lost, idem, caches, other>>

(* GetProductByID fails: nothing was taken yet, only the lock is released. *)
LookupFails(c) ==
  /\ DbFaults
  /\ At(c, "decr")
  /\ Fail(c, "unlock", "error")
  /\ UNCHANGED <<mysql, redis, caches, other>>

(* The Lua script takes one unit; the order id is generated right after.   *)
DecrStock(c, o) ==
  /\ At(c, "decr")
  /\ HasStock(task[c].product)
  /\ Fresh(o)
  /\ stock' = [stock EXCEPT ![task[c].product] = @ - 1]
  /\ task' = [task EXCEPT ![c].step = "claim", ![c].order = o]
  /\ UNCHANGED <<mysql, lost, lock, idem, caches, other>>

SoldOut(c) ==
  /\ At(c, "decr")
  /\ ~HasStock(task[c].product)
  /\ Fail(c, "unlock", "sold_out")
  /\ UNCHANGED <<mysql, redis, caches, other>>

(* The script ran but its reply was lost: Redeem returns the error without *)
(* giving the unit back.                                                   *)
DecrReplyLost(c) ==
  /\ RedisFaults
  /\ At(c, "decr")
  /\ HasStock(task[c].product)
  /\ stock' = [stock EXCEPT ![task[c].product] = @ - 1]
  /\ lost' = [lost EXCEPT ![task[c].product] = @ + 1]
  /\ Fail(c, "unlock", "error")
  /\ UNCHANGED <<mysql, lock, idem, caches, other>>

-----------------------------------------------------------------------------
(* RedeemInTx.                                                             *)

(* SELECT ... FOR UPDATE SKIP LOCKED takes one available unlocked row.     *)
ClaimCode(c, k) ==
  /\ At(c, "claim")
  /\ k \in Unlocked(task[c].product)
  /\ task' = [task EXCEPT ![c].step = "wallet", ![c].code = k]
  /\ UNCHANGED <<mysql, redis, caches, other>>

NoCode(c) ==
  /\ At(c, "claim")
  /\ Unlocked(task[c].product) = {}
  /\ Abort(c, "sold_out")
  /\ UNCHANGED <<mysql, redis, caches, other>>

(* A plain read: GORM v2 ignores the "gorm:query_option" setting, so no    *)
(* row lock is taken and the wallet may change before the commit.          *)
ReadWallet(c) ==
  LET w == wallet[task[c].user] IN
  /\ At(c, "wallet")
  /\ IF Funds(w) < Price[task[c].product]
     THEN Abort(c, "insufficient")
     ELSE task' = [task EXCEPT ![c].step = "commit", ![c].seen = w]
  /\ UNCHANGED <<mysql, redis, caches, other>>

(* The writes of the transaction, visible to others at its commit: the     *)
(* code is marked sold, the wallet opened if this transaction opens it,    *)
(* the expense row inserted, the balance lowered, the order inserted.      *)
SaleWrites(c) ==
  LET t       == task[c]
      price   == Price[t.product]
      grant   == [ref |-> None, amount |-> Grant, after |-> Grant]
      expense == [ref |-> t.order, amount |-> -price, after |-> Funds(t.seen) - price]
  IN
  /\ codeOrder' = [codeOrder EXCEPT ![t.code] = t.order]
  /\ wallet' = [wallet EXCEPT ![t.user] =
       [version |-> (IF Opening(t.seen) THEN 0 ELSE t.seen.version) + 1,
        balance |-> Funds(@) - price]]
  /\ ledger' = [ledger EXCEPT ![t.user] =
       Append(IF Opening(t.seen) THEN Append(@, grant) ELSE @, expense)]
  /\ orders' = orders \cup {[id |-> t.order, user |-> t.user, product |-> t.product,
                             code |-> t.code, key |-> t.key]}

CanCommit(c) ==
  /\ VersionMatches(c)
  /\ Funds(wallet[task[c].user]) >= Price[task[c].product]

Commit(c) ==
  /\ At(c, "commit")
  /\ CanCommit(c)
  /\ SaleWrites(c)
  /\ task' = [task EXCEPT ![c].code = None, ![c].outcome = "ok",
                ![c].step = IF task[c].key = NoKey THEN "count" ELSE "save"]
  /\ UNCHANGED <<redis, caches, other>>

CommitConflict(c) ==
  /\ At(c, "commit")
  /\ ~CanCommit(c)
  /\ Abort(c, "conflict")
  /\ UNCHANGED <<mysql, redis, caches, other>>

(* The COMMIT took effect but its reply was lost: Redeem sees an error.    *)
CommitReplyLost(c) ==
  /\ CommitLost
  /\ At(c, "commit")
  /\ CanCommit(c)
  /\ SaleWrites(c)
  /\ Abort(c, "error")
  /\ UNCHANGED <<redis, caches, other>>

TxFails(c) ==
  /\ DbFaults
  /\ task[c].step \in {"claim"} \cup InTx
  /\ Abort(c, "error")
  /\ UNCHANGED <<mysql, redis, caches, other>>

-----------------------------------------------------------------------------
(* Redeem after the transaction.  Redis errors are ignored here.           *)

RollbackStock(c) ==
  LET p == task[c].product IN
  /\ At(c, "incr")
  /\ \/ stock' = [stock EXCEPT ![p] = GivenBack(p)] /\ UNCHANGED lost
     \/ RedisFaults /\ lost' = [lost EXCEPT ![p] = @ + 1] /\ UNCHANGED stock
  /\ Advance(c, "unlock")
  /\ UNCHANGED <<mysql, lock, idem, caches, other>>

SaveIdem(c) ==
  /\ At(c, "save")
  /\ \/ idem' = [idem EXCEPT ![task[c].user][task[c].key] = task[c].order]
     \/ RedisFaults /\ UNCHANGED idem
  /\ Advance(c, "count")
  /\ UNCHANGED <<mysql, stock, lost, lock, caches, other>>

CountCodes(c) ==
  /\ At(c, "count")
  /\ \/ task' = [task EXCEPT ![c].step = "set",
                   ![c].counted = Cardinality(Available(task[c].product))]
     \/ DbFaults /\ Advance(c, "delwallet")
  /\ UNCHANGED <<mysql, redis, caches, other>>

(* SET to a count taken before, whatever the stock has become since.       *)
SetStock(c) ==
  /\ At(c, "set")
  /\ \/ /\ stock' = [stock EXCEPT ![task[c].product] = task[c].counted]
        /\ lost' = [lost EXCEPT ![task[c].product] = 0]
     \/ RedisFaults /\ UNCHANGED <<stock, lost>>
  /\ Advance(c, "delwallet")
  /\ UNCHANGED <<mysql, lock, idem, caches, other>>

DelWallet(c) ==
  /\ At(c, "delwallet")
  /\ \/ walletCache' = [walletCache EXCEPT ![task[c].user] = NoRow]
     \/ RedisFaults /\ UNCHANGED walletCache
  /\ Advance(c, "delorders")
  /\ UNCHANGED <<mysql, redis, ordersCache, other>>

DelOrders(c) ==
  /\ At(c, "delorders")
  /\ \/ ordersCache' = [ordersCache EXCEPT ![task[c].user] = None]
     \/ RedisFaults /\ UNCHANGED ordersCache
  /\ Advance(c, "unlock")
  /\ UNCHANGED <<mysql, redis, walletCache, other>>

(* The deferred DEL does not look at who set the key.                      *)
Unlock(c) ==
  /\ At(c, "unlock")
  /\ \/ lock' = [lock EXCEPT ![task[c].user] = FALSE]
     \/ RedisFaults /\ UNCHANGED lock
  /\ Return(c)
  /\ UNCHANGED <<mysql, stock, lost, idem, caches, other>>

-----------------------------------------------------------------------------
(* The rest of the system.                                                 *)

Held(u) == \E c \in Clients : task[c].step \in LockHeld /\ task[c].user = u

NoExpiry(u) == FALSE

(* Redis expires a key; nothing ties the lock's 15s to the holder's work.  *)
LockExpires(u) ==
  /\ lock[u]
  /\ LockMayExpire \/ ~Held(u)
  /\ lock' = [lock EXCEPT ![u] = FALSE]
  /\ UNCHANGED <<mysql, stock, lost, idem, caches, task, other>>

OrdersExpire(u) ==
  /\ ordersCache[u] # None
  /\ ordersCache' = [ordersCache EXCEPT ![u] = None]
  /\ UNCHANGED <<mysql, redis, walletCache, task, other>>

WalletExpires(u) ==
  /\ walletCache[u] # NoRow
  /\ walletCache' = [walletCache EXCEPT ![u] = NoRow]
  /\ UNCHANGED <<mysql, redis, ordersCache, task, other>>

(* EnsureWallet opens a missing wallet with the initial grant.             *)
OpenWallet(u) ==
  /\ Opening(wallet[u])
  /\ wallet' = [wallet EXCEPT ![u] = [version |-> 0, balance |-> Grant]]
  /\ ledger' = [ledger EXCEPT ![u] =
                  Append(@, [ref |-> None, amount |-> Grant, after |-> Grant])]
  /\ UNCHANGED <<codeOrder, orders, redis, caches, task, other>>

(* A committed earning; the cached balance is dropped by a later command.  *)
Earn(u) ==
  /\ ~Opening(wallet[u])
  /\ Len(ledger[u]) < MaxLedger
  /\ wallet' = [wallet EXCEPT ![u] = [version |-> @.version + 1,
                                      balance |-> @.balance + EarnAmount]]
  /\ ledger' = [ledger EXCEPT ![u] =
                  Append(@, [ref |-> None, amount |-> EarnAmount,
                             after |-> wallet[u].balance + EarnAmount])]
  /\ dirty' = dirty \cup {u}
  /\ UNCHANGED <<codeOrder, orders, redis, caches, task, reader>>

EarnInvalidates(u) ==
  /\ u \in dirty
  /\ dirty' = dirty \ {u}
  /\ walletCache' = [walletCache EXCEPT ![u] = NoRow]
  /\ UNCHANGED <<mysql, redis, ordersCache, task, reader>>

(* Units that redemptions under way hold.                                  *)
Units(p) == Cardinality({c \in Clients : task[c].step \in Taken /\ task[c].product = p})

(* The process stops anywhere and starts again: open transactions roll     *)
(* back, Redis keeps its keys, and InitStockCache sets every stock before  *)
(* the server listens.  At the first MySQL or Redis error it breaks off    *)
(* with a warning: the products after it keep the stock they have, less    *)
(* the units that redemptions held, and the server starts all the same.    *)
CrashRestart ==
  /\ Crashes
  /\ \E c \in Clients : Active(c)
  /\ task' = [c \in Clients |-> Idle]
  /\ reader' = [v \in Readers |-> Idle]
  /\ dirty' = {}
  /\ \E synced \in SUBSET Products :
       /\ synced = Products \/ DbFaults \/ RedisFaults
       /\ stock' = [p \in Products |-> IF p \in synced THEN Cardinality(Available(p))
                                                     ELSE stock[p]]
       /\ lost' = [p \in Products |-> IF p \in synced THEN 0 ELSE lost[p] + Units(p)]
  /\ UNCHANGED <<mysql, lock, idem, caches>>

-----------------------------------------------------------------------------
(* The read paths that fill the caches.                                    *)

Begin(v, s, u, ids, balance) ==
  reader' = [reader EXCEPT ![v] = [step |-> s, user |-> u, ids |-> ids,
                                   balance |-> balance]]

OrdersMiss(v, u) ==
  /\ reader[v].step = "idle"
  /\ ordersCache[u] = None
  /\ Begin(v, "orders_read", u, {}, 0)
  /\ UNCHANGED <<mysql, redis, caches, task, dirty>>

ReadOrders(v) ==
  /\ reader[v].step = "orders_read"
  /\ Begin(v, "orders_fill", reader[v].user, OrdersOf(reader[v].user), 0)
  /\ UNCHANGED <<mysql, redis, caches, task, dirty>>

FillOrders(v) ==
  /\ reader[v].step = "orders_fill"
  /\ ordersCache' = [ordersCache EXCEPT ![reader[v].user] = reader[v].ids]
  /\ reader' = [reader EXCEPT ![v] = Idle]
  /\ UNCHANGED <<mysql, redis, walletCache, task, dirty>>

WarmWallet(v, u) ==
  /\ reader[v].step = "idle"
  /\ ~Opening(wallet[u])
  /\ Begin(v, "wallet_fill", u, {}, wallet[u].balance)
  /\ UNCHANGED <<mysql, redis, caches, task, dirty>>

FillWallet(v) ==
  /\ reader[v].step = "wallet_fill"
  /\ walletCache' = [walletCache EXCEPT ![reader[v].user] = reader[v].balance]
  /\ reader' = [reader EXCEPT ![v] = Idle]
  /\ UNCHANGED <<mysql, redis, ordersCache, task, dirty>>

-----------------------------------------------------------------------------
RedeemStep(c) ==
  \/ CheckIdem(c) \/ AcquireLock(c) \/ LockBusy(c) \/ LockReplyLost(c)
  \/ LookupFails(c) \/ SoldOut(c) \/ DecrReplyLost(c)
  \/ \E o \in OrderIds : DecrStock(c, o)
  \/ \E k \in Codes : ClaimCode(c, k)
  \/ NoCode(c) \/ ReadWallet(c)
  \/ Commit(c) \/ CommitConflict(c) \/ CommitReplyLost(c) \/ TxFails(c)
  \/ RollbackStock(c) \/ SaveIdem(c) \/ CountCodes(c) \/ SetStock(c)
  \/ DelWallet(c) \/ DelOrders(c) \/ Unlock(c)

ReaderStep(v) == ReadOrders(v) \/ FillOrders(v) \/ FillWallet(v)

Next ==
  \/ \E c \in Clients, u \in Users, p \in Products, k \in Keys \cup {NoKey} :
       Arrive(c, u, p, k)
  \/ \E c \in Clients : RedeemStep(c)
  \/ \E u \in Users : \/ LockExpires(u) \/ OrdersExpire(u) \/ WalletExpires(u)
                      \/ OpenWallet(u) \/ Earn(u) \/ EarnInvalidates(u)
  \/ \E v \in Readers, u \in Users : OrdersMiss(v, u) \/ WarmWallet(v, u)
  \/ \E v \in Readers : ReaderStep(v)
  \/ CrashRestart

Spec == Init /\ [][Next]_vars

(* A handler that was started runs on, and Redis drops an expired key.     *)
(* Calls, earnings and crashes are the environment's.                      *)
Fairness ==
  /\ \A c \in Clients : WF_vars(RedeemStep(c))
  /\ \A v \in Readers : WF_vars(ReaderStep(v))
  /\ \A u \in Users : /\ WF_vars(LockExpires(u))
                      /\ WF_vars(OrdersExpire(u))
                      /\ WF_vars(WalletExpires(u))
                      /\ WF_vars(EarnInvalidates(u))

FairSpec == Spec /\ Fairness

-----------------------------------------------------------------------------
(* Safety.                                                                 *)

IsExpense(u, i, x) == /\ x.user = u
                      /\ ledger[u][i].ref = x.id
                      /\ ledger[u][i].amount = -Price[x.product]

(* Codes, orders and the ledger agree: an order holds exactly one sold     *)
(* code of its product and was paid with exactly one expense row, and a    *)
(* sold code or an expense row belongs to an order.  This is what          *)
(* RedeemInTx's row lock, version check and fresh order id are for.        *)
SaleConsistent ==
  /\ \A x, y \in orders : x.id = y.id \/ x.code = y.code => x = y
  /\ \A x \in orders : /\ codeOrder[x.code] = x.id
                       /\ ProductOf[x.code] = x.product
                       /\ \E i \in 1..Len(ledger[x.user]) : IsExpense(x.user, i, x)
  /\ \A k \in Codes : codeOrder[k] # None =>
       \E x \in orders : x.code = k /\ x.id = codeOrder[k]
  /\ \A u \in Users : \A i \in 1..Len(ledger[u]) : ledger[u][i].ref # None =>
       /\ \E x \in orders : IsExpense(u, i, x)
       /\ \A j \in 1..Len(ledger[u]) : ledger[u][j].ref = ledger[u][i].ref => i = j

(* The ledger explains the balance: row by row, balance_after is the last  *)
(* balance_after plus the amount and never negative; the wallet shows the  *)
(* last one, and its version counts the updates.  The optimistic version   *)
(* check of UpdateBalance is what keeps balance_after, computed from an    *)
(* unlocked read, from going stale.                                        *)
Before(u, i) == IF i = 1 THEN 0 ELSE ledger[u][i - 1].after
LedgerChain ==
  \A u \in Users :
    /\ Len(ledger[u]) = wallet[u].version + 1
    /\ wallet[u].balance = Before(u, Len(ledger[u]) + 1)
    /\ \A i \in 1..Len(ledger[u]) :
         /\ ledger[u][i].after = Before(u, i) + ledger[u][i].amount
         /\ ledger[u][i].after >= 0

(* An idempotency key, once recorded, leads to an order its user placed    *)
(* with that key (Redeem returns the recorded order without checking).     *)
RecordedOrderIsOwn ==
  \A u \in Users, k \in Keys : idem[u][k] # None =>
    \E x \in orders : x.id = idem[u][k] /\ x.user = u /\ x.key = k

(* Redis strands no code by itself: what the stock shows, with the units   *)
(* taken by redemptions still under way and the units a fault took out     *)
(* (the script's lost reply, a lost IncrStock, a crash whose boot sync     *)
(* broke off), covers every available code, also after stale SETs, failed  *)
(* transactions and restarts; and a completed sync of the product or SET   *)
(* of its stock makes good every unit lost before.                         *)
StockCoversCodes ==
  \A p \in Products : stock[p] + Units(p) + lost[p] >= Cardinality(Available(p))

(* Redemptions of one user do not overlap (the redeem lock's promise).     *)
RedeemSerialised ==
  \A c, d \in Clients : /\ task[c].step \in LockHeld
                        /\ task[d].step \in LockHeld
                        /\ task[c].user = task[d].user
                        => c = d

(* A redemption that answers with an error has sold and charged nothing.   *)
ErrorMeansNoSale ==
  \A c \in Clients : Active(c) =>
    (task[c].outcome \notin {"none", "ok"} => \A x \in orders : x.id # task[c].order)

(* A user's idempotency key buys at most once.                             *)
OneOrderPerKey ==
  \A x, y \in orders : x.user = y.user /\ x.key = y.key /\ x.key # NoKey => x = y

(* A sale happens as one atomic purchase of the abstract specification.    *)
Sales == INSTANCE MallSales WITH
  sold <- codeOrder,
  balance <- [u \in Users |-> IF Opening(wallet[u]) THEN None ELSE wallet[u].balance]
ImplementsSales == Sales!SalesSpec

-----------------------------------------------------------------------------
(* Liveness.                                                               *)

(* The lock of a user is let go, also when its holder died.                *)
LockLetGo == \A u \in Users : lock[u] ~> ~lock[u]

=============================================================================
