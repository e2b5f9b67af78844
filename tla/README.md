# GameBog: a TLA+ verification project

GameBog is a game blog and community: a Go server (Gin, GORM v2 on MySQL, Redis,
NSQ, Kafka, Elasticsearch), a Vue front end and a Python agent. These modules
model the parts of the server where several goroutines, stores and queues have to
agree, and check and prove what makes those parts correct.

## The system and its parts

| Part | State | Operations | What is hard |
|---|---|---|---|
| Points mall (`service/points_mall_service.go`, `database/points_mall_*.go`) | MySQL: codes, orders, wallets, ledger; Redis: stock, redeem lock, idempotency keys, order-list cache | `Redeem`, `ListMyOrders`, `GetOrderForUser`, `InitStockCache` | one sale spans Redis and MySQL; lock with a TTL; idempotent retries; lost replies; restarts |
| Points (`service/points_service.go`, `database/points_*.go`) | wallets with a version, append-only ledger, daily counters, check-in bitmap, balance cache | `EnqueueEarn`, `earnPoints`, `Checkin`, `EnsureWallet`, hourly reconciliation | bookings by handlers and by the consumer of the same message; daily limit in another store |
| Kafka pipeline (`mq/kafka_init.go`) | topics, group offsets, retry counters of the loop | `PublishPointsEarn`, `consumeLoopPointsEarn`, `consumeLoop`, dead-letter topic | retries and offset commits; rebalances; at-least-once delivery |
| Article statistics (`service/article_service.go`, `mq/article_consumer.go`, `database/article_*.go`) | Redis marks, shown counts and leaderboard; NSQ topic; sharded in-memory buffers; `articles`, `article_likes` | `ReadArticle`, `LikeArticle`, `articleUnlike`, `HandleMessage`, `flushShard`, `BatchFlushArticleActions` | step-by-step rollbacks; buffers swapped while messages arrive; unordered, repeated messages; unsigned counts |
| Article cache (`service/article_service.go`, `cache/article_guard.go`) | Redis articles with logical expiry, null cache, rebuild lock, sorted set of the latest; singleflight | `GetArticle`, `CreateArticle`, `UpdateArticle`, `DeleteArticle`, `rebuildArticleCacheAsync`, `GetLatestArticlesAll` | rebuilds and seeds racing writers |
| Comments (`service/comment_service.go`, `CommentStatsWorker`) | comments and marked places, like rows, counts, buffer, cached lists | `CreateComment`, `DeleteComment`, `LikeComment`, `flush` | one step of several failing; messages during a flush |
| Notifications (`handler/notification_*.go`) | session table, idle timers, unread rows and flag, store buffer | push or store, connect, disconnect, unread sync, flush | sessions replaced while the old one closes; acknowledged but unsaved messages |
| Direct messages (`service/dm_service.go`) | messages, conversation caches, unread counters | send, list, clear, expire | write-then-invalidate races |
| Game store (`service/game_service.go`, `database/game_*.go`) | games, reviews, plays, licenses, orders, account balances and their ledger; cached entries of each | `PurchaseGame`, game and review CRUD, plays | like the mall, without Redis stock; which write drops which entry |
| Channel hub (`handler/channel/`, `database/channel_redis.go`) | event marks, synthetic identities, sessions, agent slots | webhook, `processInbound` | platform retries, get-or-create races |
| Agent gateway (`handler/agent_chat_run.go`, `handler/agentstream/`) | stream state, turn record | `RunAgentChat`, `Observe`, `Finalize` | streams that end anywhere |
| Follow, topics, users (`service/{follow,topic,user}_service.go`) | follows and their count, topics with expiry, names; cached entries of each | `CreateFollow`, `CreateTopic`, `DeleteTemporaryTopic`, cleanup, `UpdateUser`, login | counts kept beside rows; entries kept beside both |
| Search, auth, routing, front end, Python agent | indexes, tokens, pages, prompts | queries, rendering, model calls | no shared state of their own, or text that no model can judge |

The mall and the earnings meet in the wallet: both read it without a lock and
write it under the version check of `UpdateBalance`. Likes, comments and check-ins
earn points through `EnqueueEarn`. The article and comment workers hang on NSQ;
points and notifications on Kafka. Direct messages end in notifications. The hub and the
web handlers run the same agent turns and share their slots.

What makes each part correct: the mall sells a code once and charges for it exactly once,
and its stock neither strands codes nor oversells; the ledger explains every balance, an
earning is booked once and within its daily limit, and none is lost; a view once accepted reaches
MySQL; a cache does not outlive a later write for ever; a notification reaches its reader
or is stored; a platform's event is answered once, from its sender's own conversation; a turn record says how the
turn ended.

## Modules

**PointsMall** models `Redeem` statement by statement. A client is a handler
goroutine; `task[c]` is its program counter with its arguments and locals. Each Redis command
is one action. `RedeemInTx` is three: `ClaimCode` (`FOR UPDATE SKIP LOCKED`), `ReadWallet` (a
plain read: GORM v2 ignores the `gorm:query_option` that `GetWalletForUpdate` sets), and the
commit with every write (`SaleWrites`). The writes are atomic because from the wallet UPDATE
on the row lock keeps other writers out and nobody reads uncommitted rows. Earnings appear
as `OpenWallet` and `Earn`; `ListMyOrders` and
`WarmWalletRedisFromDB` as readers that fill the caches. Faults are switched by constants:
`DbFaults`, `CommitLost` (the COMMIT takes effect, its reply is lost), `RedisFaults` (a command or
its reply is lost), `LockMayExpire`, `Crashes` (with the stock sync of the next boot, which breaks off at the first
MySQL or Redis error while the server starts all the same). `lost` is a history variable: per product the units that a fault took
out of the stock (the script's lost reply, a lost `IncrStock`, what redemptions held when the process died and the sync did not come
to their product), until a completed sync or SET writes the stock anew. The order
field `key` is a history field: the table does not store the idempotency key.
`CREATE`-time duplicates of an order id (`ErrPointsTxnIdempotentSkip` in `RedeemInTx`) cannot happen with
fresh snowflake ids and are left out. The running server always has Redis, so the
`mallRedis == nil` branch is left out; the 24h expiry of keys is too.

**MallSales** is what the mall promises: unsold code, new order, enough points, one
step. `PointsMall` implements it with `sold <- codeOrder` and the balances of the wallets.

**PointsEarn** models `EnqueueEarn`, `earnPoints`, `Checkin` and `consumeLoopPointsEarn` with the
topic as a sequence, the group's committed offset and the loop's locals. `FetchMessage` moves on
whether or not the last message was committed, as kafka-go's reader does; after a rebalance or a restart
it resumes at the committed offset. The topic is one partition. `missed` is a history variable: the offsets of which
an attempt short of the last, or the publish to the dead-letter topic, has failed, so that the loop goes on to the next fetch meaning to try again.

**ArticleStats** models `LikeArticle`, `articleUnlike` and the counting part of `ReadArticle`
with their rollbacks, the NSQ topic as a set (any order, redelivered at most once in the
model), `StatsWorker` with its live and drained buffer per shard, and
`BatchFlushArticleActions`. `like_count` is unsigned, so `Underflow` refuses the transaction. The
24h expiry of the shown counts and their re-initialisation by `GetArticle` are left out.

**Articles** models the writers of an article (transaction, links to games and topics, cache, sorted set,
search message), `GetArticle` in its two forms (a hot entry past its logical expiry is
served and rebuilt behind a lock; a miss is loaded through singleflight and a lock, or without
the lock when it cannot be had), and the seeding of the latest articles. Redis may refuse each command; `unlisted` is a history
variable, the articles whose addition to the sorted set it refused, until a seeding adds them. Content is the
number of the call that wrote it. The lock's value is a token, so its release is conditional, as in the script.

**Notifications** models one user table of WebSocket sessions with its idle timers, the goroutine that
delivers a notification (push, else flag and topic, else the synchronous write), `consumeLoop`, the
buffer of the store handler with its two flushers, and the unread sync. **DirectMessages** EXTENDS it: sending a
message ends in a notification, and between looking the recipient up and pushing, the session may go. A list of peers may be cached
without those whose names could not be read; a failing DELETE ends `DeleteConversation` with the caches as they were.

**AgentStream** is the pure part of a turn: frames in, reply and turn record out, or no record when the preview of a long reply of few runes panics. **AgentChat** adds the sessions in
Redis, command by command, the slots, and the turn that runs a stream. **ChannelHub** EXTENDS both: webhooks of
Feishu, WeCom, Slack and DingTalk become inbound messages, which run the same turns. A panic ends a request of the web, where a
middleware recovers it, and the whole server in the goroutine of a channel message (`ServerDies`); calls ended by that are `lost`.

**ReadThrough** is the protocol by which store and community use Redis: `Read` and `ReadThen` ask it,
`Load` and `Fill` come after a miss, `Committed` follows a write with one `Del` per entry. `stale` is a history
variable; see `FreshAfterWrites` below. **GameStore** and **Community** say what each entry shows (`StoreView`,
`CommunityView`), and model each service method: a conditional insert or update is one action, a read that a later
statement depends on is an action of its own. `PurchaseInTx` is `ClaimLicense`, `GetUserForUpdate` (a plain
read again, for the reason given above) and `CommitPurchase`, which starts at the conditional decrement that locks the
row of the user. A new game gets its topic from Community (`EnsureGameTopic`), and a topic goes with the comments of its articles;
`Home` is the topic of the one article, in the behaviours that comment and delete topics. **Site** composes the two behind one cache, one set of calls and one restart.

The `MC` modules give the constant functions and sets for TLC. The modules named `...Proofs` hold the theorems
of a component and their proofs; each extends the model it is about. The definitions named like `AnyVersion`, `KeptAway` or `NotBalance` next to another are its faulty
variants; no specification uses them, and each makes one property fail.

## Runs

| Run | Checks | Instance |
|---|---|---|
| `mall_faults` | `TypeOK`, `SaleConsistent`, `LedgerChain`, `RecordedOrderIsOwn`, `StockCoversCodes` | 2 clients, 2 users, 2 codes, 3 order ids, a key, every fault, no earnings; 0.8 million states |
| `mall_calls` | `RedeemSerialised`, `ErrorMeansNoSale`, `ImplementsSales`, `LockLetGo` | 2 clients, 1 user with earnings, a reader, a key, database faults and crashes |
| `mall_same_key` | `OneOrderPerKey`, violated | 2 clients, no faults |
| `earn_faults` | `TypeOK`, `ReconcileClean`, `CreditedOnce` | event and check-ins, 2 days, 2 attempts, every fault; 2.7 million states |
| `earn_limit` | `WithinLimit`, `CommitCovers`, `EventuallyHandled` | 2 events under a limit of 1, 2 messages, 3 attempts, every fault but a lost COMMIT reply; 0.5 million states |
| `stats_faults` | `TypeOK`, `ViewsKept`, `BuffersRunDry` | 2 clients, 2 calls, every fault; 0.75 million states |
| `articles` | `TypeOK`, `ShowsCommitted`, `LatestKeepsNewest`, `CacheConverges`, `ReleaseOnlyOwn` | 2 writes, 2 readers or rebuilds, 3 at once, 3 articles of which 2 are kept; 0.75 million states |
| `notes` | `TypeOK`, `KeptUnlessCrash`, `EventuallyStored` | 2 notifications, 1 session with sync and idle timeout, Kafka and MySQL faults, a crash; 0.6 million states |
| `dms` | `NoGoneSession`, `ListsConverge`, `DmReminded` | a message, 2 overlapping sessions, a list reader, a deletion, the expiry; 0.4 million states |
| `agent` | `TypeOK`, `SlotsBalanced`, `DeletedStaysGone`, `RepliedOnce`, `OwnHistory`, `TurnRecordFaithful`, `TurnsEnd` | 3 requests, 2 at once, 1 slot, streams of up to 3 frames, six failing commands; 0.4 million states |
| `site` | `TypeOK`, `SalesBooked`, `CountsAgree`, `FreshAfterWrites` | 3 calls, 2 at once, 21 mixes of operations, every fault, a restart; 2.0 million states |
| `site_retry` | `ChargedOnce`, violated | purchases that repeat an Idempotency-Key |

*Bounds.* Two actors are enough for every pairwise race, and the protocols have no step
that three must take together; a third call or order lets one actor act again while the
other's step is still pending. Two codes let one sale succeed beside another and then sell
out, and a third order then meets a stock without a code; grants of 4 and 6, price 3 and earning 2 make both "enough" and "insufficient" happen, as do grant 3 and
prices of 0.5 and 2 in the store. `MaxLedger` stops earnings, `MaxDay` the calendar, `MaxLog` the topic (it is down from
then on, so publishers fall back), `MaxCalls` and `Calls` the calls, `Busy` those at work at once, `Crashes` and
`restarts` the restarts, `Deletes`, `Expiries` and `Expiring` what their names say, `Faulty` and `DeadlineAt` the
commands that may fail in `agent`; a redelivered comment message and an unanswered comment flush happen once per comment. `Offers`
lists which operations a behaviour of `Site` mixes: those that write an entry with those that fill it, and
those that meet in one row. A behaviour that likes comments begins with one. `earn_limit` has the three attempts that ship (`setting/common.yaml:42`), so that the dead-letter topic
is reached only by a message that rebalances or restarts deliver again, and one day because of the midnight case below. `dms` reads the list
of a conversation; the lists of peers are covered by the proof (`ListsStaySettled`) only.

*Conditions of properties that do not hold under every fault.* `RedeemSerialised` is
checked while the lock outlives its holder (15s); `ErrorMeansNoSale` needs the COMMIT's reply; `StockCoversCodes` counts the units in
`lost`, which only the faults named above fill, and is checked under every fault. `CommitCovers` and `EventuallyHandled` except the messages in
`missed`, whose failed attempt the code does not repeat (see below), and no other: a crash, a rebalance or a commit that fails must
skip none. `LatestKeepsNewest` excepts the articles in `unlisted`. `TurnRecordFaithful` speaks of the turns that have a record, and
`TurnsEnd` lets a request end with the server that a panic kills. `WithinLimit` needs one day and the COMMIT's
reply; `ViewsKept` and `KeptUnlessCrash` except the crash step, because messages are acknowledged before the
flush. `CountsAgree` excepts the comments and users in `miscounted`, which only failures and repeated
messages fill. `FreshAfterWrites` excepts the entries in `stale`: an entry gets there by being filled with what was
loaded before a write, by a failed deletion or an unanswered commit, or by a write that never deletes it (the third
argument of `Committed` and the one of `Abandon` name those), and leaves it when deleted, expired or filled afresh. What is left is that every write
deletes each other entry it changes, in every interleaving. The runs set the constants accordingly, and everything
else stays switched on.

*Steps taken as one.* A Redis pipeline or script, a conditional UPDATE, and the reads of one MySQL
statement. `LoadSocialStatsFromDB` is two counts taken as one.

*Fairness.* A handler goroutine, the consumer loop, a ticker goroutine and NSQ's delivery run on (weak fairness of
their next step: the Go scheduler and the servers answer or fail), and Redis drops expired keys.
`FlushWrites` has strong fairness: MySQL answers from time to time, so a batch that is put back and drained again is not
refused for ever. `Runs` assumes that a context times out, and nothing of the agent. New
calls, earnings, crashes and rebalances are never assumed. `EventuallyHandled` and `BuffersRunDry`
name their exception: crashes, rebalances or refused flushes that never stop. `Site` states safety only.

## Findings and disagreements

* `mall_same_key`: the key is looked up before the lock and not again under it; two requests with one
  key buy twice.
* `site_retry`: a repeated Idempotency-Key finds its ledger row after the balance was lowered, and the
  transaction commits: charged twice, booked once (`database/game_store_sql.go:180`).

Seen while modelling, without a run.

Points and statistics:
* `mq/kafka_init.go:318` promises a limited number of retries, then the dead-letter topic and the commit
  ("有限次重试 + 失败入 DLQ 后提交 offset"), and `setting/common.yaml:41` says the same. With the 3 attempts that ship, a failed message is
  neither retried nor dead-lettered: `FetchMessage` returns the next one, whose commit passes it (`mq/kafka_init.go:404`). It is delivered again only
  when a rebalance or a restart comes before that commit; a failed publish to the dead-letter topic is passed in the same way (`:414`).
* `InitStockCache` only warns when the sync of the stocks breaks off (`service/points_mall_service.go:38`): units lost before stay lost, and their
  codes unsold, until the next start or a sale of the product, which SETs its stock.
* `CreateArticle` ignores a failed addition to the latest articles (`service/article_service.go:270`): the home page misses the article
  for as long as the sorted set is not empty and the article belongs in it.
* The check-in bit is set first, so the retry the error message asks for is refused and the points never come.
* A quota begun before midnight and rolled back after it lowers the next day's counter, so one credit too many fits.
* `gorm:query_option` is a GORM v1 setting: `GetWalletForUpdate` and `GetUserForUpdate` lock nothing. The conditional
  updates after them keep the sums right.
* An unlike and a like within one flush window leave a count without a row; like, unlike, like in one window
  followed by an unlike takes `like_count` below zero, and the shard's buffer is refused at every flush from then on. The
  same holds for one negative sum of `CommentStatsWorker`, which keeps all others from being written.
* A failed COMMIT reply makes `flushShard` merge back, and count twice, what was written.
* `ListMyOrders` may store an order list older than the one just dropped; `SetStock` writes a count that may be stale.

Store:
* The price charged is the one the cache shows. `UpdateGame` without a price saves the one it read, so a concurrent
  change is undone; a `Save` of a row that was deleted meanwhile brings it back.
* The generated license codes of a game are the same strings at each start: once all are sold, seeding fails for good.
* A free game that gets a price and is bought again with the key of the free order is charged and gets a ledger row, but no order.
* A purchase sets the playtime of a game played before to 0.
* Two concurrent `CreateReview` of one user both pass the check; nothing in the table refuses the second.
* Creating, updating or deleting a game leaves the play lists that show it in Redis for their lifetime.
* A game is created with a topic (`service/game_service.go:64`), which the list of topics shows; only `TopicService.CreateTopic` deletes the
  cached lists (`service/topic_service.go:134`). The topics made by publishing an article (`service/article_service.go:231`, `:305`, not modelled) are
  left out of them likewise. When making the topic fails, the game stays and its list is not deleted.

Community:
* `LikeComment` changes the row first; when counting or publishing fails, its retry finds the row and does nothing.
  The count it keeps in Redis (`comment:stats`) is read by nobody.
* `CreateFollow` likewise: when the count fails, the row stays and the repeat is refused.
* `DeleteComment` does not drop the article's list, because the comment is read without its article; the flush of
  likes and the cleanup of expired topics drop nothing either.
* A topic takes the comments of its articles with it (`database/topic_sql.go:299`); the cached lists of these comments stay.
* `CreateComment` does not look whether the article exists (`handler/comment_handler.go:13`), so comments may be added to an article
  that has gone with its topic.
* `UpdateUser` deletes the entry before it writes the row; a reader in between puts the old name back.
* `handler/topic_handler.go:36` promises topics that have not expired; the list holds expired ones until the cleanup,
  and afterwards until its entry expires. `handler/user_handler.go:42` says the balance is read from the database only; it is
  cached in Redis.

Notifications and agent:
* The late disconnect of a replaced session removes the entry of its successor, which then gets no pushes.
* The unread sync marks rows read that were stored after it looked, unseen.
* A crash loses the notifications in the buffer, whose offsets are committed; `consumeLoop` passes a failed message as the points loop does.
* An event is marked before it is processed: a crash loses it, and the platform's retry is dropped.
* A turn still running brings a session back that was deleted meanwhile.
* Two first messages of one sender create two synthetic ids; one is lost with what it stored.
* `Finalize` clips a reply of more than 240 bytes to its first 240 runes (`handler/agentstream/turn_aggregator.go:112`). A reply in Chinese has
  a third as many runes as bytes, so from 81 characters on it may have too few for that, and the slice panics: no record, the exchange is not stored. The
  web recovers the panic (`logger/logger_gin.go:41`); in the goroutine that `handler/channel/hub.go:122` starts nothing does, and the server dies.
* The comment at `handler/agentstream/turn_aggregator.go:128` says that tool starts never closed are dropped ("丢弃未闭合的工具 start"); the
  code below it appends them to the record, and `RecordFaithful` says so.

The hazards in `PROJECT.json` list them with their lines.

## Proofs

`tlapm` checks 40 theorems in eight modules. Each holds for every value of the constants (any number of
clients, users, codes, sessions, messages, every bound) and under every fault its module has, unless a hypothesis is
named. A safety theorem has an inductive invariant that `Init` implies, each step keeps, and the property follows from; what it adds to
the property is said below, for that is where the argument lies. An action property follows from such an invariant
in the state before.

| Module | Proved of the specification | Invariant |
|---|---|---|
| `PointsMallProofs` | `TypeOK`, `LedgerChain`, `SaleConsistent`, `RecordedOrderIsOwn`, `ErrorMeansNoSale`, `RedeemSerialised`, `StockCoversCodes`; `LockNotAbandoned`; `ImplementsSales` | `TypeInv`, `ChainInv`, `SaleInv`, `LockInv`, `StockInv` |
| `EarnProofs` | `TypeOK`, `CreditedOnce`, `WithinLimit`, `CommitCovers`, `ReconcileClean` | `TypeInv`, `OnceInv`, `LimitInv`, `CoverInv`, `BooksInv` |
| `StatsProofs` | `TypeOK`; the action property `ViewsKept` | `StatsInv` |
| `ArticleProofs` | `TypeOK`, `ShowsCommitted`, `LatestKeepsNewest`; the action property `ReleaseOnlyOwn`; `SettledStays` | `TypeInv`, `UnreadNone`, `CommittedInv`, `LatestInv` |
| `NotesProofs` | `TypeOK`, `NoGoneSession`; the action property `KeptUnlessCrash`; `RemindersKept`, `ListsStaySettled` | `DMInv` |
| `StreamProofs` | of the operators of `AgentStream`: `RecordFaithful`, `ErrorsAgree`, `OutcomesFaithful` | `ReadRight`, line by line |
| `ChannelProofs` | `TypeOK`, `SlotsBalanced`, `RepliedOnce`, `DeletedStaysGone`, `OwnHistory`, `TurnRecordFaithful`; `StepsAreBounded` | `BaseInv`, `AnsweredInv`, `GoneInv`, `OwnInv` |
| `SiteProofs` | `TypeOK`, `SalesBooked`, `CountsAgree`, `FreshAfterWrites` | `TypeInv`, `BooksInv`, `CountsInv`, `FreshInv` |

**Mall.** `TypeOK` is not inductive: `SaleWrites` needs a code and an order id in the locals, so `TypeInv`
adds `LocalsOK`. Stock stays a natural number by the script's test for a positive stock, balances by the `balance >= ?`
of `UpdateBalance`. The ledger row of a redemption is computed from a wallet read earlier without a lock; `ChainInv` therefore
says of every snapshot that it is not newer than the wallet, and equals it where the versions are equal, which is what the commit
compares. `SaleInv` adds to `SaleConsistent` that a claimed code is available and claimed by one task, that an order
id in use is new until its commit, and that what a key leads to in Redis (placeholder or order) and what a task read there is
the user's own; `ErrorMeansNoSale` follows from it step by step. `LockInv`: a task past the lock
has its user's key set. `StockInv`: a count that a task is about to SET is at least the number of available codes, because codes only go; a unit that
leaves the stock is in the hands of a task or in `lost`, which only a SET of such a count or a completed sync empties. The refinement: `Init` maps to `SalesInit`, `SaleWrites` to `Sell` (the
conditional wallet update makes the snapshot's balance the current one), opening and earning to theirs, every other step to a
stutter.

**Earning.** `CreditedOnce` holds because a booking's commit finds the unique index, not because of the marks in Redis: `OnceInv` adds
only that a wallet that was never opened has no ledger. `LimitInv`: the daily counter covers what is credited on the day *and* what
tasks hold between raising it and committing or rolling back. `CoverInv`: every offset before the one in the loop's
hands is handled or `missed`, and the task of the consumer is the booking of that message; nothing handled is undone. `BooksInv`: the balance is
the sum of the ledger. The sum is a fold over an unordered set of positions; that it has one value, and grows by what is appended, is
proved by well-founded descent over finite sets (`MinimalSet`, `FoldExists`, `FoldsAgree`), which needs no induction scheme.

**Statistics.** `StatsInv` adds to the types that what the queue and the buffers hold is finite. `ViewsKept` splits `Accepted` into its places, counted in the queue, the live and drained buffers, and the table; each
step moves a view from one place to the next, and a flush with a lost reply may count it in two.

**Articles.** `CommittedInv`: rows, cached values, what a reader has read and what a writer past its COMMIT caches are all in
`written`. `LatestInv`: a writer past its ZADD has its article in the set, or as many newer ones as the set may hold are there, or Redis refused it,
which trimming preserves whichever ids a slow seeding merges (`HasKept`).

**Notifications and messages.** `DMInv` types the direct messages together with the notifications they extend: committed offsets
are of messages consumed, no unread counter exceeds the messages sent, a call that drops lists has one to drop.
`KeptUnlessCrash` follows place by place: delivery job, topic, buffer, batch, table.

**Channels.** `BaseInv` counts: each request still under way may create one session and draw one user id, so ids stay below
their bounds (`CountDown`); indexes list no session twice; the slots taken are the turns at a step that holds one. `AnsweredInv`: of the deliveries of
an event whose mark did not fail, one has passed the mark. `GoneInv`: sessions listed have been made, nobody is in a session
that is buried, and the migration of the legacy list cannot list it again because the list is gone. `OwnInv`: each user id has one
owner, the person whose request drew or found it, and what is stored under it, or read from there by a turn, was said by that owner.

**Streams.** `Consume` is a recursive function of a stream, `Faithful` compares the record with the whole of it. `ReadRight` says what the
gateway holds after n lines: which flags are set, which calls are open (those whose last line so far is a start), how many ends
each call has had. One lemma per part says what one more line does (`FlagsStep` and its neighbours). That it holds of every line is a descent over the naturals: of
the lines after which it is false there would be a first (`LineByLine`, from the well-foundedness of `<`), which
needs no induction scheme with an operator for its parameter; that the recursion of `Consume` has a value is proved the same way (`ReadingExists`). At the end of the stream `ReadRight` is
what `Finalize` needs. `TurnRecordFaithful` then follows for the turns of the gateway, whose streams are those.

**Safety halves of the liveness properties.** An eventuality is out of the prover's reach, what must not happen on the way to it
is not. Of each liveness property the part that no fairness gives is proved, for all values of the constants:

| Liveness, model-checked | What is proved towards it | What it needs besides |
|---|---|---|
| `LockLetGo` | `LockNotAbandoned`: a lock is left set with nobody inside only by a restart or a lost command | handlers go on; the TTL |
| `TurnsEnd` | `StepsAreBounded`: a count of at most `MaxSteps` per request that each of its steps lowers and nothing else changes but the end of the server, which ends all | handlers go on |
| `CacheConverges` | `SettledStays`: once cache, readers and writers hold an article's row, only a write to the row disturbs them | calls end, keys expire |
| `ListsConverge` | `ListsStaySettled`: once Redis and the request filling a list hold MySQL's answer, only a change of the answer, or a failed look-up that leaves a peer out, disturbs them | calls end, keys expire |
| `DmReminded` | `RemindersKept`: only a crash or the failed fallback write loses a reminder on its way | calls, goroutines and the consumer go on |
| `EventuallyStored`, `BuffersRunDry` | `KeptUnlessCrash`, `ViewsKept`: nothing on its way is lost | tickers and the consumer go on |
| `EventuallyHandled` | `CommitCovers`: no offset but those in `missed` is passed over | the loop goes on |

`SettledStays` must look at the readers at work: a cache that agrees with MySQL is overwritten by a reader that loaded before the
write, and `UnreadNone` (a reader that has not read carries nothing) is what keeps an error at the query from handing out something else.

**Site.** `TypeInv` says what the record of a call carries at each step of each operation (`Fits`), and that a cached row is one of its
entry's kind, for writes begin with what the cache shows. `BooksInv`: the code a purchase holds is unsold; order, ledger row
and sold code come together, and no code is sold without its order; an order id generated for a call belongs to it alone; the balance is never negative and, with the
ledger, at most the grant. What a step does to the sales is sorted out once (`StoreMoves`, `CommunityMoves`). `CountsInv`
adds that nothing counts yet for a comment that has not been inserted, and that the sets counted are finite; a flush that is stored has already
added what its copy holds, and each step moves a like or a follow from one place to the next.
`FreshAfterWrites` rests on one fact about a step (`FreshStep`): each entry whose answer it changes (`ViewMoves` derives which from
the rows), and each entry a call was to delete, is deleted, still to be deleted, or given up. `FreshInv` adds what makes the deleted entry the right one when the row is
read before the write: an update keeps its remark under the review it has read (`RemarkInv`), and a deleted comment still has
the author and kind that the call read (`UncommentInv`).

*Hypotheses.* `ErrorMeansNoSale` assumes `~CommitLost`, `RedeemSerialised` `~LockMayExpire`: the
constants the runs set, for the reasons given with them. `WithinLimit` assumes `~CommitLost`, and `[]SameDay`: no task about to roll
its quota back began the day before (weaker than the one day of the run; with the midnight case the property is false).
`StockCoversCodes`, `CommitCovers` and `LatestKeepsNewest` have none: what their faults take out is in the histories. `TurnRecordFaithful` and `ErrorsAgree` assume `Registry`, that the tools registry
was loaded: it is embedded into the binary (`shared/registry.go:9`), and only when it does not parse does the gateway
warn and pass frames through untranslated (`handler/agent_handler.go:44`). Then `TurnAggregator` sees errors of which `RunAgentChat` knows
nothing, and stores the exchange of a turn whose record says error: with `Registry = FALSE`, TLC finds that `TurnRecordFaithful` is violated.

*Assumptions.* The named `ASSUME`s of the models, which TLC evaluates in the runs: sets of clients, codes, articles and messages are
finite (they are counted), prices, amounts and bounds are naturals, maps have their domains and ranges, null values are not
values (`None` is no id, version or row state), and the consumer's task is not a client's.

*What the proofs found in the models.* A nested `@` in an `EXCEPT`, overlapping arms of a `CASE` and a record type written with
`SUBSET` without parentheses meant to the prover something other than to TLC, or left a value open; they were
rewritten, with the same behaviours. `Removed` in `AgentChat` is written without `SelectSeq`, whose recursive definition no backend expands.
`CreateGame` did not name the play lists among the entries it changes: a client may report playing a game whose id does not exist
yet (`UpsertMyGamePlay` checks no game), and its list, cached without the game, stays when the game is made. The proof of
`FreshAfterWrites` failed there, TLC showed the behaviour once a mix offered it, and `CreateGame` now names them.

*Only model-checked.* Liveness under fairness is out of the prover's reach: `LockLetGo`, `EventuallyHandled`, `BuffersRunDry`,
`CacheConverges`, `ListsConverge`, `DmReminded`, `EventuallyStored`, `TurnsEnd`; the table above says what is proved towards each. Every
safety invariant and action property of a passing run is a theorem. The two violated properties are counterexamples.

## Plan

1. Done: `PointsMall` with `MallSales`, `PointsEarn`, `ArticleStats`, `Articles`, `Notifications` with
   `DirectMessages`, `AgentChat` with `AgentStream` and `ChannelHub`, `GameStore` and `Community` with `Site`; the proofs above.
2. Next: no safety property that a run checks is left open; further work extends the models (see below).

## Not modelled

HTTP parsing, authentication, rate limits, search, the front end, and the text the Python agent works on: they keep no
state of their own that several actors share, or are out of a model checker's reach. Of the modelled parts: product
listings and the leaderboard of the points; lists of articles by tag, category and author; replies and discussions;
the topic `notification.push`, whose producers are gone; the map from games to topics, the topics that publishing an article makes, and the stock count shown; sign-up and passwords; signatures and
tokens of the chat platforms, of which only the outcome counts. `PROJECT.json` names them per component.
