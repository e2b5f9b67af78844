------------------------------ MODULE Articles ------------------------------
(***************************************************************************)
(* Articles and what Redis shows of them: CreateArticle, UpdateArticle and *)
(* DeleteArticle write MySQL and then Redis; GetArticle reads the cached   *)
(* article, with logical expiry and asynchronous rebuild for hot ones, and *)
(* loads it through singleflight and a rebuild lock on a miss; the sorted  *)
(* set of the latest articles is added to by CreateArticle and seeded by   *)
(* GetLatestArticlesAll when it is empty.                                  *)
(*                                                                         *)
(* The content of an article (its tags and category with it) is the number *)
(* of the call that wrote it, 0 for what was there before; articles are    *)
(* numbered in the order they are created.  Counters are in ArticleStats,  *)
(* the earning that ends CreateArticle in PointsEarn.                      *)
(***************************************************************************)
EXTENDS Integers, Sequences, FiniteSets

CONSTANTS
  Articles,     \* ids
  Existing,     \* the ones that exist at the start
  Wanted,       \* bound: the ones GetArticle is asked for
  Readers,
  Calls,        \* bound: calls of Create-, Update- and DeleteArticle
  Busy,         \* bound: calls made and readers at work
  Keep,         \* latestArticleKeepCount
  None, Miss,
  DbFaults,     \* a statement may fail, an UPDATE or INSERT also after it took effect
  RedisFaults   \* a Redis command may fail

ASSUME ArticlesAssumption ==
  /\ Articles \subseteq Nat /\ Existing \subseteq Articles /\ Wanted \subseteq Articles
  /\ Calls \in Nat /\ Busy \in Nat /\ Keep \in Nat \ {0}
  /\ IsFiniteSet(Articles)
ASSUME NoneAssumption == None \notin Nat \cup Readers

VARIABLES
  rows,      \* table articles: content of each article, None where there is no row
  written,   \* history: every article and content that was ever committed
  cache,     \* Redis article:detail:<id>
  lock,      \* Redis article:detail:lock:<id>: token
  latest,    \* Redis sorted set of the latest articles
  unlisted,  \* history: articles whose addition to it failed, until a seed adds them
  search,    \* messages in topic search.sync
  flight,    \* singleflight: the reader that loads each article
  reader,    \* getArticleWithGuard, or the goroutine of rebuildArticleCacheAsync
  writer,
  page,      \* bound: a behaviour visits the home page or articles, not both
  seeder,    \* GetLatestArticlesAll after it has found the set empty
  calls

mysql == <<rows, written>>
redis == <<cache, lock, latest, unlisted>>
loads == <<flight, reader>>
procs == <<loads, writer, seeder, calls, page>>
vars  == <<mysql, redis, search, procs>>

Writers  == 1..Calls
Versions == 0..Calls
Content  == Versions \cup {None}
Entry(v, isHot) == [ver |-> v, logical |-> isHot /\ v # None, expired |-> FALSE]
Entries  == {Miss} \cup [ver : Content, logical : BOOLEAN, expired : BOOLEAN]
NoWrite  == [step |-> "idle", op |-> "none", art |-> 0, ver |-> 0]
NoSeed   == [step |-> "idle", list |-> {}]
NoRead   == [step |-> "idle", art |-> 0, hot |-> FALSE, val |-> None]

WriteSteps == {"idle", "tags", "insert", "read", "update", "delete", "games", "topics",
               "cache", "latest", "search"}
ReadSteps  == {"idle", "wait", "lock", "relock", "query", "fill", "release", "again", "unlock"}

(* Every variable has its type; the sorted set never outgrows its limit.   *)
TypeOK ==
  /\ rows \in [Articles -> Content] /\ written \subseteq Articles \X Versions
  /\ cache \in [Articles -> Entries]
  /\ lock \in [Articles -> Readers \cup {None}]
  /\ latest \subseteq Articles /\ Cardinality(latest) <= Keep /\ unlisted \subseteq Articles
  /\ search \subseteq [art : Articles, ver : Versions]
  /\ flight \in [Articles -> Readers \cup {None}]
  /\ \A w \in Writers : writer[w].step \in WriteSteps /\ writer[w].ver \in Versions
  /\ \A r \in Readers : reader[r].step \in ReadSteps /\ reader[r].val \in Content
  /\ seeder.step \in {"idle", "query", "seed"} /\ seeder.list \subseteq Articles
  /\ calls \in 0..Calls /\ page \in {"home", "detail"}

Init ==
  /\ rows = [a \in Articles |-> IF a \in Existing THEN 0 ELSE None]
  /\ written = Existing \X {0}
  /\ cache = [a \in Articles |-> Miss] /\ lock = [a \in Articles |-> None]
  /\ latest = {} /\ unlisted = {} /\ search = {}
  /\ flight = [a \in Articles |-> None]
  /\ writer = [w \in Writers |-> NoWrite]
  /\ reader = [r \in Readers |-> NoRead]
  /\ seeder = NoSeed /\ calls = 0 /\ page \in {"home", "detail"}

-----------------------------------------------------------------------------
(* CreateArticle, UpdateArticle, DeleteArticle.                            *)

Room == calls + Cardinality({r \in Readers : reader[r].step # "idle"}) < Busy

WriterTo(w, step) ==
  writer' = [writer EXCEPT ![w] = IF step = "idle" THEN NoWrite ELSE [@ EXCEPT !.step = step]]

Begin(w, op, a, step) ==
  /\ w = calls + 1 /\ Room
  /\ calls' = w
  /\ writer' = [writer EXCEPT ![w] = [NoWrite EXCEPT !.step = step, !.op = op, !.art = a, !.ver = w]]
  /\ UNCHANGED <<mysql, redis, search, loads, seeder, page>>

(* The id is fresh and larger than every earlier one.                      *)
CreateArticleHandle(w) ==
  LET used == Existing \cup {writer[v].art : v \in Writers} \cup {a \in Articles : rows[a] # None}
                       \cup {m.art : m \in search}
  IN  \E a \in Articles : /\ \A b \in Articles : b < a <=> b \in used
                          /\ Begin(w, "create", a, "tags")
UpdateArticleHandle(w) == \E a \in Existing : Begin(w, "update", a, "read")
DeleteArticleHandle(w) == \E a \in Existing : Begin(w, "delete", a, "delete")

(* The topic is checked and missing tags are added, also by two calls at   *)
(* once; the call ends when the topic is not there or a statement fails.   *)
EnsureTags(w) ==
  /\ writer[w].step = "tags"
  /\ \/ WriterTo(w, IF writer[w].op = "create" THEN "insert" ELSE "update")
     \/ WriterTo(w, "idle")
  /\ UNCHANGED <<mysql, redis, search, loads, seeder, calls, page>>

Written(w) ==
  /\ rows' = [rows EXCEPT ![writer[w].art] = writer[w].ver]
  /\ written' = written \cup {<<writer[w].art, writer[w].ver>>}

InsertRow(w) ==
  /\ writer[w].step = "insert"
  /\ \/ Written(w) /\ WriterTo(w, "games")
     \/ DbFaults /\ (Written(w) \/ UNCHANGED mysql) /\ WriterTo(w, "idle")
  /\ UNCHANGED <<redis, search, loads, seeder, calls, page>>

(* The set of hot articles is replaced from the leaderboard every minute   *)
(* and may hold or miss any article; a failed look-up counts as a miss.    *)
IsHotArticle(a) == BOOLEAN

(* SetArticleCache, SetHotArticleCache, SetArticleNullCache.               *)
CacheSet(a, v, isHot) ==
  cache' \in {[cache EXCEPT ![a] = Entry(v, isHot)]} \cup (IF RedisFaults THEN {cache} ELSE {})

ReadAndCache(w) ==
  /\ writer[w].step = "read" /\ rows[writer[w].art] # None
  /\ CacheSet(writer[w].art, writer[w].ver, FALSE)
  /\ WriterTo(w, "update")
  /\ UNCHANGED <<mysql, lock, latest, unlisted, search, loads, seeder, calls, page>>

(* UpdateArticle reads the row for its author and its category.            *)
ReadForUpdate(w) ==
  /\ writer[w].step = "read"
  /\ \/ rows[writer[w].art] # None /\ WriterTo(w, "tags")
     \/ (DbFaults \/ rows[writer[w].art] = None) /\ WriterTo(w, "idle")
  /\ UNCHANGED <<mysql, redis, search, loads, seeder, calls, page>>

(* An UPDATE that finds no row is an error.                                *)
UpdateArticleWithTags(w) ==
  /\ writer[w].step = "update"
  /\ LET a == writer[w].art
     IN  \/ rows[a] # None /\ Written(w) /\ WriterTo(w, "games")
         \/ rows[a] = None /\ UNCHANGED mysql /\ WriterTo(w, "idle")
         \/ DbFaults /\ rows[a] # None /\ (Written(w) \/ UNCHANGED mysql) /\ WriterTo(w, "idle")
  /\ UNCHANGED <<redis, search, loads, seeder, calls, page>>

(* Cache, sorted set and search keep the article.                          *)
DeleteArticle(w) ==
  /\ writer[w].step = "delete"
  /\ rows' \in IF DbFaults THEN {rows, [rows EXCEPT ![writer[w].art] = None]}
               ELSE {[rows EXCEPT ![writer[w].art] = None]}
  /\ WriterTo(w, "idle")
  /\ UNCHANGED <<written, redis, search, loads, seeder, calls, page>>

(* Two transactions on tables nothing here reads; an error in either ends  *)
(* the call with the row written and Redis as it was.                      *)
ReplaceArticleGames(w) ==
  /\ writer[w].step = "games"
  /\ WriterTo(w, "topics") \/ (DbFaults /\ WriterTo(w, "idle"))
  /\ UNCHANGED <<mysql, redis, search, loads, seeder, calls, page>>

ReplaceArticleTopics(w) ==
  /\ writer[w].step = "topics"
  /\ WriterTo(w, "cache") \/ (DbFaults /\ WriterTo(w, "idle"))
  /\ UNCHANGED <<mysql, redis, search, loads, seeder, calls, page>>

WriteThrough(w) ==
  /\ writer[w].step = "cache"
  /\ \E h \in IF writer[w].op = "create" THEN {FALSE} ELSE IsHotArticle(writer[w].art) :
       CacheSet(writer[w].art, writer[w].ver, h)
  /\ WriterTo(w, IF writer[w].op = "create" THEN "latest" ELSE "search")
  /\ UNCHANGED <<mysql, lock, latest, unlisted, search, loads, seeder, calls, page>>

(* Of a set, the Keep newest.                                              *)
Untrimmed(set) == set
Trimmed(set) == {a \in set : Cardinality({b \in set : b > a}) < Keep}

(* An error is ignored: the article is then not in the set.                *)
AddLatestArticle(w) ==
  /\ writer[w].step = "latest"
  /\ \/ latest' = Trimmed(latest \cup {writer[w].art}) /\ UNCHANGED unlisted
     \/ RedisFaults /\ unlisted' = unlisted \cup {writer[w].art} /\ UNCHANGED latest
  /\ WriterTo(w, "search")
  /\ UNCHANGED <<mysql, cache, lock, search, loads, seeder, calls, page>>

syncArticleToSearch(w) ==
  /\ writer[w].step = "search"
  /\ search' = search \cup {[art |-> writer[w].art, ver |-> writer[w].ver]}
  /\ WriterTo(w, "idle")
  /\ UNCHANGED <<mysql, redis, loads, seeder, calls, page>>

-----------------------------------------------------------------------------
(* GetArticle; a reader is a request or a rebuild.                         *)

ReaderTo(r, step) == reader' = [reader EXCEPT ![r].step = step]

(* A hit is answered; an expired entry of a hot article is rebuilt by a    *)
(* goroutine.  A hit without it changes nothing.                           *)
NeedsRebuild(a) == TRUE \in IsHotArticle(a) /\ cache[a].logical /\ cache[a].expired

rebuildArticleCacheAsync(r, a) ==
  /\ reader[r].step = "idle" /\ Room
  /\ cache[a] # Miss /\ NeedsRebuild(a)
  /\ reader' = [reader EXCEPT ![r] = [step |-> "relock", art |-> a, hot |-> TRUE, val |-> None]]
  /\ UNCHANGED <<mysql, redis, search, flight, writer, seeder, calls, page>>

Missed(a) == cache[a] = Miss \/ RedisFaults

(* A miss or an error: getArticleWithGuard, where one reader loads an      *)
(* article at a time and the others wait for it.                           *)
DoLoad(r, a) ==
  /\ reader[r].step = "idle" /\ Room
  /\ Missed(a)
  /\ flight' = [flight EXCEPT ![a] = IF @ = None THEN r ELSE @]
  /\ \E h \in IsHotArticle(a) :
       reader' = [reader EXCEPT ![r] = [step |-> IF flight[a] = None THEN "lock" ELSE "wait",
                                        art |-> a, hot |-> h, val |-> None]]
  /\ UNCHANGED <<mysql, redis, search, writer, seeder, calls, page>>

SetNX(r) == LET a == reader[r].art IN lock' = [lock EXCEPT ![a] = IF @ = None THEN r ELSE @]

(* The load goes on whether or not it got the lock.                        *)
LoadLocks(r) ==
  /\ reader[r].step = "lock"
  /\ SetNX(r) \/ (RedisFaults /\ UNCHANGED lock)
  /\ ReaderTo(r, "query")
  /\ UNCHANGED <<mysql, cache, latest, unlisted, search, flight, writer, seeder, calls, page>>

(* The rebuild gives up without it.                                        *)
RebuildLocks(r) ==
  /\ reader[r].step = "relock"
  /\ \/ lock[reader[r].art] = None /\ SetNX(r) /\ ReaderTo(r, "query")
     \/ /\ lock[reader[r].art] # None \/ RedisFaults
        /\ reader' = [reader EXCEPT ![r] = NoRead] /\ UNCHANGED lock
  /\ UNCHANGED <<mysql, cache, latest, unlisted, search, flight, writer, seeder, calls, page>>

Loading(r) == flight[reader[r].art] = r
Leave(r) == IF Loading(r) THEN "release" ELSE "unlock"

(* An error other than "not found" leaves the cache alone.                 *)
GetArticleByID(r) ==
  /\ reader[r].step = "query"
  /\ \/ reader' = [reader EXCEPT ![r].step = "fill", ![r].val = rows[reader[r].art]]
     \/ DbFaults /\ ReaderTo(r, Leave(r))
  /\ UNCHANGED <<mysql, redis, search, flight, writer, seeder, calls, page>>

Fills(r) ==
  /\ reader[r].step = "fill"
  /\ CacheSet(reader[r].art, reader[r].val, reader[r].hot)
  /\ ReaderTo(r, Leave(r))
  /\ UNCHANGED <<mysql, lock, latest, unlisted, search, flight, writer, seeder, calls, page>>

(* The script compares the token before it deletes.                        *)
DeletedKey(a, r) == None
ReleaseLock(a, r) == IF lock[a] = r THEN None ELSE lock[a]

Releases(r) ==
  LET a == reader[r].art
  IN  \/ lock' = [lock EXCEPT ![a] = ReleaseLock(a, r)]
      \/ RedisFaults /\ UNCHANGED lock

(* The load returns to its own reader and to the ones that waited.         *)
LoadReturns(r) ==
  /\ reader[r].step = "release"
  /\ Releases(r)
  /\ LET a == reader[r].art
         served == {r} \cup {q \in Readers : reader[q].step = "wait" /\ reader[q].art = a}
     IN  /\ flight' = [flight EXCEPT ![a] = None]
         /\ reader' = [q \in Readers |->
              IF q \notin served THEN reader[q]
              ELSE IF reader[r].val = None THEN NoRead
              ELSE [reader[q] EXCEPT !.step = "again", !.val = reader[r].val]]
  /\ UNCHANGED <<mysql, cache, latest, unlisted, search, writer, seeder, calls, page>>

RebuildReleases(r) ==
  /\ reader[r].step = "unlock"
  /\ Releases(r)
  /\ reader' = [reader EXCEPT ![r] = NoRead]
  /\ UNCHANGED <<mysql, cache, latest, unlisted, search, flight, writer, seeder, calls, page>>

(* Each reader puts the counters on the article and caches it again.       *)
CacheAgain(r) ==
  /\ reader[r].step = "again"
  /\ CacheSet(reader[r].art, reader[r].val, reader[r].hot)
  /\ reader' = [reader EXCEPT ![r] = NoRead]
  /\ UNCHANGED <<mysql, lock, latest, unlisted, search, flight, writer, seeder, calls, page>>

-----------------------------------------------------------------------------
(* The latest articles, and what expires.                                  *)

(* A set that cannot be read counts as empty.                              *)
NoLatest == latest = {} \/ RedisFaults

GetLatestArticlesAll ==
  /\ page = "home" /\ seeder.step = "idle" /\ NoLatest
  /\ seeder' = [seeder EXCEPT !.step = "query"]
  /\ UNCHANGED <<mysql, redis, search, loads, writer, calls, page>>

GetArticleList ==
  /\ seeder.step = "query"
  /\ \/ seeder' = [step |-> "seed", list |-> Trimmed({a \in Articles : rows[a] # None})]
     \/ DbFaults /\ seeder' = NoSeed
  /\ UNCHANGED <<mysql, redis, search, loads, writer, calls, page>>

Replaced(list) == list
Seeded(list) == Trimmed(latest \cup list)

SeedLatestArticles ==
  /\ seeder.step = "seed"
  /\ \/ latest' = Seeded(seeder.list) /\ unlisted' = unlisted \ seeder.list
     \/ RedisFaults /\ UNCHANGED <<latest, unlisted>>
  /\ seeder' = NoSeed
  /\ UNCHANGED <<mysql, cache, lock, search, loads, writer, calls, page>>

LogicalExpiry(a) ==
  /\ cache[a] # Miss /\ cache[a].logical /\ ~cache[a].expired
  /\ cache' = [cache EXCEPT ![a].expired = TRUE]
  /\ UNCHANGED <<mysql, lock, latest, unlisted, search, procs>>

KeptForGood(a) == FALSE /\ UNCHANGED vars
CacheExpires(a) ==
  /\ cache[a] # Miss
  /\ cache' = [cache EXCEPT ![a] = Miss]
  /\ UNCHANGED <<mysql, lock, latest, unlisted, search, procs>>

LockExpires(a) ==
  /\ lock[a] # None
  /\ lock' = [lock EXCEPT ![a] = None]
  /\ UNCHANGED <<mysql, cache, latest, unlisted, search, procs>>

-----------------------------------------------------------------------------
WriterStep(w) ==
  \/ EnsureTags(w) \/ InsertRow(w) \/ ReadForUpdate(w) \/ UpdateArticleWithTags(w) \/ DeleteArticle(w)
  \/ ReplaceArticleGames(w) \/ ReplaceArticleTopics(w)
  \/ WriteThrough(w) \/ AddLatestArticle(w) \/ syncArticleToSearch(w)
ReaderStep(r) ==
  \/ LoadLocks(r) \/ RebuildLocks(r) \/ GetArticleByID(r) \/ Fills(r)
  \/ LoadReturns(r) \/ RebuildReleases(r) \/ CacheAgain(r)

Next ==
  \/ \E w \in Writers : \/ CreateArticleHandle(w) \/ UpdateArticleHandle(w)
                        \/ DeleteArticleHandle(w) \/ WriterStep(w)
  \/ \E r \in Readers : \/ page = "detail" /\ \E a \in Wanted : rebuildArticleCacheAsync(r, a) \/ DoLoad(r, a)
                        \/ ReaderStep(r)
  \/ GetLatestArticlesAll \/ GetArticleList \/ SeedLatestArticles
  \/ \E a \in Wanted : LogicalExpiry(a) \/ LockExpires(a) \/ CacheExpires(a)

(* Calls run to their end and Redis keys expire.                           *)
Fairness ==
  /\ \A w \in Writers : WF_vars(WriterStep(w))
  /\ \A r \in Readers : WF_vars(ReaderStep(r))
  /\ \A a \in Wanted : WF_vars(CacheExpires(a))

Spec == Init /\ [][Next]_vars /\ Fairness

-----------------------------------------------------------------------------
(* The cache never shows content that MySQL has not taken: no reader sees  *)
(* an update before its transaction, whose failure would take it back.     *)
ShowsCommitted ==
  \A a \in Articles : cache[a] # Miss /\ cache[a].ver # None => <<a, cache[a].ver>> \in written

(* A slow load or rebuild, a lost write and a delete leave old content in  *)
(* the cache, but not for ever: once the writers are done, each cached     *)
(* article is gone or what MySQL holds.                                    *)
CacheConverges ==
  \A a \in Wanted : <>[](cache[a] = Miss \/ cache[a].ver = rows[a])

(* Only the holder or the lifetime ends a rebuild lock: a load that took   *)
(* longer than its lock does not free the lock of the next one.            *)
ReleaseOnlyOwn ==
  [][\A a \in Articles, r \in Readers :
       lock[a] = r /\ lock'[a] # r => reader[r].step \in {"release", "unlock"} \/ LockExpires(a)]_vars

(* The sorted set loses no article that belongs in it: one whose creation  *)
(* came to its end is there unless Keep newer ones are, also when a slow   *)
(* seed writes an old list over it.  The exception is the failed addition  *)
(* whose error CreateArticle ignores: the article then stays out until a   *)
(* seed, of a set that is empty or cannot be read, brings it in.           *)
LatestKeepsNewest ==
  \A a \in Articles \ unlisted :
    (\E m \in search : m.art = a /\ a \notin Existing)
      => a \in latest \/ Cardinality({b \in latest : b > a}) = Keep
=============================================================================
