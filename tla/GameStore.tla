----------------------------- MODULE GameStore ------------------------------
(***************************************************************************)
(* The game library and its store: one game with its price, the reviews    *)
(* of it and one comment on them, what its users have played, the license  *)
(* codes, the account balance it is bought with, the account ledger and    *)
(* the orders.  Reads and the entries in Redis follow ReadThrough.         *)
(*                                                                         *)
(* A price is in cents, a balance in yuan.  A text stands for what a       *)
(* review or a comment on it (a remark) says, a playtime for all a play    *)
(* row holds; the pages of a list are one entry.                           *)
(***************************************************************************)
EXTENDS ReadThrough

CONSTANTS
  Prices,          \* in cents, 0 for a free game
  Grant,           \* account_balance a user signs up with
  Codes,           \* the strings seedLicensesForGamesWithoutStock generates
  Reviews, Remarks, Texts,
  Hours,           \* playtimes a client reports
  IdemKeys,        \* Idempotency-Key headers a behaviour with retries uses
  Keep

ASSUME GameStoreAssumption ==
  /\ Prices \subseteq Nat /\ Grant \in Nat /\ Codes \subseteq Nat \ {0} /\ Reviews \subseteq Nat
  /\ Hours \subseteq Nat \ {0}

VARIABLES
  game,       \* table games: the price
  reviews,
  remarks,    \* table game_review_comments
  plays,      \* table user_game_plays: playtime
  codes,      \* table game_license_codes: order a code is sold to, None when it is available, Gone before seeding
  balance,    \* users.account_balance
  ledger,     \* table account_transactions, by the order its txn_id is derived from
  orders      \* table game_orders

library == <<game, reviews, remarks, plays>>
sales   == <<codes, balance, ledger, orders>>
store   == <<library, sales>>

-----------------------------------------------------------------------------
(* The entries, each with its get, set and delete; InvalidateGamesList-    *)
(* Cache and DeleteKeysByPattern delete every page of a list.              *)

GameKey       == <<"game", Everyone>>
GamesKey      == <<"games", Everyone>>
ReviewKey(r)  == <<"review", r>>
ReviewsKey    == <<"reviews", Everyone>>
ThreadKey(r)  == <<"thread", r>>
PlaysKey(u)   == <<"plays", u>>
OrdersKey(u)  == <<"orders", u>>
BalanceKey(u) == <<"balance", u>>

StoreKeys == {GameKey, GamesKey, ReviewsKey} \cup {ReviewKey(r) : r \in Reviews}
             \cup {ThreadKey(r) : r \in Reviews} \cup {PlaysKey(u) : u \in Users}
             \cup {OrdersKey(u) : u \in Users} \cup {BalanceKey(u) : u \in Users}

(* What MySQL answers; a single row that is absent is None, a list never.  *)
GetGameByID == Present(game)
ListGames == <<Present(game)>>
GetReviewByID(r) == Present(reviews[r])
ListReviewsByGameID == {<<r, reviews[r]>> : r \in {s \in Reviews : Live(reviews[s])}}
ListReviewComments(r) == {<<c, remarks[c]>> : c \in {d \in Remarks : Live(remarks[d]) /\ remarks[d].review = r}}
ListUserGamePlays(u) == IF plays[u] = None THEN <<>> ELSE <<plays[u], Present(game)>>
ListOrdersByUser(u) == {o \in orders : o.user = u}

StoreView(k) ==
  CASE k[1] = "game"    -> GetGameByID
    [] k[1] = "games"   -> ListGames
    [] k[1] = "review"  -> GetReviewByID(k[2])
    [] k[1] = "reviews" -> ListReviewsByGameID
    [] k[1] = "thread"  -> ListReviewComments(k[2])
    [] k[1] = "plays"   -> ListUserGamePlays(k[2])
    [] k[1] = "orders"  -> ListOrdersByUser(k[2])
    [] k[1] = "balance" -> balance[k[2]]

-----------------------------------------------------------------------------
OrderIds == Users \X (IdemKeys \cup 1..Calls)
ASSUME RowsAssumption ==
  /\ None \notin Codes /\ None \notin OrderIds /\ Gone \notin OrderIds
  /\ None \notin [user : Users, review : Reviews, text : Texts]
Review(u, text) == [user |-> u, text |-> text]
Remark(u, r, text) == [user |-> u, review |-> r, text |-> text]

(* Rows have their types; only a purchase that has claimed a license code  *)
(* holds one, no two the same.                                             *)
StoreTypeOK ==
  /\ game \in Prices \cup {None, Gone}
  /\ reviews \in [Reviews -> {None, Gone} \cup [user : Users, text : Texts]]
  /\ remarks \in [Remarks -> {None, Gone} \cup [user : Users, review : Reviews, text : Texts]]
  /\ plays \in [Users -> {None, 0} \cup Hours]
  /\ codes \in [Codes -> {None, Gone} \cup OrderIds]
  /\ balance \in [Users -> Int]
  /\ ledger \subseteq [id : OrderIds, user : Users, amount : Nat]
  /\ orders \subseteq [id : OrderIds, user : Users, price : Prices, code : Codes \cup {None}]
  /\ \A p \in Procs :
       /\ proc[p].held # None <=> proc[p].op = "purchase" /\ proc[p].step \in {"balance", "commit"} /\ proc[p].val > 0
       /\ \A q \in Procs \ {p} : proc[p].held # None => proc[p].held # proc[q].held

StoreInit ==
  /\ game \in IF "createGame" \in offer THEN {None} ELSE Prices
  /\ codes = [c \in Codes |-> IF game # None /\ game > 0 THEN None ELSE Gone]
  /\ reviews = [r \in Reviews |-> None] /\ remarks = [c \in Remarks |-> None]
  /\ plays = [u \in Users |-> None]
  /\ balance = [u \in Users |-> Grant] /\ ledger = {} /\ orders = {}

(* A statement that fails leaves the rows as they are.                     *)
Fails(p) == DbFaults /\ End(p) /\ UNCHANGED <<shared, store>>

-----------------------------------------------------------------------------
(* Reads.  GetMe asks for the balance; GetUserGamePlays is GetMyGamePlays  *)
(* for another user.                                                       *)

ReadOf(p, what, u, k) == Request(p, what) /\ Read(p, u, k) /\ UNCHANGED store

GetGame(p)            == ReadOf(p, "readGames", None, GameKey)
ListGamesPage(p)      == ReadOf(p, "readGames", None, GamesKey)
GetReview(p)          == \E r \in Reviews : ReadOf(p, "readReviews", None, ReviewKey(r))
ListReviews(p)        == ReadOf(p, "readReviews", None, ReviewsKey)
ListThread(p)         == \E r \in Reviews : ReadOf(p, "readReviews", None, ThreadKey(r))
GetMyGamePlays(p)     == \E u \in Users : ReadOf(p, "readMine", u, PlaysKey(u))
ListMyGameOrders(p)   == \E u \in Users : ReadOf(p, "readMine", u, OrdersKey(u))
GetAccountBalance(p)  == \E u \in Users : ReadOf(p, "readMine", u, BalanceKey(u))

-----------------------------------------------------------------------------
(* Games.  Play lists are preloaded with the game, also of a game whose id *)
(* a client sent before it was made, and no write of a game deletes them.  *)
(* A game that is there goes on to its topic (Community.EnsureGameTopic),  *)
(* a permanent one; when that fails so does the call, and the lists keep   *)
(* showing the library without the game.                                   *)
AllPlays == {PlaysKey(u) : u \in Users}

CreateGame(p) ==
  /\ Request(p, "createGame") /\ Fresh(game)
  /\ \/ /\ game' \in Prices
        /\ ThenStep(p, Call("game", None, None, FALSE), "topic", <<GamesKey>>)
        /\ Abandon(AllPlays)
        /\ UNCHANGED <<reviews, remarks, plays, sales>>
     \/ Fails(p)

(* Keep stands for a request without a price: the one in hand is saved.    *)
UpdateGame(p) ==
  /\ Request(p, "updateGame")
  /\ \E price \in Prices \cup {Keep} : ReadThen(p, Call("updateGame", None, GameKey, price))
  /\ UNCHANGED store

SaveGame(p) ==
  /\ At(p, "updateGame", "use")
  /\ \/ /\ game' = IF proc[p].arg = Keep THEN proc[p].val ELSE proc[p].arg
        /\ Committed(p, <<GameKey, GamesKey>>, AllPlays)
        /\ UNCHANGED <<reviews, remarks, plays, sales>>
     \/ Fails(p)
  /\ Going

DeleteGame(p) ==
  /\ Request(p, "deleteGame")
  /\ \/ /\ game' = IF Fresh(game) THEN None ELSE Gone
        /\ Committed(p, <<GameKey, ReviewsKey, GamesKey>>, AllPlays)
        /\ UNCHANGED <<reviews, remarks, plays, sales>>
     \/ Fails(p)

-----------------------------------------------------------------------------
(* Reviews: one per user, checked before the insertion; the handlers check *)
(* the author on the review the cache shows.                               *)

CreateReview(p) ==
  /\ Request(p, "createReview")
  /\ \E u \in Users, text \in Texts :
       IF \E r \in Reviews : Live(reviews[r]) /\ reviews[r].user = u THEN UNCHANGED proc
       ELSE Become(p, [Call("createReview", u, None, text) EXCEPT !.step = "use"])
  /\ UNCHANGED <<shared, store>>

InsertReview(p) ==
  /\ At(p, "createReview", "use")
  /\ \/ \E r \in Reviews :
          /\ Fresh(reviews[r]) /\ \A s \in Reviews : Fresh(reviews[s]) => r <= s
          /\ reviews' = [reviews EXCEPT ![r] = Review(proc[p].user, proc[p].arg)]
          /\ Committed(p, <<ReviewsKey>>, {})
          /\ UNCHANGED <<game, remarks, plays, sales>>
     \/ Fails(p)
  /\ Going

OfReview(p, op) ==
  /\ Request(p, op)
  /\ \E u \in Users, r \in Reviews, text \in Texts : ReadThen(p, Call(op, u, ReviewKey(r), text))
  /\ UNCHANGED store
UpdateReview(p) == OfReview(p, "updateReview")
DeleteReview(p) == OfReview(p, "deleteReview")

ReviewEntries(r) == <<ReviewKey(r), ReviewsKey, ThreadKey(r)>>

NotOwn(p) ==
  /\ At(p, "updateReview", "use") \/ At(p, "deleteReview", "use")
  /\ proc[p].val.user # proc[p].user
  /\ End(p) /\ Going /\ UNCHANGED <<shared, store>>

SaveReview(p) ==
  LET r == proc[p].key[2] IN
  /\ At(p, "updateReview", "use") /\ proc[p].val.user = proc[p].user
  /\ \/ /\ reviews' = [reviews EXCEPT ![r] = Review(proc[p].val.user, proc[p].arg)]
        /\ Committed(p, ReviewEntries(r), {})
        /\ UNCHANGED <<game, remarks, plays, sales>>
     \/ Fails(p)
  /\ Going

(* The service asks MySQL once more whether the review is there.           *)
DropReview(p) ==
  LET r == proc[p].key[2] IN
  /\ At(p, "deleteReview", "use") /\ proc[p].val.user = proc[p].user
  /\ \/ /\ Live(reviews[r])
        /\ reviews' = [reviews EXCEPT ![r] = Gone]
        /\ Committed(p, ReviewEntries(r), {})
        /\ UNCHANGED <<game, remarks, plays, sales>>
     \/ ~Live(reviews[r]) /\ End(p) /\ UNCHANGED <<shared, store>>
     \/ Fails(p)
  /\ Going

-----------------------------------------------------------------------------
(* Comments on reviews: read from MySQL, changed in a later statement.     *)

CreateReviewComment(p) ==
  /\ Request(p, "createComment")
  /\ \/ \E u \in Users, r \in Reviews, text \in Texts, c \in Remarks :
          /\ Fresh(remarks[c])
          /\ remarks' = [remarks EXCEPT ![c] = Remark(u, r, text)]
          /\ Committed(p, <<ThreadKey(r)>>, {})
          /\ UNCHANGED <<game, reviews, plays, sales>>
     \/ Fails(p)

OfComment(p, op) ==
  /\ Request(p, op)
  /\ \E c \in Remarks, text \in Texts :
       /\ Live(remarks[c])
       /\ Become(p, [Call(op, remarks[c].user, c, text) EXCEPT !.step = "use", !.val = remarks[c]])
  /\ UNCHANGED <<shared, store>>
UpdateReviewComment(p) == OfComment(p, "updateComment")
DeleteReviewComment(p) == OfComment(p, "deleteComment")

SaveReviewComment(p) ==
  LET old == proc[p].val IN
  /\ At(p, "updateComment", "use")
  /\ \/ /\ remarks' = [remarks EXCEPT ![proc[p].key] = Remark(old.user, old.review, proc[p].arg)]
        /\ Committed(p, <<ThreadKey(old.review)>>, {})
        /\ UNCHANGED <<game, reviews, plays, sales>>
     \/ Fails(p)
  /\ Going

(* Here too the service asks once more before it deletes.                  *)
DropReviewComment(p) ==
  LET c == proc[p].key IN
  /\ At(p, "deleteComment", "use")
  /\ \/ /\ Live(remarks[c])
        /\ remarks' = [remarks EXCEPT ![c] = Gone]
        /\ Committed(p, <<ThreadKey(remarks[c].review)>>, {})
        /\ UNCHANGED <<game, reviews, plays, sales>>
     \/ ~Live(remarks[c]) /\ End(p) /\ UNCHANGED <<shared, store>>
     \/ Fails(p)
  /\ Going

-----------------------------------------------------------------------------
(* What a user has played.                                                 *)

WritePlay(p, u, row) ==
  \/ /\ plays' = [plays EXCEPT ![u] = row]
     /\ Committed(p, <<PlaysKey(u)>>, {})
     /\ UNCHANGED <<game, reviews, remarks, sales>>
  \/ Fails(p)

UpsertMyGamePlay(p) ==
  Request(p, "play") /\ \E u \in Users, h \in Hours : WritePlay(p, u, h)
DeleteMyGamePlay(p) ==
  Request(p, "unplay") /\ \E u \in Users : WritePlay(p, u, None)

-----------------------------------------------------------------------------
(* Purchases.  The price is the one the cache shows.  A paid purchase      *)
(* locks a license code, reads the balance without a lock, lowers it if it *)
(* still suffices, and books; an order or ledger row that is already there *)
(* ends the transaction, which commits what it has done so far.            *)

ChargeYuan(price) == IF price \div 100 <= 0 THEN 1 ELSE price \div 100
IsPaidGame(price) == price > 0

(* The order id is generated, or derived from the Idempotency-Key.         *)
PurchaseGame(p) ==
  /\ Request(p, "purchase")
  /\ \E u \in Users, id \in IF "retry" \in offer THEN IdemKeys ELSE {calls'} :
       ReadThen(p, Call("purchase", u, GameKey, <<u, id>>))
  /\ UNCHANGED store

(* SELECT ... FOR UPDATE SKIP LOCKED, in the order of the ids.             *)
Unlocked == {}
Locked == {proc[p].held : p \in Procs}
Available == {c \in Codes : codes[c] = None /\ c \notin Locked}

ClaimLicense(p) ==
  /\ At(p, "purchase", "use") /\ IsPaidGame(proc[p].val)
  /\ \/ \E c \in Available :
          /\ \A d \in Available : c <= d
          /\ Become(p, [proc[p] EXCEPT !.step = "balance", !.held = c])
          /\ UNCHANGED <<shared, store>>
     \/ Available = {} /\ End(p) /\ UNCHANGED <<shared, store>>
     \/ Fails(p)
  /\ Going

AlwaysCovers(u, price) == TRUE
Covers(u, price) == balance[u] >= ChargeYuan(price)

GetUserForUpdate(p) ==
  /\ At(p, "purchase", "balance")
  /\ IF Covers(proc[p].user, proc[p].val) THEN Step(p, "commit") ELSE End(p)
  /\ Going /\ UNCHANGED <<shared, store>>

(* The statements from the conditional decrement to the commit: the row of *)
(* the user is locked from the first of them.                              *)
NotBalance(u) == <<PlaysKey(u), OrdersKey(u)>>
PurchaseEntries(u) == <<PlaysKey(u), OrdersKey(u), BalanceKey(u)>>

Book(p) ==
  LET u == proc[p].user  id == proc[p].arg  price == proc[p].val
      paid == IsPaidGame(price)
      booked == paid /\ \E t \in ledger : t.id = id
      ordered == \E o \in orders : o.id = id
  IN
  /\ balance' = IF paid THEN [balance EXCEPT ![u] = @ - ChargeYuan(price)] ELSE balance
  /\ ledger' = IF paid /\ ~booked THEN ledger \cup {[id |-> id, user |-> u, amount |-> ChargeYuan(price)]} ELSE ledger
  /\ codes' = IF paid /\ ~booked THEN [codes EXCEPT ![proc[p].held] = id] ELSE codes
  /\ IF booked \/ ordered THEN UNCHANGED <<orders, plays>>
     ELSE /\ orders' = orders \cup {[id |-> id, user |-> u, price |-> price, code |-> proc[p].held]}
          /\ plays' = [plays EXCEPT ![u] = 0]

CommitPurchase(p) ==
  LET u == proc[p].user  price == proc[p].val IN
  /\ proc[p].op = "purchase" /\ proc[p].step \in {"use", "commit"}
  /\ IsPaidGame(price) <=> proc[p].step = "commit"
  /\ \/ /\ IsPaidGame(price) => Covers(u, price)
        /\ Book(p) /\ Committed(p, PurchaseEntries(u), {})
        /\ UNCHANGED <<game, reviews, remarks>>
     \/ /\ IsPaidGame(price) /\ ~Covers(u, price)
        /\ End(p) /\ UNCHANGED <<shared, store>>
     \/ Fails(p)
  /\ Going

(* The codes of a game are the same strings at every start: when they have *)
(* been sold the insertion fails and the start goes on without.            *)
SeedLicenses ==
  codes' = IF Live(game) /\ IsPaidGame(game) /\ \A c \in Codes : codes[c] = Gone
           THEN [c \in Codes |-> None] ELSE codes

-----------------------------------------------------------------------------
StoreStep(p) ==
  \/ GetGame(p) \/ ListGamesPage(p) \/ GetReview(p) \/ ListReviews(p) \/ ListThread(p)
  \/ GetMyGamePlays(p) \/ ListMyGameOrders(p) \/ GetAccountBalance(p)
  \/ CreateGame(p) \/ UpdateGame(p) \/ SaveGame(p) \/ DeleteGame(p)
  \/ CreateReview(p) \/ InsertReview(p) \/ UpdateReview(p) \/ SaveReview(p)
  \/ DeleteReview(p) \/ DropReview(p) \/ NotOwn(p)
  \/ CreateReviewComment(p) \/ UpdateReviewComment(p) \/ SaveReviewComment(p)
  \/ DeleteReviewComment(p) \/ DropReviewComment(p)
  \/ UpsertMyGamePlay(p) \/ DeleteMyGamePlay(p)
  \/ PurchaseGame(p) \/ ClaimLicense(p) \/ GetUserForUpdate(p) \/ CommitPurchase(p)

-----------------------------------------------------------------------------
Charged(u) == {t \in ledger : t.user = u}
Total(S) == FoldSet(LAMBDA t, sum : sum + t.amount, 0, S)

(* Every paid order has a license code of its own, sold to it, and one     *)
(* ledger row of its charge; every ledger row has its order and its code,  *)
(* every sold code its order; the balance never exceeds what the ledger    *)
(* leaves of the grant, and equals it when no call repeats an              *)
(* Idempotency-Key.  Purchases race for codes and for one balance, between *)
(* a claim and a commit (PurchaseInTx).                                    *)
SalesBooked ==
  /\ \A o \in orders : IsPaidGame(o.price) =>
       /\ o.code # None /\ codes[o.code] = o.id
       /\ \E t \in ledger : t.id = o.id /\ t.user = o.user /\ t.amount = ChargeYuan(o.price)
  /\ \A s, t \in ledger : s.id = t.id => s = t
  /\ \A t \in ledger : (\E o \in orders : o.id = t.id) /\ (\E c \in Codes : codes[c] = t.id)
  /\ \A c \in Codes : Live(codes[c]) => \E o \in orders : o.id = codes[c]
  /\ \A c, d \in Codes : Live(codes[c]) /\ codes[c] = codes[d] => c = d
  /\ \A u \in Users :
       /\ balance[u] \in 0..(Grant - Total(Charged(u)))
       /\ "retry" \notin offer => balance[u] = Grant - Total(Charged(u))

(* A user is charged once for each purchase that is booked: "stable        *)
(* order_id for idempotent retry" (PurchaseGame).                          *)
ChargedOnce == \A u \in Users : balance[u] = Grant - Total(Charged(u))
=============================================================================
