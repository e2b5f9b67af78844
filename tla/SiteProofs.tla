----------------------------- MODULE SiteProofs ------------------------------
(***************************************************************************)
(* Proofs about Site: the types of its state, the books of the game store, *)
(* the counts of likes and of followers, and the entries in Redis.         *)
(***************************************************************************)
EXTENDS Site, FiniteSetTheorems, SequenceTheorems, TLAPS

-----------------------------------------------------------------------------
(* The record of a call.                                                   *)

Rec(V) == [op : V, user : V, step : V, key : V, val : V, arg : V, held : V, todo : V]
New(op, user, step, key, val, arg, held, todo) ==
  [op |-> op, user |-> user, step |-> step, key |-> key, val |-> val,
   arg |-> arg, held |-> held, todo |-> todo]

ReviewRecs == [user : Users, text : Texts]
RemarkRecs == [user : Users, review : Reviews, text : Texts]

(* What the row of an entry that a write goes on from may be.              *)
Right(k, v) ==
  /\ v # None
  /\ k = GameKey => v \in Prices
  /\ \A r \in Reviews : k = ReviewKey(r) => v \in ReviewRecs

(* The operations with deletions to come.                                  *)
Deleters == {"write", "game", "follow", "topic"}
Cachers == {"read", "updateGame", "updateReview", "deleteReview", "purchase"}

(* What the call of each operation carries at each of its steps.           *)
Fits(r) ==
  /\ r.step = "idle" => r = Idle
  /\ r.op = "none" => r.step = "idle"
  /\ r.step \in {"load", "fill"} => r.op \in Cachers /\ r.key \in Keys
  /\ r.step = "fill" => Right(r.key, r.val)
  /\ r.op \in Cachers => /\ r.step \in {"load", "fill", "use", "balance", "commit"}
                         /\ r.todo = <<>>
  /\ r.op = "read" => r.step # "use"
  /\ r.step \in {"balance", "commit"} => r.op = "purchase"
  /\ r.op = "updateGame" => /\ r.key = GameKey /\ r.arg \in Prices \cup {Keep}
                            /\ r.step = "use" => r.val \in Prices
  /\ r.op \in {"updateReview", "deleteReview"} =>
       /\ \E s \in Reviews : r.key = ReviewKey(s)
       /\ r.user \in Users /\ r.arg \in Texts
       /\ r.step = "use" => r.val \in ReviewRecs
  /\ r.op = "purchase" =>
       /\ r.key = GameKey /\ r.user \in Users /\ r.arg \in OrderIds /\ r.arg[1] = r.user
       /\ r.step \in {"use", "balance", "commit"} => r.val \in Prices
  /\ r.held # None <=> r.op = "purchase" /\ r.step \in {"balance", "commit"} /\ r.val > 0
  /\ r.held # None => r.held \in Codes
  /\ r.op = "createReview" => r.step = "use" /\ r.user \in Users /\ r.arg \in Texts
  /\ r.op \in {"updateComment", "deleteComment"} =>
       r.step = "use" /\ r.key \in Remarks /\ r.val \in RemarkRecs /\ r.arg \in Texts
  /\ r.op = "game" => r.step \in {"topic", "insert"} /\ r.arg \in BOOLEAN /\ r.todo = <<GamesKey>>
  /\ r.op = "write" <=> r.step = "del"
  /\ r.step = "del" => r.todo # <<>>
  /\ r.todo \in Seq(Keys)
  /\ r.op = "uncomment" => r.step = "use" /\ r.key \in Comments /\ r.user \in Users /\ r.arg \in BOOLEAN
  /\ r.op = "like" =>
       r.step \in {"count", "publish"} /\ r.key \in Comments /\ r.user \in Users /\ r.arg \in BOOLEAN
  /\ r.op = "follow" => /\ r.step = "count" /\ r.key \in Users /\ r.user \in Users
                        /\ r.todo = <<SocialKey(r.user), SocialKey(r.key)>>
  /\ r.op = "topic" => r.step = "insert" /\ r.arg \in BOOLEAN /\ r.todo \in {<<>>, <<TopicsKey>>}
  /\ r.op = "untopic" => r.step = "use" /\ r.key \in Topics
  /\ r.op = "followTopic" => r.step = "use" /\ r.key \in Topics /\ r.user \in Users
  /\ r.op = "updateUser" => r.step = "use" /\ r.user \in Users /\ r.arg \in Names
  /\ r.op \notin Deleters => r.todo = <<>>

Steps == {"idle", "load", "fill", "use", "topic", "balance", "commit", "count", "publish", "insert", "del"}
OpsOf(o) == o \cup {"none", "read", "write", "game"}

ProcTyped ==
  /\ \E V : proc \in [Procs -> Rec(V)]
  /\ \A p \in Procs :
       /\ Fits(proc[p]) /\ proc[p].step \in Steps /\ proc[p].op \in OpsOf(offer)
       /\ \A q \in Procs \ {p} : proc[p].held # None => proc[p].held # proc[q].held
CacheTyped ==
  /\ \E V : cache \in [Keys -> V]
  /\ \A k \in Keys : cache[k] # None => Right(k, cache[k])
  /\ stale \in SUBSET Keys
StoreTyped ==
  /\ game \in Prices \cup {None, Gone}
  /\ reviews \in [Reviews -> {None, Gone} \cup ReviewRecs]
  /\ remarks \in [Remarks -> {None, Gone} \cup RemarkRecs]
  /\ plays \in [Users -> {None, 0} \cup Hours]
  /\ codes \in [Codes -> {None, Gone} \cup OrderIds]
  /\ balance \in [Users -> Int]
  /\ ledger \in SUBSET [id : OrderIds, user : Users, amount : Nat]
  /\ orders \in SUBSET [id : OrderIds, user : Users, price : Prices, code : Codes \cup {None}]
OfferTyped == offer \in Offers /\ calls \in 0..Calls /\ restarts \in 0..1
TypeInv == ProcTyped /\ CacheTyped /\ StoreTyped /\ CommunityTypeOK /\ OfferTyped

(* The record of a call that begins.                                       *)
LEMMA CallIs ==
  ASSUME NEW op, NEW u, NEW k, NEW a
  PROVE  /\ Call(op, u, k, a) = New(op, u, "idle", k, None, a, None, <<>>)
         /\ Idle = New("none", None, "idle", None, None, None, None, <<>>)
<1>1. Idle = New("none", None, "idle", None, None, None, None, <<>>)
  BY DEF Idle, New
<1>2. Call(op, u, k, a) = [[[[Idle EXCEPT !.op = op] EXCEPT !.user = u] EXCEPT !.key = k] EXCEPT !.arg = a]
  BY DEF Call
<1>3. [Idle EXCEPT !.op = op] = New(op, None, "idle", None, None, None, None, <<>>)
  BY <1>1 DEF New
<1>4. [New(op, None, "idle", None, None, None, None, <<>>) EXCEPT !.user = u]
        = New(op, u, "idle", None, None, None, None, <<>>)
  BY DEF New
<1>5. [New(op, u, "idle", None, None, None, None, <<>>) EXCEPT !.key = k]
        = New(op, u, "idle", k, None, None, None, <<>>)
  BY DEF New
<1>6. [New(op, u, "idle", k, None, None, None, <<>>) EXCEPT !.arg = a]
        = New(op, u, "idle", k, None, a, None, <<>>)
  BY DEF New
<1> QED BY <1>1, <1>2, <1>3, <1>4, <1>5, <1>6

(* The fields of a record, and the record with one of them changed.        *)
LEMMA NewIs ==
  ASSUME NEW op, NEW u, NEW s, NEW k, NEW v, NEW a, NEW h, NEW t
  PROVE  LET r == New(op, u, s, k, v, a, h, t) IN
         /\ r.op = op /\ r.user = u /\ r.step = s /\ r.key = k
         /\ r.val = v /\ r.arg = a /\ r.held = h /\ r.todo = t
         /\ \A x : /\ [r EXCEPT !.step = x] = New(op, u, x, k, v, a, h, t)
                   /\ [r EXCEPT !.val = x] = New(op, u, s, k, x, a, h, t)
                   /\ [r EXCEPT !.op = x] = New(x, u, s, k, v, a, h, t)
                   /\ [r EXCEPT !.held = x] = New(op, u, s, k, v, a, x, t)
                   /\ [r EXCEPT !.todo = x] = New(op, u, s, k, v, a, h, x)
BY DEF New

(* A call's record is the one its fields make.                             *)
LEMMA RecordIs ==
  ASSUME NEW V, NEW r \in Rec(V)
  PROVE  r = New(r.op, r.user, r.step, r.key, r.val, r.arg, r.held, r.todo)
BY DEF Rec, New

(* A process takes up another record.                                      *)
LEMMA BecomeTyped ==
  ASSUME ProcTyped, NEW p \in Procs, offer' = offer,
         NEW op \in OpsOf(offer), NEW u, NEW s \in Steps, NEW k, NEW v, NEW a, NEW h, NEW t,
         Become(p, New(op, u, s, k, v, a, h, t)), Fits(New(op, u, s, k, v, a, h, t)),
         h # None => \A q \in Procs \ {p} : proc[q].held # h
  PROVE  ProcTyped'
<1> DEFINE r == New(op, u, s, k, v, a, h, t)
<1>1. PICK V : proc \in [Procs -> Rec(V)]
  BY DEF ProcTyped
<1> DEFINE W == V \cup {op, u, s, k, v, a, h, t}
<1>2. r \in Rec(W)
  BY DEF New, Rec
<1>3. \A x \in Rec(V) : x \in Rec(W)
  BY DEF Rec
<1>4. r.held = h /\ r.op = op /\ r.step = s /\ Fits(r)
  BY NewIs
<1>5. proc' = [proc EXCEPT ![p] = r]
  BY DEF Become
<1> HIDE DEF r, W
<1>6. proc' \in [Procs -> Rec(W)]
  BY <1>1, <1>2, <1>3, <1>5
<1>7. \A q \in Procs : proc'[q] = IF q = p THEN r ELSE proc[q]
  BY <1>1, <1>5
<1>8. \A q \in Procs : Fits(proc'[q]) /\ proc'[q].step \in Steps /\ proc'[q].op \in OpsOf(offer)
  BY <1>4, <1>7 DEF ProcTyped
<1>9. ASSUME NEW q \in Procs, NEW x \in Procs \ {q}, proc'[q].held # None, proc'[q].held = proc'[x].held
      PROVE  FALSE
  BY <1>4, <1>7, <1>9 DEF ProcTyped
<1> QED BY <1>6, <1>8, <1>9 DEF ProcTyped

(* A process takes up the record r.                                        *)
LEMMA ChangeTyped ==
  ASSUME ProcTyped, NEW p \in Procs, offer' = offer, NEW W, NEW r \in Rec(W),
         proc' = [proc EXCEPT ![p] = r], Fits(r), r.step \in Steps, r.op \in OpsOf(offer),
         r.held # None => \A q \in Procs \ {p} : proc[q].held # r.held
  PROVE  ProcTyped'
<1>1. PICK V : proc \in [Procs -> Rec(V)]
  BY DEF ProcTyped
<1> DEFINE X == V \cup W
<1>2. r \in Rec(X) /\ \A x \in Rec(V) : x \in Rec(X)
  BY DEF Rec
<1> HIDE DEF X
<1>3. proc' \in [Procs -> Rec(X)]
  BY <1>1, <1>2
<1>4. \A q \in Procs : proc'[q] = IF q = p THEN r ELSE proc[q]
  BY <1>1
<1>5. \A q \in Procs : Fits(proc'[q]) /\ proc'[q].step \in Steps /\ proc'[q].op \in OpsOf(offer)
  BY <1>4 DEF ProcTyped
<1>6. ASSUME NEW q \in Procs, NEW x \in Procs \ {q}, proc'[q].held # None, proc'[q].held = proc'[x].held
      PROVE  FALSE
  BY <1>4, <1>6 DEF ProcTyped
<1> QED BY <1>3, <1>5, <1>6 DEF ProcTyped

(* A call's record has the fields of one, and they can be changed.         *)
LEMMA ProcIs ==
  ASSUME ProcTyped, NEW p \in Procs
  PROVE  \E V : /\ proc[p] \in Rec(V)
                /\ proc \in [Procs -> Rec(V)]
BY DEF ProcTyped

(* The record of no call, of a write whose deletions are to come, and of a *)
(* read that goes on to MySQL.                                             *)
LEMMA PlainFits ==
  /\ Fits(Idle) /\ Idle.op = "none" /\ Idle.step = "idle" /\ Idle.held = None /\ Idle.todo = <<>>
  /\ \A t \in Seq(Keys) : t # <<>> => Fits(New("write", None, "del", None, None, None, None, t))
  /\ \A u : \A k \in Keys : Fits(New("read", u, "load", k, None, None, None, <<>>))
<1>1. <<>> \in Seq(Keys)
  OBVIOUS
<1>2. Fits(Idle) /\ Idle.op = "none" /\ Idle.step = "idle" /\ Idle.held = None /\ Idle.todo = <<>>
  BY <1>1 DEF Fits, Idle, Cachers, Deleters
<1>3. ASSUME NEW t \in Seq(Keys), t # <<>>
      PROVE  Fits(New("write", None, "del", None, None, None, None, t))
  BY <1>3 DEF Fits, New, Cachers, Deleters
<1>4. ASSUME NEW u, NEW k \in Keys
      PROVE  Fits(New("read", u, "load", k, None, None, None, <<>>))
  BY <1>1, <1>4 DEF Fits, New, Cachers, Deleters
<1> QED BY <1>2, <1>3, <1>4

(* A call ends.                                                            *)
LEMMA EndTyped ==
  ASSUME ProcTyped, NEW p \in Procs, offer' = offer, End(p)
  PROVE  ProcTyped'
<1>1. Become(p, New("none", None, "idle", None, None, None, None, <<>>))
  BY CallIs DEF End
<1>2. Fits(New("none", None, "idle", None, None, None, None, <<>>))
  BY CallIs, PlainFits
<1>3. "none" \in OpsOf(offer) /\ "idle" \in Steps
  BY DEF OpsOf, Steps
<1> QED BY <1>1, <1>2, <1>3, BecomeTyped

(* The record of a write that is to delete entries.                        *)
ToDelete(t) == [Idle EXCEPT !.op = "write", !.step = "del", !.todo = t]

(* That record, field by field.                                            *)
LEMMA WriteIs ==
  ASSUME NEW t
  PROVE  ToDelete(t) = New("write", None, "del", None, None, None, None, t)
<1>1. [Idle EXCEPT !.op = "write", !.step = "del", !.todo = t]
        = [[[Idle EXCEPT !.op = "write"] EXCEPT !.step = "del"] EXCEPT !.todo = t]
  OBVIOUS
<1>2. Idle = New("none", None, "idle", None, None, None, None, <<>>)
  BY CallIs
<1>3. [Idle EXCEPT !.op = "write"] = New("write", None, "idle", None, None, None, None, <<>>)
  BY <1>2 DEF New
<1>4. [New("write", None, "idle", None, None, None, None, <<>>) EXCEPT !.step = "del"]
        = New("write", None, "del", None, None, None, None, <<>>)
  BY DEF New
<1>5. [New("write", None, "del", None, None, None, None, <<>>) EXCEPT !.todo = t]
        = New("write", None, "del", None, None, None, None, t)
  BY DEF New
<1> QED BY <1>1, <1>3, <1>4, <1>5 DEF ToDelete

(* A write has committed, and its entries are to be deleted.               *)
LEMMA AnsweredTyped ==
  ASSUME ProcTyped, CacheTyped, NEW p \in Procs, offer' = offer,
         NEW todo \in Seq(Keys), NEW missed, missed \subseteq Keys, Answered(p, todo, missed)
  PROVE  ProcTyped' /\ CacheTyped'
<1>1. cache' = cache /\ stale' \in SUBSET Keys
  BY DEF Answered, Abandon, Cached, CacheTyped
<1>2. CacheTyped'
  BY <1>1 DEF CacheTyped
<1>3. CASE todo = <<>>
  BY <1>2, <1>3, EndTyped DEF Answered
<1>4. CASE todo # <<>>
  <2> DEFINE r == New("write", None, "del", None, None, None, None, todo)
  <2>1. ToDelete(todo) = r
    BY WriteIs
  <2>2. Become(p, r)
    <3>1. Become(p, ToDelete(todo))
      BY <1>4 DEF Answered, ToDelete
    <3> QED BY <2>1, <3>1
  <2>3. "write" \in OpsOf(offer) /\ "del" \in Steps
    BY DEF OpsOf, Steps
  <2>4. Fits(r)
    BY <1>4, PlainFits
  <2>5. ProcTyped'
    BY <2>2, <2>3, <2>4, BecomeTyped
  <2> QED BY <1>2, <2>5
<1> QED BY <1>3, <1>4

(* A write has committed, but the process does not get to the deletions.   *)
LEMMA UnansweredTyped ==
  ASSUME ProcTyped, CacheTyped, NEW p \in Procs, offer' = offer,
         NEW todo \in Seq(Keys), NEW missed, missed \subseteq Keys, Unanswered(p, todo, missed)
  PROVE  ProcTyped' /\ CacheTyped'
<1>1. Range(todo) \subseteq Keys
  BY DEF Range
<1>2. cache' = cache /\ stale' \in SUBSET Keys
  BY <1>1 DEF Unanswered, Abandon, Cached, CacheTyped
<1>3. CacheTyped'
  BY <1>2 DEF CacheTyped
<1> QED BY <1>3, EndTyped DEF Unanswered

(* A write has committed: its entries are deleted or missed.               *)
LEMMA CommittedTyped ==
  ASSUME ProcTyped, CacheTyped, NEW p \in Procs, offer' = offer,
         NEW todo \in Seq(Keys), NEW missed, missed \subseteq Keys, Committed(p, todo, missed)
  PROVE  ProcTyped' /\ CacheTyped'
BY AnsweredTyped, UnansweredTyped DEF Committed

(* A write has committed whose one entry is to be deleted.                 *)
LEMMA AloneTyped ==
  ASSUME ProcTyped, CacheTyped, NEW p \in Procs, offer' = offer,
         NEW k \in Keys, Committed(p, <<k>>, {})
  PROVE  ProcTyped' /\ CacheTyped'
<1> DEFINE t == <<k>>
           m == {}
<1>1. t \in Seq(Keys) /\ m \subseteq Keys /\ Committed(p, t, m)
  OBVIOUS
<1> HIDE DEF t, m
<1> QED BY <1>1, CommittedTyped

-----------------------------------------------------------------------------
(* The protocol of the cache.                                              *)

(* What MySQL answers for an entry is right for it.                        *)
LEMMA ViewRight ==
  ASSUME StoreTyped, NEW k \in Keys, View(k) # None
  PROVE  Right(k, View(k))
<1>1. CASE k = GameKey
  <2>1. k \in StoreKeys /\ k[1] = "game"
    BY <1>1 DEF StoreKeys, GameKey
  <2>2. View(k) = Present(game)
    BY <2>1 DEF View, StoreView, GetGameByID
  <2>3. View(k) \in Prices
    BY <2>2 DEF Present, Live, StoreTyped
  <2> QED BY <1>1, <2>3 DEF Right, GameKey, ReviewKey
<1>2. ASSUME NEW r \in Reviews, k = ReviewKey(r)
      PROVE  Right(k, View(k))
  <2>1. k \in StoreKeys /\ k[1] = "review" /\ k[2] = r
    BY <1>2 DEF StoreKeys, ReviewKey
  <2>2. View(k) = Present(reviews[r])
    BY <2>1 DEF View, StoreView, GetReviewByID
  <2>3. View(k) \in ReviewRecs
    BY <2>2 DEF Present, Live, StoreTyped
  <2> QED BY <1>2, <2>3 DEF Right, GameKey, ReviewKey
<1> QED BY <1>1, <1>2 DEF Right

(* A read begins: it misses and goes on to MySQL.                          *)
LEMMA ReadTyped ==
  ASSUME ProcTyped, CacheTyped, NEW p \in Procs, offer' = offer, NEW u, NEW k \in Keys, Read(p, u, k)
  PROVE  ProcTyped' /\ CacheTyped'
<1>1. [Call("read", u, k, None) EXCEPT !.step = "load"] = New("read", u, "load", k, None, None, None, <<>>)
  <2>1. Call("read", u, k, None) = New("read", u, "idle", k, None, None, None, <<>>)
    BY CallIs
  <2> QED BY <2>1 DEF New
<1>2. Become(p, New("read", u, "load", k, None, None, None, <<>>)) /\ cache' = cache /\ stale' = stale
  BY <1>1 DEF Read, shared
<1>3. "read" \in OpsOf(offer) /\ "load" \in Steps
  BY DEF OpsOf, Steps
<1>4. ProcTyped'
  BY <1>2, <1>3, PlainFits, BecomeTyped
<1> QED BY <1>2, <1>4 DEF CacheTyped

(* What a write asks for that begins with a row.                           *)
Asks(op, u, k, a) ==
  /\ op \in {"updateGame", "updateReview", "deleteReview", "purchase"} /\ k \in Keys
  /\ op = "updateGame" => k = GameKey /\ a \in Prices \cup {Keep}
  /\ op \in {"updateReview", "deleteReview"} =>
       /\ \E s \in Reviews : k = ReviewKey(s)
       /\ u \in Users /\ a \in Texts
  /\ op = "purchase" => k = GameKey /\ u \in Users /\ a \in OrderIds /\ a[1] = u

(* A write begins with a read of the row it works on.                      *)
LEMMA ReadThenTyped ==
  ASSUME ProcTyped, CacheTyped, NEW p \in Procs, offer' = offer,
         NEW op \in offer, NEW u, NEW k, NEW a, Asks(op, u, k, a), ReadThen(p, Call(op, u, k, a))
  PROVE  ProcTyped' /\ CacheTyped'
<1> DEFINE c == Call(op, u, k, a)
<1>0. c = New(op, u, "idle", k, None, a, None, <<>>) /\ c.key = k
  BY CallIs DEF New
<1> HIDE DEF c
<1>1. [c EXCEPT !.step = "load"] = New(op, u, "load", k, None, a, None, <<>>)
  BY <1>0 DEF New
<1>2. [c EXCEPT !.step = "use", !.val = cache[k]] = New(op, u, "use", k, cache[k], a, None, <<>>)
  <2>1. [c EXCEPT !.step = "use"] = New(op, u, "use", k, None, a, None, <<>>)
    BY <1>0 DEF New
  <2>2. [New(op, u, "use", k, None, a, None, <<>>) EXCEPT !.val = cache[k]]
          = New(op, u, "use", k, cache[k], a, None, <<>>)
    BY DEF New
  <2>3. [c EXCEPT !.step = "use", !.val = cache[k]] = [[c EXCEPT !.step = "use"] EXCEPT !.val = cache[k]]
    OBVIOUS
  <2> QED BY <2>1, <2>2, <2>3
<1>3. /\ cache' = cache /\ stale' = stale
      /\ \/ cache[k] # None /\ Become(p, New(op, u, "use", k, cache[k], a, None, <<>>))
         \/ Become(p, New(op, u, "load", k, None, a, None, <<>>))
  BY <1>0, <1>1, <1>2 DEF ReadThen, shared, c
<1>4. op \in OpsOf(offer) /\ "load" \in Steps /\ "use" \in Steps
  BY DEF OpsOf, Steps
<1>5. Fits(New(op, u, "load", k, None, a, None, <<>>))
  <2>1. <<>> \in Seq(Keys)
    OBVIOUS
  <2> QED BY <2>1 DEF Fits, New, Cachers, Asks
<1>6. ASSUME cache[k] # None
      PROVE  Fits(New(op, u, "use", k, cache[k], a, None, <<>>))
  <2>1. Right(k, cache[k])
    BY <1>6 DEF CacheTyped, Asks
  <2>2. <<>> \in Seq(Keys)
    OBVIOUS
  <2>3. op \in {"updateReview", "deleteReview"} => cache[k] \in ReviewRecs
    BY <2>1 DEF Right, Asks
  <2>4. op \in {"updateGame", "purchase"} => cache[k] \in Prices
    BY <2>1 DEF Right, Asks
  <2> QED BY <2>2, <2>3, <2>4 DEF Fits, New, Cachers, Asks
<1>7. ProcTyped'
  BY <1>3, <1>4, <1>5, <1>6, BecomeTyped
<1> QED BY <1>3, <1>7 DEF CacheTyped

(* MySQL answers, the row is written back, an entry is deleted.            *)
LEMMA LoadTyped ==
  ASSUME ProcTyped, CacheTyped, StoreTyped, NEW p \in Procs, Load(p, View(proc[p].key))
  PROVE  ProcTyped' /\ CacheTyped' /\ offer' = offer /\ calls' = calls
<1> DEFINE row == View(proc[p].key)
<1>1. /\ offer' = offer /\ calls' = calls /\ cache' = cache /\ stale' = stale
      /\ proc[p].step = "load"
  BY DEF Load, Going, shared
<1>2. CASE row # None /\ Become(p, [proc[p] EXCEPT !.step = "fill", !.val = row])
  <2>1. PICK V : proc[p] \in Rec(V)
    BY ProcIs
  <2> DEFINE r == [proc[p] EXCEPT !.step = "fill", !.val = row]
  <2>2. /\ r \in Rec(V \cup {"fill", row})
        /\ r.op = proc[p].op /\ r.user = proc[p].user /\ r.step = "fill" /\ r.key = proc[p].key
        /\ r.val = row /\ r.arg = proc[p].arg /\ r.held = proc[p].held /\ r.todo = proc[p].todo
    BY <2>1 DEF Rec
  <2>3. Fits(proc[p]) /\ proc[p].op \in OpsOf(offer)
    BY DEF ProcTyped
  <2>4. proc[p].key \in Keys /\ proc[p].op \in Cachers
    BY <1>1, <2>3 DEF Fits
  <2>5. Right(proc[p].key, row)
    BY <1>2, <2>4, ViewRight
  <2>6. proc' = [proc EXCEPT ![p] = r]
    BY <1>2 DEF Become
  <2> HIDE DEF r, row
  <2>7. Fits(r)
    BY <1>1, <2>2, <2>3, <2>4, <2>5 DEF Fits, Cachers
  <2>8. r.held = None /\ r.step \in Steps
    BY <2>2, <2>7 DEF Fits, Steps
  <2>9. ProcTyped'
    BY <1>1, <2>2, <2>3, <2>6, <2>7, <2>8, ChangeTyped
  <2> QED BY <1>1, <2>9 DEF CacheTyped
<1>3. CASE End(p)
  BY <1>1, <1>3, EndTyped DEF CacheTyped
<1> QED BY <1>2, <1>3 DEF Load

(* A read fills the cache with the row it loaded and goes on.              *)
LEMMA FillTyped ==
  ASSUME ProcTyped, CacheTyped, NEW p \in Procs, NEW now, Fill(p, now)
  PROVE  ProcTyped' /\ CacheTyped' /\ offer' = offer /\ calls' = calls
<1> DEFINE k == proc[p].key
<1>1. offer' = offer /\ calls' = calls /\ proc[p].step = "fill"
  BY DEF Fill, Going
<1>2. Fits(proc[p]) /\ proc[p].op \in OpsOf(offer)
  BY DEF ProcTyped
<1>3. /\ k \in Keys /\ proc[p].op \in Cachers /\ Right(k, proc[p].val)
      /\ proc[p].held = None /\ proc[p].todo = <<>>
  BY <1>1, <1>2 DEF Fits, Cachers
<1>4. CacheTyped'
  <2>1. CASE UNCHANGED shared
    BY <2>1 DEF shared, CacheTyped
  <2>2. CASE /\ cache' = [cache EXCEPT ![k] = proc[p].val]
             /\ stale' = IF proc[p].val = now THEN stale \ {k} ELSE stale \cup {k}
    <3>1. stale' \in SUBSET Keys
      BY <1>3, <2>2 DEF CacheTyped
    <3>2. PICK V : cache \in [Keys -> V]
      BY DEF CacheTyped
    <3>3. cache' \in [Keys -> V \cup {proc[p].val}]
      BY <2>2, <3>2
    <3>4. \A x \in Keys : cache'[x] = IF x = k THEN proc[p].val ELSE cache[x]
      BY <2>2, <3>2
    <3>5. \A x \in Keys : cache'[x] # None => Right(x, cache'[x])
      BY <1>3, <3>4 DEF CacheTyped
    <3> QED BY <3>1, <3>3, <3>5 DEF CacheTyped
  <2> QED BY <2>1, <2>2 DEF Fill
<1>5. CASE proc[p].op = "read"
  BY <1>1, <1>4, <1>5, EndTyped DEF Fill
<1>6. CASE proc[p].op # "read"
  <2>1. PICK V : proc[p] \in Rec(V) /\ proc \in [Procs -> Rec(V)]
    BY ProcIs
  <2> DEFINE r == [proc[p] EXCEPT !.step = "use"]
  <2>2. /\ r \in Rec(V \cup {"use"})
        /\ r.op = proc[p].op /\ r.user = proc[p].user /\ r.step = "use" /\ r.key = proc[p].key
        /\ r.val = proc[p].val /\ r.arg = proc[p].arg /\ r.held = proc[p].held /\ r.todo = proc[p].todo
    BY <2>1 DEF Rec
  <2>3. proc' = [proc EXCEPT ![p] = r]
    BY <1>6, <2>1 DEF Fill, Step
  <2> HIDE DEF r
  <2>4. r.op = "updateGame" \/ r.op = "purchase" => r.val \in Prices
    BY <1>2, <1>3, <2>2 DEF Fits, Right
  <2>5. r.op = "updateReview" \/ r.op = "deleteReview" => r.val \in ReviewRecs
    BY <1>2, <1>3, <2>2 DEF Fits, Right
  <2>6. Fits(r)
    BY <1>1, <1>2, <1>3, <1>6, <2>2, <2>4, <2>5 DEF Fits, Cachers
  <2>7. r.step \in Steps /\ r.held = None /\ r.op \in OpsOf(offer)
    BY <1>2, <1>3, <2>2 DEF Steps
  <2> QED BY <1>1, <1>4, <2>2, <2>3, <2>6, <2>7, ChangeTyped
<1> QED BY <1>5, <1>6

(* Entries leave the cache.                                                *)
LEMMA EmptiedTyped ==
  ASSUME CacheTyped, NEW k \in Keys,
         \/ cache' = [cache EXCEPT ![k] = None] /\ stale' = stale \ {k}
         \/ Abandon({k}) \/ UNCHANGED shared
  PROVE  CacheTyped'
<1>1. CASE cache' = [cache EXCEPT ![k] = None] /\ stale' = stale \ {k}
  <2>1. PICK V : cache \in [Keys -> V]
    BY DEF CacheTyped
  <2>2. cache' \in [Keys -> V \cup {None}]
    BY <1>1, <2>1
  <2>3. \A x \in Keys : cache'[x] = IF x = k THEN None ELSE cache[x]
    BY <1>1, <2>1
  <2>4. stale' \in SUBSET Keys
    BY <1>1 DEF CacheTyped
  <2> QED BY <2>2, <2>3, <2>4 DEF CacheTyped
<1>2. CASE Abandon({k})
  <2>1. cache' = cache /\ stale' \in SUBSET Keys
    BY <1>2 DEF Abandon, Cached, CacheTyped
  <2> QED BY <2>1 DEF CacheTyped
<1>3. CASE UNCHANGED shared
  BY <1>3 DEF shared, CacheTyped
<1> QED BY <1>1, <1>2, <1>3

(* What is left of a list of entries after the first.                      *)
LEMMA RestOf ==
  ASSUME NEW S, NEW q \in Seq(S), q # <<>>
  PROVE  Head(q) \in S /\ Tail(q) \in Seq(S) /\ (Len(q) # 1 => Tail(q) # <<>>)
<1>1. Head(q) \in S /\ Tail(q) \in Seq(S) /\ Len(Tail(q)) = Len(q) - 1 /\ Len(q) \in Nat
  BY HeadTailProperties, LenProperties
<1>2. Len(<<>>) = 0
  OBVIOUS
<1>3. Len(q) # 1 => Len(Tail(q)) # 0
  BY <1>1
<1>4. Len(q) # 1 => Tail(q) # <<>>
  BY <1>2, <1>3
<1> QED BY <1>1, <1>4

(* A write deletes its next entry from the cache.                          *)
LEMMA DelTyped ==
  ASSUME ProcTyped, CacheTyped, NEW p \in Procs, Del(p)
  PROVE  ProcTyped' /\ CacheTyped' /\ offer' = offer /\ calls' = calls
<1> DEFINE t == proc[p].todo
<1>1. offer' = offer /\ calls' = calls /\ proc[p].step = "del"
  BY DEF Del, Going
<1>2. Fits(proc[p]) /\ proc[p].op \in OpsOf(offer)
  BY DEF ProcTyped
<1>3. t \in Seq(Keys) /\ t # <<>> /\ proc[p].op = "write" /\ proc[p].held = None
  BY <1>1, <1>2 DEF Fits
<1>4. Head(t) \in Keys /\ Tail(t) \in Seq(Keys) /\ (Len(t) # 1 => Tail(t) # <<>>)
  BY <1>3, RestOf
<1>5. CacheTyped'
  BY <1>4, EmptiedTyped DEF Del
<1>6. CASE Len(t) = 1
  BY <1>1, <1>5, <1>6, EndTyped DEF Del
<1>7. CASE Len(t) # 1
  <2>1. PICK V : proc[p] \in Rec(V) /\ proc \in [Procs -> Rec(V)]
    BY ProcIs
  <2> DEFINE r == [proc[p] EXCEPT !.todo = Tail(t)]
  <2>2. /\ r \in Rec(V \cup {Tail(t)})
        /\ r.op = proc[p].op /\ r.user = proc[p].user /\ r.step = proc[p].step /\ r.key = proc[p].key
        /\ r.val = proc[p].val /\ r.arg = proc[p].arg /\ r.held = proc[p].held /\ r.todo = Tail(t)
    BY <2>1 DEF Rec
  <2>3. proc' = [proc EXCEPT ![p] = r]
    BY <1>7, <2>1 DEF Del
  <2> HIDE DEF r
  <2>4. Fits(r)
    BY <1>1, <1>2, <1>3, <1>4, <1>7, <2>2 DEF Fits, Cachers
  <2>5. r.step \in Steps /\ r.held = None /\ r.op \in OpsOf(offer)
    BY <1>1, <1>2, <1>3, <2>2 DEF Steps
  <2> QED BY <1>1, <1>5, <2>2, <2>3, <2>4, <2>5, ChangeTyped
<1> QED BY <1>6, <1>7

(* A restart ends every call and abandons its deletions.                   *)
LEMMA CrashTyped ==
  ASSUME ProcTyped, CacheTyped, Crash
  PROVE  ProcTyped' /\ CacheTyped' /\ offer' = offer /\ calls' = calls
<1>1. /\ proc' = [p \in Procs |-> Idle] /\ offer' = offer /\ calls' = calls
      /\ Abandon({k \in Keys : Pending(k)})
  BY DEF Crash, Going
<1>2. cache' = cache /\ stale' \in SUBSET Keys
  BY <1>1 DEF Abandon, Cached, CacheTyped
<1>3. CacheTyped'
  BY <1>2 DEF CacheTyped
<1>4. Idle \in Rec({"none", "idle", None, <<>>})
  BY DEF Idle, Rec
<1>5. proc' \in [Procs -> Rec({"none", "idle", None, <<>>})]
  BY <1>1, <1>4
<1>6. \A p \in Procs : proc'[p] = Idle
  BY <1>1
<1>7. ProcTyped'
  BY <1>5, <1>6, PlainFits DEF ProcTyped, Steps, OpsOf
<1> QED BY <1>1, <1>3, <1>7

-----------------------------------------------------------------------------
(* The steps of the store.                                                 *)

(* The entries that the operations name are keys of the cache.             *)
LEMMA KeyFacts ==
  /\ {GameKey, GamesKey, ReviewsKey, CommentsKey, TopicsKey} \subseteq Keys
  /\ \A r \in Reviews : ReviewKey(r) \in Keys /\ ThreadKey(r) \in Keys
  /\ \A u \in Users : /\ {PlaysKey(u), OrdersKey(u), BalanceKey(u)} \subseteq Keys
                      /\ {CYKey(u), FollowedKey(u), SocialKey(u), UserKey(u)} \subseteq Keys
  /\ AllPlays \subseteq Keys /\ CommentLists \subseteq Keys
BY KeysAssumption DEF StoreKeys, CommunityKeys, CommentLists, AllPlays

(* Short lists of keys are sequences of keys.                              *)
LEMMA ShortLists ==
  /\ <<>> \in Seq(Keys)
  /\ \A a \in Keys : <<a>> \in Seq(Keys) /\ <<a>> # <<>>
  /\ \A a, b \in Keys : <<a, b>> \in Seq(Keys) /\ <<a, b>> # <<>>
  /\ \A a, b, c \in Keys : <<a, b, c>> \in Seq(Keys)
OBVIOUS

(* Requests are counted up to the bound.                                   *)
LEMMA Counts ==
  ASSUME OfferTyped, NEW p \in Procs, Going \/ \E op \in offer : Request(p, op)
  PROVE  offer' = offer /\ calls' \in 0..Calls
BY ReadThroughAssumption DEF OfferTyped, Going, Request

(* The record of a call between two commits.                               *)
LEMMA ThenIs ==
  ASSUME NEW p, NEW op, NEW u, NEW k, NEW a, NEW s, NEW t, ThenStep(p, Call(op, u, k, a), s, t)
  PROVE  Become(p, New(op, u, s, k, None, a, None, t))
<1> DEFINE c == Call(op, u, k, a)
<1>1. c = New(op, u, "idle", k, None, a, None, <<>>)
  BY CallIs
<1> HIDE DEF c
<1>2. [c EXCEPT !.step = s] = New(op, u, s, k, None, a, None, <<>>)
  BY <1>1 DEF New
<1>3. [New(op, u, s, k, None, a, None, <<>>) EXCEPT !.todo = t] = New(op, u, s, k, None, a, None, t)
  BY DEF New
<1>4. [c EXCEPT !.step = s, !.todo = t] = [[c EXCEPT !.step = s] EXCEPT !.todo = t]
  OBVIOUS
<1> QED BY <1>2, <1>3, <1>4 DEF ThenStep, c

(* The record of a call that goes straight to its statement.               *)
LEMMA UseIs ==
  ASSUME NEW op, NEW u, NEW k, NEW a, NEW s
  PROVE  [Call(op, u, k, a) EXCEPT !.step = s] = New(op, u, s, k, None, a, None, <<>>)
<1>1. Call(op, u, k, a) = New(op, u, "idle", k, None, a, None, <<>>)
  BY CallIs
<1> QED BY <1>1 DEF New

(* A statement that fails ends the call and changes nothing.               *)
LEMMA FailsTyped ==
  ASSUME ProcTyped, CacheTyped, StoreTyped, NEW p \in Procs, offer' = offer, Fails(p)
  PROVE  ProcTyped' /\ CacheTyped' /\ StoreTyped'
<1>1. ProcTyped'
  BY EndTyped DEF Fails
<1>2. UNCHANGED <<shared, store>>
  BY DEF Fails
<1> QED BY <1>1, <1>2 DEF CacheTyped, StoreTyped, shared, store, library, sales

(* The reads of the game store keep the types.                             *)
LEMMA StoreReadsTyped ==
  ASSUME ProcTyped, CacheTyped, StoreTyped, NEW p \in Procs, offer' = offer,
         \/ GetGame(p) \/ ListGamesPage(p) \/ GetReview(p) \/ ListReviews(p) \/ ListThread(p)
         \/ GetMyGamePlays(p) \/ ListMyGameOrders(p) \/ GetAccountBalance(p)
  PROVE  ProcTyped' /\ CacheTyped' /\ StoreTyped'
<1>1. PICK u \in Users \cup {None}, k \in Keys : Read(p, u, k) /\ UNCHANGED store
  BY KeyFacts DEF GetGame, ListGamesPage, GetReview, ListReviews, ListThread, GetMyGamePlays,
                  ListMyGameOrders, GetAccountBalance, ReadOf
<1>2. ProcTyped' /\ CacheTyped'
  BY <1>1, ReadTyped
<1> QED BY <1>1, <1>2 DEF StoreTyped, store, library, sales

(* The writes of the game keep the types.                                  *)
LEMMA GamesTyped ==
  ASSUME ProcTyped, CacheTyped, StoreTyped, NEW p \in Procs, offer' = offer,
         CreateGame(p) \/ UpdateGame(p) \/ SaveGame(p) \/ DeleteGame(p)
  PROVE  ProcTyped' /\ CacheTyped' /\ StoreTyped'
<1>0. Fits(proc[p]) /\ <<GamesKey>> \in Seq(Keys) /\ <<GameKey, GamesKey>> \in Seq(Keys)
      /\ <<GameKey, ReviewsKey, GamesKey>> \in Seq(Keys) /\ {} \subseteq Keys /\ AllPlays \subseteq Keys
  BY KeyFacts, ShortLists DEF ProcTyped
<1>1. CASE CreateGame(p)
  <2>1. CASE /\ game' \in Prices
             /\ ThenStep(p, Call("game", None, None, FALSE), "topic", <<GamesKey>>)
             /\ Abandon(AllPlays)
             /\ UNCHANGED <<reviews, remarks, plays, sales>>
    <3> DEFINE t == <<GamesKey>>
    <3>1. Become(p, New("game", None, "topic", None, None, FALSE, None, t))
      BY <2>1, ThenIs
    <3>2. t \in Seq(Keys) /\ t = <<GamesKey>>
      BY <1>0
    <3> HIDE DEF t
    <3>3. Fits(New("game", None, "topic", None, None, FALSE, None, t))
      BY <3>2 DEF Fits, New, Cachers, Deleters
    <3>4. "game" \in OpsOf(offer) /\ "topic" \in Steps
      BY DEF OpsOf, Steps
    <3>5. ProcTyped'
      BY <3>1, <3>3, <3>4, BecomeTyped
    <3>6. CacheTyped'
      BY <1>0, <2>1 DEF CacheTyped, Abandon, Cached
    <3> QED BY <2>1, <3>5, <3>6 DEF StoreTyped, sales
  <2> QED BY <1>1, <2>1, FailsTyped DEF CreateGame
<1>3. CASE UpdateGame(p)
  <2>1. PICK price \in Prices \cup {Keep} : ReadThen(p, Call("updateGame", None, GameKey, price))
    BY <1>3 DEF UpdateGame
  <2>2. "updateGame" \in offer /\ Asks("updateGame", None, GameKey, price) /\ UNCHANGED store
    BY <1>3, KeyFacts DEF UpdateGame, Request, Asks
  <2>3. ProcTyped' /\ CacheTyped'
    BY <2>1, <2>2, ReadThenTyped
  <2> QED BY <2>2, <2>3 DEF StoreTyped, store, library, sales
<1>4. CASE SaveGame(p)
  <2>1. CASE /\ game' = IF proc[p].arg = Keep THEN proc[p].val ELSE proc[p].arg
             /\ Committed(p, <<GameKey, GamesKey>>, AllPlays)
             /\ UNCHANGED <<reviews, remarks, plays, sales>>
    <3>1. ProcTyped' /\ CacheTyped'
      BY <1>0, <2>1, CommittedTyped
    <3>2. game' \in Prices
      BY <1>0, <1>4, <2>1 DEF SaveGame, At, Fits
    <3> QED BY <2>1, <3>1, <3>2 DEF StoreTyped, sales
  <2> QED BY <1>4, <2>1, FailsTyped DEF SaveGame
<1>5. CASE DeleteGame(p)
  <2>1. CASE /\ game' = IF Fresh(game) THEN None ELSE Gone
             /\ Committed(p, <<GameKey, ReviewsKey, GamesKey>>, AllPlays)
             /\ UNCHANGED <<reviews, remarks, plays, sales>>
    <3>1. ProcTyped' /\ CacheTyped'
      BY <1>0, <2>1, CommittedTyped
    <3> QED BY <2>1, <3>1 DEF StoreTyped, sales
  <2> QED BY <1>5, <2>1, FailsTyped DEF DeleteGame
<1> QED BY <1>1, <1>3, <1>4, <1>5

(* The writes of reviews keep the types.                                   *)
LEMMA ReviewsTyped ==
  ASSUME ProcTyped, CacheTyped, StoreTyped, NEW p \in Procs, offer' = offer,
         \/ CreateReview(p) \/ InsertReview(p) \/ UpdateReview(p) \/ SaveReview(p)
         \/ DeleteReview(p) \/ DropReview(p) \/ NotOwn(p)
  PROVE  ProcTyped' /\ CacheTyped' /\ StoreTyped'
<1>0. Fits(proc[p]) /\ {} \subseteq Keys /\ <<ReviewsKey>> \in Seq(Keys)
  BY KeyFacts, ShortLists DEF ProcTyped
<1>1. ASSUME NEW r \in Reviews, NEW row \in {Gone} \cup ReviewRecs, NEW t \in Seq(Keys),
             reviews' = [reviews EXCEPT ![r] = row], Committed(p, t, {}),
             UNCHANGED <<game, remarks, plays, sales>>
      PROVE  ProcTyped' /\ CacheTyped' /\ StoreTyped'
  <2>1. ProcTyped' /\ CacheTyped'
    BY <1>0, <1>1, CommittedTyped
  <2>2. reviews' \in [Reviews -> {None, Gone} \cup ReviewRecs]
    BY <1>1 DEF StoreTyped
  <2> QED BY <1>1, <2>1, <2>2 DEF StoreTyped, sales
<1>2. CASE CreateReview(p)
  <2>1. PICK u \in Users, text \in Texts :
          \/ UNCHANGED proc
          \/ Become(p, [Call("createReview", u, None, text) EXCEPT !.step = "use"])
    BY <1>2 DEF CreateReview
  <2>2. UNCHANGED shared /\ UNCHANGED store /\ "createReview" \in OpsOf(offer) /\ "use" \in Steps
    BY <1>2 DEF CreateReview, Request, OpsOf, Steps
  <2>3. Fits(New("createReview", u, "use", None, None, text, None, <<>>))
    BY ShortLists DEF Fits, New, Cachers, Deleters
  <2>4. ProcTyped'
    <3>1. CASE UNCHANGED proc
      BY <3>1 DEF ProcTyped
    <3>2. CASE Become(p, [Call("createReview", u, None, text) EXCEPT !.step = "use"])
      BY <2>2, <2>3, <3>2, UseIs, BecomeTyped
    <3> QED BY <2>1, <3>1, <3>2
  <2> QED BY <2>2, <2>4 DEF CacheTyped, StoreTyped, shared, store, library, sales
<1>3. CASE InsertReview(p)
  <2>1. ASSUME NEW r \in Reviews,
               reviews' = [reviews EXCEPT ![r] = Review(proc[p].user, proc[p].arg)],
               Committed(p, <<ReviewsKey>>, {}), UNCHANGED <<game, remarks, plays, sales>>
        PROVE  ProcTyped' /\ CacheTyped' /\ StoreTyped'
    <3>1. Review(proc[p].user, proc[p].arg) \in ReviewRecs
      BY <1>0, <1>3 DEF InsertReview, At, Fits, Review, ReviewRecs
    <3> QED BY <1>0, <1>1, <2>1, <3>1
  <2> QED BY <1>3, <2>1, FailsTyped DEF InsertReview
<1>4. ASSUME NEW op \in {"updateReview", "deleteReview"}, OfReview(p, op)
      PROVE  ProcTyped' /\ CacheTyped' /\ StoreTyped'
  <2>1. PICK u \in Users, r \in Reviews, text \in Texts : ReadThen(p, Call(op, u, ReviewKey(r), text))
    BY <1>4 DEF OfReview
  <2>2. op \in offer /\ UNCHANGED store /\ Asks(op, u, ReviewKey(r), text)
    BY <1>4, KeyFacts DEF OfReview, Request, Asks
  <2>3. ProcTyped' /\ CacheTyped'
    BY <2>1, <2>2, ReadThenTyped
  <2> QED BY <2>2, <2>3 DEF StoreTyped, store, library, sales
<1>5. ASSUME At(p, "updateReview", "use") \/ At(p, "deleteReview", "use")
      PROVE  /\ proc[p].key[2] \in Reviews /\ proc[p].val \in ReviewRecs /\ proc[p].arg \in Texts
             /\ ReviewEntries(proc[p].key[2]) \in Seq(Keys)
  <2>1. PICK s \in Reviews : proc[p].key = ReviewKey(s)
    BY <1>0, <1>5 DEF At, Fits
  <2>2. proc[p].key[2] = s
    BY <2>1 DEF ReviewKey
  <2>3. ReviewEntries(s) \in Seq(Keys)
    BY KeyFacts, ShortLists DEF ReviewEntries
  <2> QED BY <1>0, <1>5, <2>2, <2>3 DEF At, Fits
<1>6. CASE SaveReview(p)
  <2> DEFINE r == proc[p].key[2]
             row == Review(proc[p].val.user, proc[p].arg)
  <2>1. r \in Reviews /\ row \in ReviewRecs /\ ReviewEntries(r) \in Seq(Keys)
    BY <1>5, <1>6 DEF SaveReview, Review, ReviewRecs
  <2>2. \/ /\ reviews' = [reviews EXCEPT ![r] = row]
           /\ Committed(p, ReviewEntries(r), {})
           /\ UNCHANGED <<game, remarks, plays, sales>>
        \/ Fails(p)
    BY <1>6 DEF SaveReview
  <2> HIDE DEF r, row
  <2> QED BY <1>1, <2>1, <2>2, FailsTyped
<1>7. CASE DropReview(p)
  <2> DEFINE r == proc[p].key[2]
  <2>1. r \in Reviews /\ ReviewEntries(r) \in Seq(Keys)
    BY <1>5, <1>7 DEF DropReview
  <2>2. \/ /\ reviews' = [reviews EXCEPT ![r] = Gone]
           /\ Committed(p, ReviewEntries(r), {})
           /\ UNCHANGED <<game, remarks, plays, sales>>
        \/ End(p) /\ UNCHANGED <<shared, store>>
        \/ Fails(p)
    BY <1>7 DEF DropReview
  <2> HIDE DEF r
  <2>3. CASE End(p) /\ UNCHANGED <<shared, store>>
    BY <2>3, EndTyped DEF CacheTyped, StoreTyped, shared, store, library, sales
  <2> QED BY <1>1, <2>1, <2>2, <2>3, FailsTyped
<1>8. CASE NotOwn(p)
  <2>1. End(p) /\ UNCHANGED <<shared, store>>
    BY <1>8 DEF NotOwn
  <2> QED BY <2>1, EndTyped DEF CacheTyped, StoreTyped, shared, store, library, sales
<1> QED BY <1>2, <1>3, <1>4, <1>6, <1>7, <1>8 DEF UpdateReview, DeleteReview

(* The writes of the comments on reviews keep the types.                   *)
LEMMA RemarksTyped ==
  ASSUME ProcTyped, CacheTyped, StoreTyped, NEW p \in Procs, offer' = offer,
         \/ CreateReviewComment(p) \/ UpdateReviewComment(p) \/ SaveReviewComment(p)
         \/ DeleteReviewComment(p) \/ DropReviewComment(p)
  PROVE  ProcTyped' /\ CacheTyped' /\ StoreTyped'
<1>0. Fits(proc[p]) /\ {} \subseteq Keys /\ \A r \in Reviews : <<ThreadKey(r)>> \in Seq(Keys)
  BY KeyFacts, ShortLists DEF ProcTyped
<1>1. ASSUME NEW c \in Remarks, NEW row \in {Gone} \cup RemarkRecs, NEW r \in Reviews,
             remarks' = [remarks EXCEPT ![c] = row], Committed(p, <<ThreadKey(r)>>, {}),
             UNCHANGED <<game, reviews, plays, sales>>
      PROVE  ProcTyped' /\ CacheTyped' /\ StoreTyped'
  <2>1. ProcTyped' /\ CacheTyped'
    BY KeyFacts, <1>1, AloneTyped
  <2>2. remarks' \in [Remarks -> {None, Gone} \cup RemarkRecs]
    BY <1>1 DEF StoreTyped
  <2> QED BY <1>1, <2>1, <2>2 DEF StoreTyped, sales
<1>2. CASE CreateReviewComment(p)
  <2>1. ASSUME NEW u \in Users, NEW r \in Reviews, NEW text \in Texts, NEW c \in Remarks,
               remarks' = [remarks EXCEPT ![c] = Remark(u, r, text)],
               Committed(p, <<ThreadKey(r)>>, {}), UNCHANGED <<game, reviews, plays, sales>>
        PROVE  ProcTyped' /\ CacheTyped' /\ StoreTyped'
    <3>1. Remark(u, r, text) \in RemarkRecs
      BY DEF Remark, RemarkRecs
    <3> QED BY <1>1, <2>1, <3>1
  <2> QED BY <1>2, <2>1, FailsTyped DEF CreateReviewComment
<1>3. ASSUME NEW op \in {"updateComment", "deleteComment"}, OfComment(p, op)
      PROVE  ProcTyped' /\ CacheTyped' /\ StoreTyped'
  <2>1. PICK c \in Remarks, text \in Texts :
          /\ Live(remarks[c])
          /\ Become(p, [Call(op, remarks[c].user, c, text) EXCEPT !.step = "use", !.val = remarks[c]])
    BY <1>3 DEF OfComment
  <2>2. UNCHANGED shared /\ UNCHANGED store /\ op \in OpsOf(offer) /\ "use" \in Steps
    BY <1>3 DEF OfComment, Request, OpsOf, Steps
  <2> DEFINE row == remarks[c]
             d == Call(op, row.user, c, text)
             n == New(op, row.user, "use", c, row, text, None, <<>>)
  <2>3. row \in RemarkRecs
    BY <2>1 DEF StoreTyped, Live
  <2>4. [d EXCEPT !.step = "use", !.val = row] = n
    <3>1. [d EXCEPT !.step = "use"] = New(op, row.user, "use", c, None, text, None, <<>>)
      BY UseIs
    <3>2. [New(op, row.user, "use", c, None, text, None, <<>>) EXCEPT !.val = row] = n
      BY DEF New
    <3> HIDE DEF d, row, n
    <3>3. [d EXCEPT !.step = "use", !.val = row] = [[d EXCEPT !.step = "use"] EXCEPT !.val = row]
      OBVIOUS
    <3> QED BY <3>1, <3>2, <3>3
  <2>5. Become(p, n)
    BY <2>1, <2>4
  <2>6. Fits(n)
    BY <1>3, <2>3, ShortLists DEF Fits, New, Cachers, Deleters
  <2>7. ProcTyped'
    BY <2>2, <2>5, <2>6, BecomeTyped
  <2> QED BY <2>2, <2>7 DEF CacheTyped, StoreTyped, shared, store, library, sales
<1>4. CASE SaveReviewComment(p)
  <2> DEFINE old == proc[p].val
             row == Remark(old.user, old.review, proc[p].arg)
  <2>1. proc[p].key \in Remarks /\ old \in RemarkRecs /\ proc[p].arg \in Texts
    BY <1>0, <1>4 DEF SaveReviewComment, At, Fits
  <2>2. row \in RemarkRecs /\ old.review \in Reviews
    BY <2>1 DEF Remark, RemarkRecs
  <2>3. \/ /\ remarks' = [remarks EXCEPT ![proc[p].key] = row]
           /\ Committed(p, <<ThreadKey(old.review)>>, {})
           /\ UNCHANGED <<game, reviews, plays, sales>>
        \/ Fails(p)
    BY <1>4 DEF SaveReviewComment
  <2> HIDE DEF old, row
  <2> QED BY <1>1, <2>1, <2>2, <2>3, FailsTyped
<1>5. CASE DropReviewComment(p)
  <2> DEFINE c == proc[p].key
  <2>1. c \in Remarks
    BY <1>0, <1>5 DEF DropReviewComment, At, Fits
  <2>2. \/ /\ Live(remarks[c])
           /\ remarks' = [remarks EXCEPT ![c] = Gone]
           /\ Committed(p, <<ThreadKey(remarks[c].review)>>, {})
           /\ UNCHANGED <<game, reviews, plays, sales>>
        \/ End(p) /\ UNCHANGED <<shared, store>>
        \/ Fails(p)
    BY <1>5 DEF DropReviewComment
  <2>3. Live(remarks[c]) => remarks[c].review \in Reviews
    BY <2>1 DEF StoreTyped, Live, RemarkRecs
  <2> HIDE DEF c
  <2>4. CASE End(p) /\ UNCHANGED <<shared, store>>
    BY <2>4, EndTyped DEF CacheTyped, StoreTyped, shared, store, library, sales
  <2> QED BY <1>1, <2>1, <2>2, <2>3, <2>4, FailsTyped
<1> QED BY <1>2, <1>3, <1>4, <1>5 DEF UpdateReviewComment, DeleteReviewComment

(* The writes of play times keep the types.                                *)
LEMMA PlaysTyped ==
  ASSUME ProcTyped, CacheTyped, StoreTyped, NEW p \in Procs, offer' = offer,
         UpsertMyGamePlay(p) \/ DeleteMyGamePlay(p)
  PROVE  ProcTyped' /\ CacheTyped' /\ StoreTyped'
<1>1. PICK u \in Users, h \in {None} \cup Hours : WritePlay(p, u, h)
  BY DEF UpsertMyGamePlay, DeleteMyGamePlay
<1>2. CASE /\ plays' = [plays EXCEPT ![u] = h]
           /\ Committed(p, <<PlaysKey(u)>>, {})
           /\ UNCHANGED <<game, reviews, remarks, sales>>
  <2>1. PlaysKey(u) \in Keys
    BY KeyFacts
  <2>2. ProcTyped' /\ CacheTyped'
    BY <1>2, <2>1, AloneTyped
  <2>3. plays' \in [Users -> {None, 0} \cup Hours]
    BY <1>2 DEF StoreTyped
  <2> QED BY <1>2, <2>2, <2>3 DEF StoreTyped, sales
<1> QED BY <1>1, <1>2, FailsTyped DEF WritePlay

(* A price and what is charged for it.                                     *)
LEMMA Charges ==
  ASSUME NEW price \in Prices
  PROVE  price \in Nat /\ ChargeYuan(price) \in Nat /\ ChargeYuan(price) > 0
<1>1. price \in Nat /\ price \div 100 \in Int
  BY GameStoreAssumption
<1> QED BY <1>1 DEF ChargeYuan

(* A purchase past its claim.                                              *)
LEMMA BuyerIs ==
  ASSUME ProcTyped, NEW p \in Procs, proc[p].op = "purchase", proc[p].step \in {"use", "balance", "commit"}
  PROVE  /\ proc[p].user \in Users /\ proc[p].arg \in OrderIds /\ proc[p].arg[1] = proc[p].user
         /\ proc[p].val \in Prices /\ proc[p].val \in Nat
         /\ proc[p].held # None => proc[p].held \in Codes /\ proc[p].step \in {"balance", "commit"}
         /\ IsPaidGame(proc[p].val) /\ proc[p].step \in {"balance", "commit"} => proc[p].held # None
         /\ ~IsPaidGame(proc[p].val) \/ proc[p].step = "use" => proc[p].held = None
BY Charges DEF ProcTyped, Fits, IsPaidGame

(* A purchase begins with a read of the game.                              *)
LEMMA PurchaseStartTyped ==
  ASSUME ProcTyped, CacheTyped, StoreTyped, NEW p \in Procs, OfferTyped,
         PurchaseGame(p)
  PROVE  ProcTyped' /\ CacheTyped' /\ StoreTyped'
<1>1. PICK u \in Users, id \in IF "retry" \in offer THEN IdemKeys ELSE {calls'} :
        ReadThen(p, Call("purchase", u, GameKey, <<u, id>>))
  BY DEF PurchaseGame
<1>2. "purchase" \in offer /\ offer' = offer /\ UNCHANGED store
  BY DEF PurchaseGame, Request
<1>3. id \in IdemKeys \cup 1..Calls
  <2>1. calls \in 0..Calls /\ calls < Calls /\ calls' = calls + 1 /\ Calls \in Nat
    BY ReadThroughAssumption DEF PurchaseGame, Request, OfferTyped
  <2>2. calls' \in 1..Calls
    BY <2>1
  <2> QED BY <1>1, <2>2
<1>4. <<u, id>> \in OrderIds /\ <<u, id>>[1] = u
  BY <1>3 DEF OrderIds
<1>5. Asks("purchase", u, GameKey, <<u, id>>)
  BY <1>4, KeyFacts DEF Asks
<1>6. ProcTyped' /\ CacheTyped'
  BY <1>1, <1>2, <1>5, ReadThenTyped
<1> QED BY <1>2, <1>6 DEF StoreTyped, store, library, sales

(* A purchase holds a code that no other does.                             *)
LEMMA ClaimTyped ==
  ASSUME ProcTyped, CacheTyped, StoreTyped, NEW p \in Procs, offer' = offer, ClaimLicense(p)
  PROVE  ProcTyped' /\ CacheTyped' /\ StoreTyped'
<1>1. ASSUME NEW c \in Available,
             Become(p, [proc[p] EXCEPT !.step = "balance", !.held = c]), UNCHANGED <<shared, store>>
      PROVE  ProcTyped' /\ CacheTyped' /\ StoreTyped'
  <2>1. PICK V : proc[p] \in Rec(V) /\ proc \in [Procs -> Rec(V)]
    BY ProcIs
  <2> DEFINE r == [proc[p] EXCEPT !.step = "balance", !.held = c]
  <2>2. /\ r \in Rec(V \cup {"balance", c})
        /\ r.op = proc[p].op /\ r.user = proc[p].user /\ r.step = "balance" /\ r.key = proc[p].key
        /\ r.val = proc[p].val /\ r.arg = proc[p].arg /\ r.held = c /\ r.todo = proc[p].todo
    BY <2>1 DEF Rec
  <2>3. proc' = [proc EXCEPT ![p] = r]
    BY <1>1 DEF Become
  <2>4. c \in Codes /\ c # None /\ \A q \in Procs : proc[q].held # c
    BY RowsAssumption DEF Available, Locked
  <2>5. /\ proc[p].op = "purchase" /\ proc[p].step = "use" /\ proc[p].val > 0
        /\ Fits(proc[p]) /\ proc[p].op \in OpsOf(offer)
    BY DEF ClaimLicense, At, IsPaidGame, ProcTyped
  <2> HIDE DEF r
  <2>6. Fits(r)
    BY <2>2, <2>4, <2>5 DEF Fits, Cachers
  <2>7. r.step \in Steps /\ r.op \in OpsOf(offer)
    BY <2>2, <2>5 DEF Steps
  <2>8. ProcTyped'
    BY <2>2, <2>3, <2>4, <2>6, <2>7, ChangeTyped
  <2> QED BY <1>1, <2>8 DEF CacheTyped, StoreTyped, shared, store, library, sales
<1>2. CASE End(p) /\ UNCHANGED <<shared, store>>
  BY <1>2, EndTyped DEF CacheTyped, StoreTyped, shared, store, library, sales
<1> QED BY <1>1, <1>2, FailsTyped DEF ClaimLicense

(* A purchase of a paid game locks its buyer's row.                        *)
LEMMA BalanceReadTyped ==
  ASSUME ProcTyped, CacheTyped, StoreTyped, NEW p \in Procs, offer' = offer, GetUserForUpdate(p)
  PROVE  ProcTyped' /\ CacheTyped' /\ StoreTyped'
<1>1. UNCHANGED <<shared, store>>
  BY DEF GetUserForUpdate
<1>2. CASE Step(p, "commit")
  <2>1. PICK V : proc[p] \in Rec(V) /\ proc \in [Procs -> Rec(V)]
    BY ProcIs
  <2> DEFINE r == [proc[p] EXCEPT !.step = "commit"]
  <2>2. /\ r \in Rec(V \cup {"commit"})
        /\ r.op = proc[p].op /\ r.user = proc[p].user /\ r.step = "commit" /\ r.key = proc[p].key
        /\ r.val = proc[p].val /\ r.arg = proc[p].arg /\ r.held = proc[p].held /\ r.todo = proc[p].todo
    BY <2>1 DEF Rec
  <2>3. proc' = [proc EXCEPT ![p] = r]
    BY <1>2, <2>1 DEF Step
  <2>4. proc[p].op = "purchase" /\ proc[p].step = "balance" /\ Fits(proc[p]) /\ proc[p].op \in OpsOf(offer)
    BY DEF GetUserForUpdate, At, ProcTyped
  <2>5. proc[p].held # None => \A q \in Procs \ {p} : proc[q].held # proc[p].held
    BY DEF ProcTyped
  <2> HIDE DEF r
  <2>6. Fits(r)
    BY <2>2, <2>4 DEF Fits, Cachers
  <2>7. r.step \in Steps /\ r.op \in OpsOf(offer)
    BY <2>2, <2>4 DEF Steps
  <2>8. ProcTyped'
    BY <2>2, <2>3, <2>5, <2>6, <2>7, ChangeTyped
  <2> QED BY <1>1, <2>8 DEF CacheTyped, StoreTyped, shared, store, library, sales
<1>3. CASE End(p)
  BY <1>1, <1>3, EndTyped DEF CacheTyped, StoreTyped, shared, store, library, sales
<1> QED BY <1>2, <1>3 DEF GetUserForUpdate

(* What a purchase books keeps the types of the store.                     *)
LEMMA BookTyped ==
  ASSUME ProcTyped, StoreTyped, NEW p \in Procs, proc[p].op = "purchase", proc[p].step \in {"use", "commit"},
         IsPaidGame(proc[p].val) <=> proc[p].step = "commit",
         Book(p), UNCHANGED <<game, reviews, remarks>>
  PROVE  StoreTyped'
<1> DEFINE u == proc[p].user
           id == proc[p].arg
           price == proc[p].val
<1>1. /\ u \in Users /\ id \in OrderIds /\ price \in Prices /\ ChargeYuan(price) \in Nat
      /\ proc[p].held \in Codes \cup {None} /\ (IsPaidGame(price) => proc[p].held \in Codes)
  BY BuyerIs, Charges
<1>2. balance' \in [Users -> Int]
  BY <1>1 DEF Book, StoreTyped
<1>3. ledger' \in SUBSET [id : OrderIds, user : Users, amount : Nat]
  <2>1. [id |-> id, user |-> u, amount |-> ChargeYuan(price)] \in [id : OrderIds, user : Users, amount : Nat]
    BY <1>1
  <2>2. ledger' = ledger \/ ledger' = ledger \cup {[id |-> id, user |-> u, amount |-> ChargeYuan(price)]}
    BY DEF Book
  <2> QED BY <2>1, <2>2 DEF StoreTyped
<1>4. codes' \in [Codes -> {None, Gone} \cup OrderIds]
  BY <1>1 DEF Book, StoreTyped
<1>5. orders' \in SUBSET [id : OrderIds, user : Users, price : Prices, code : Codes \cup {None}]
  <2>1. [id |-> id, user |-> u, price |-> price, code |-> proc[p].held]
          \in [id : OrderIds, user : Users, price : Prices, code : Codes \cup {None}]
    BY <1>1
  <2>2. orders' = orders \/ orders' = orders \cup {[id |-> id, user |-> u, price |-> price, code |-> proc[p].held]}
    BY DEF Book
  <2> QED BY <2>1, <2>2 DEF StoreTyped
<1>6. plays' \in [Users -> {None, 0} \cup Hours]
  BY <1>1 DEF Book, StoreTyped
<1> QED BY <1>2, <1>3, <1>4, <1>5, <1>6 DEF StoreTyped

(* A purchase commits.                                                     *)
LEMMA CommitTyped ==
  ASSUME ProcTyped, CacheTyped, StoreTyped, NEW p \in Procs, offer' = offer, CommitPurchase(p)
  PROVE  ProcTyped' /\ CacheTyped' /\ StoreTyped'
<1>1. /\ proc[p].op = "purchase" /\ proc[p].step \in {"use", "commit"}
      /\ IsPaidGame(proc[p].val) <=> proc[p].step = "commit"
  BY DEF CommitPurchase
<1>2. CASE Book(p) /\ Committed(p, PurchaseEntries(proc[p].user), {}) /\ UNCHANGED <<game, reviews, remarks>>
  <2>1. proc[p].user \in Users
    BY <1>1, BuyerIs
  <2> DEFINE t == PurchaseEntries(proc[p].user)
             m == {}
  <2>2. t \in Seq(Keys) /\ m \subseteq Keys /\ Committed(p, t, m)
    BY <1>2, <2>1, KeyFacts, ShortLists DEF PurchaseEntries
  <2> HIDE DEF t, m
  <2>3. ProcTyped' /\ CacheTyped'
    BY <2>2, CommittedTyped
  <2> QED BY <1>1, <1>2, <2>3, BookTyped
<1>3. CASE End(p) /\ UNCHANGED <<shared, store>>
  BY <1>3, EndTyped DEF CacheTyped, StoreTyped, shared, store, library, sales
<1> QED BY <1>2, <1>3, FailsTyped DEF CommitPurchase

(* The steps of the store that go on with a request,                       *)
StoreGoesOn(p) ==
  \/ SaveGame(p) \/ InsertReview(p) \/ SaveReview(p) \/ DropReview(p) \/ NotOwn(p)
  \/ SaveReviewComment(p) \/ DropReviewComment(p)
  \/ ClaimLicense(p) \/ GetUserForUpdate(p) \/ CommitPurchase(p)

(* the others take one.                                                    *)
LEMMA StoreBegins ==
  ASSUME NEW p, StoreStep(p)
  PROVE  (\E op \in offer : Request(p, op)) \/ StoreGoesOn(p)
<1> DEFINE Taken == \E op : Request(p, op)
<1>1. (CreateGame(p) => Taken) /\ (UpdateGame(p) => Taken) /\ (DeleteGame(p) => Taken)
  BY DEF CreateGame, UpdateGame, DeleteGame
<1>2. (CreateReview(p) => Taken) /\ (UpdateReview(p) => Taken) /\ (DeleteReview(p) => Taken)
  BY DEF CreateReview, UpdateReview, DeleteReview, OfReview
<1>3. \A op : OfComment(p, op) => Taken
  BY Zenon DEF OfComment
<1>4. (CreateReviewComment(p) => Taken) /\ (UpdateReviewComment(p) => Taken) /\ (DeleteReviewComment(p) => Taken)
  BY <1>3 DEF CreateReviewComment, UpdateReviewComment, DeleteReviewComment
<1>5. (UpsertMyGamePlay(p) => Taken) /\ (DeleteMyGamePlay(p) => Taken) /\ (PurchaseGame(p) => Taken)
  BY DEF UpsertMyGamePlay, DeleteMyGamePlay, PurchaseGame
<1>6. \A what, u, k : ReadOf(p, what, u, k) => Taken
  BY DEF ReadOf
<1>7. /\ (GetGame(p) => Taken) /\ (ListGamesPage(p) => Taken) /\ (GetReview(p) => Taken)
      /\ (ListReviews(p) => Taken) /\ (ListThread(p) => Taken) /\ (GetMyGamePlays(p) => Taken)
      /\ (ListMyGameOrders(p) => Taken) /\ (GetAccountBalance(p) => Taken)
  BY <1>6 DEF GetGame, ListGamesPage, GetReview, ListReviews, ListThread, GetMyGamePlays, ListMyGameOrders,
              GetAccountBalance
<1> HIDE DEF Taken
<1>8. Taken \/ StoreGoesOn(p)
  BY <1>1, <1>2, <1>4, <1>5, <1>7 DEF StoreStep, StoreGoesOn
<1> QED BY <1>8 DEF Taken, Request

(* Going on, a step keeps what is offered and counted.                     *)
LEMMA StoreAsks ==
  ASSUME NEW p, StoreStep(p)
  PROVE  Going \/ \E op \in offer : Request(p, op)
<1>1. /\ (SaveGame(p) => Going) /\ (InsertReview(p) => Going) /\ (SaveReview(p) => Going)
      /\ (DropReview(p) => Going) /\ (NotOwn(p) => Going)
  BY DEF SaveGame, InsertReview, SaveReview, DropReview, NotOwn
<1>2. (SaveReviewComment(p) => Going) /\ (DropReviewComment(p) => Going)
  BY DEF SaveReviewComment, DropReviewComment
<1>3. ClaimLicense(p) => Going
  BY Zenon DEF ClaimLicense
<1>4. (GetUserForUpdate(p) => Going) /\ (CommitPurchase(p) => Going)
  BY Zenon DEF GetUserForUpdate, CommitPurchase
<1> QED BY <1>1, <1>2, <1>3, <1>4, StoreBegins DEF StoreGoesOn

(* A step of the store keeps the types.                                    *)
LEMMA StoreStepTyped ==
  ASSUME ProcTyped, CacheTyped, StoreTyped, OfferTyped, NEW p \in Procs, StoreStep(p)
  PROVE  /\ ProcTyped' /\ CacheTyped' /\ StoreTyped'
         /\ offer' = offer /\ calls' \in 0..Calls
<1>1. Going \/ \E op \in offer : Request(p, op)
  BY StoreAsks
<1>2. offer' = offer /\ calls' \in 0..Calls
  BY <1>1, Counts
<1> QED
  BY <1>2, StoreReadsTyped, GamesTyped, ReviewsTyped, RemarksTyped, PlaysTyped, PurchaseStartTyped,
     ClaimTyped, BalanceReadTyped, CommitTyped DEF StoreStep

-----------------------------------------------------------------------------
(* The steps of the community.                                             *)

(* A call is refused and changes nothing but its own record.               *)
LEMMA RefusedTyped ==
  ASSUME ProcTyped, CacheTyped, CommunityTypeOK, NEW p \in Procs, offer' = offer, Refused(p)
  PROVE  ProcTyped' /\ CacheTyped' /\ CommunityTypeOK'
<1>1. ProcTyped'
  BY EndTyped DEF Refused
<1>2. UNCHANGED <<shared, community>>
  BY DEF Refused
<1> QED BY <1>1, <1>2 DEF CacheTyped, CommunityTypeOK, shared, community, talk, worker, circle, rest

(* The reads of the community keep the types.                              *)
LEMMA AsksTyped ==
  ASSUME ProcTyped, CacheTyped, CommunityTypeOK, NEW p \in Procs, offer' = offer,
         \/ GetArticleComment(p) \/ GetMyCYList(p) \/ ListActiveTopics(p)
         \/ ListFollowedTopics(p) \/ GetSocialStats(p) \/ GetUserBase(p)
  PROVE  ProcTyped' /\ CacheTyped' /\ CommunityTypeOK'
<1>1. PICK u \in Users \cup {None}, k \in Keys : Read(p, u, k) /\ UNCHANGED community
  BY KeyFacts DEF GetArticleComment, GetMyCYList, ListActiveTopics, ListFollowedTopics, GetSocialStats,
                  GetUserBase, Ask
<1>2. ProcTyped' /\ CacheTyped'
  BY <1>1, ReadTyped
<1> QED BY <1>1, <1>2 DEF CommunityTypeOK, community, talk, worker, circle, rest

(* A call of the community goes to its statement.                          *)
LEMMA GoesOnTyped ==
  ASSUME ProcTyped, NEW p \in Procs, offer' = offer, NEW op \in offer, NEW u, NEW s \in Steps, NEW k, NEW a,
         Become(p, [Call(op, u, k, a) EXCEPT !.step = s]),
         Fits(New(op, u, s, k, None, a, None, <<>>))
  PROVE  ProcTyped'
<1>1. Become(p, New(op, u, s, k, None, a, None, <<>>))
  BY UseIs
<1>2. op \in OpsOf(offer)
  BY DEF OpsOf
<1> QED BY <1>1, <1>2, BecomeTyped

(* The writes of comments keep the types.                                  *)
LEMMA CommentsTyped ==
  ASSUME ProcTyped, CacheTyped, CommunityTypeOK, NEW p \in Procs, offer' = offer,
         CreateComment(p) \/ DeleteComment(p) \/ DeleteCommentByID(p)
  PROVE  ProcTyped' /\ CacheTyped' /\ CommunityTypeOK'
<1>0. Fits(proc[p])
  BY DEF ProcTyped
<1>1. ASSUME comments' \in [Comments -> {None, Gone} \cup [user : Users, cy : BOOLEAN]],
             UNCHANGED <<likeCount, likes, worker, circle, rest, miscounted>>
      PROVE  CommunityTypeOK'
  BY <1>1 DEF CommunityTypeOK, worker, circle, rest
<1>2. CASE CreateComment(p)
  <2>1. ASSUME NEW c \in Comments, NEW u \in Users, NEW cy \in BOOLEAN,
               comments' = [comments EXCEPT ![c] = [user |-> u, cy |-> cy]],
               Committed(p, IF cy THEN <<CYKey(u), CommentsKey>> ELSE <<CommentsKey>>, {}),
               UNCHANGED <<likeCount, likes, worker, circle, rest, miscounted>>
        PROVE  ProcTyped' /\ CacheTyped' /\ CommunityTypeOK'
    <3>1. comments' \in [Comments -> {None, Gone} \cup [user : Users, cy : BOOLEAN]]
      BY <2>1 DEF CommunityTypeOK
    <3> DEFINE t == IF cy THEN <<CYKey(u), CommentsKey>> ELSE <<CommentsKey>>
               m == {}
    <3>2. t \in Seq(Keys) /\ m \subseteq Keys /\ Committed(p, t, m)
      BY <2>1, KeyFacts, ShortLists
    <3> HIDE DEF t, m
    <3> QED BY <1>1, <2>1, <3>1, <3>2, CommittedTyped
  <2> QED BY <1>2, <2>1, RefusedTyped DEF CreateComment
<1>3. CASE DeleteComment(p)
  <2>1. PICK c \in Comments :
          /\ Live(comments[c])
          /\ Become(p, [Call("uncomment", comments[c].user, c, comments[c].cy) EXCEPT !.step = "use"])
    BY <1>3 DEF DeleteComment
  <2>2. comments[c].user \in Users /\ comments[c].cy \in BOOLEAN
    BY <2>1 DEF CommunityTypeOK, Live
  <2> DEFINE u == comments[c].user
             y == comments[c].cy
  <2> HIDE DEF u, y
  <2>3. Fits(New("uncomment", u, "use", c, None, y, None, <<>>))
    BY <2>2, ShortLists DEF Fits, New, Cachers, u, y
  <2>4. "uncomment" \in offer /\ "use" \in Steps /\ UNCHANGED <<shared, community>>
    BY <1>3 DEF DeleteComment, Request, Steps
  <2>5. ProcTyped'
    BY <2>1, <2>3, <2>4, GoesOnTyped DEF u, y
  <2> QED BY <2>4, <2>5 DEF CacheTyped, CommunityTypeOK, shared, community, talk, worker, circle, rest
<1>4. CASE DeleteCommentByID(p)
  <2> DEFINE t == IF proc[p].arg THEN <<CYKey(proc[p].user)>> ELSE <<>>
             m == {CommentsKey}
  <2>1. proc[p].key \in Comments /\ proc[p].user \in Users /\ proc[p].arg \in BOOLEAN
    BY <1>0, <1>4 DEF DeleteCommentByID, At, Fits
  <2>2. t \in Seq(Keys) /\ m \subseteq Keys
    BY <2>1, KeyFacts, ShortLists
  <2>3. \/ /\ comments' = [comments EXCEPT ![proc[p].key] = Gone]
           /\ Committed(p, t, m)
           /\ UNCHANGED <<likeCount, likes, worker, circle, rest, miscounted>>
        \/ Refused(p)
    BY <1>4 DEF DeleteCommentByID
  <2> HIDE DEF t, m
  <2>4. CASE /\ comments' = [comments EXCEPT ![proc[p].key] = Gone]
             /\ Committed(p, t, m)
             /\ UNCHANGED <<likeCount, likes, worker, circle, rest, miscounted>>
    <3>1. comments' \in [Comments -> {None, Gone} \cup [user : Users, cy : BOOLEAN]]
      BY <2>1, <2>4 DEF CommunityTypeOK
    <3> QED BY <1>1, <2>2, <2>4, <3>1, CommittedTyped
  <2> QED BY <2>3, <2>4, RefusedTyped
<1> QED BY <1>2, <1>3, <1>4

(* The steps of a like keep the types.                                     *)
LEMMA LikesTyped ==
  ASSUME ProcTyped, CacheTyped, CommunityTypeOK, NEW p \in Procs, offer' = offer,
         LikeComment(p) \/ IncrStats(p) \/ PublishCommentAction(p)
  PROVE  ProcTyped' /\ CacheTyped' /\ CommunityTypeOK'
<1>0. Fits(proc[p]) /\ proc[p].op \in OpsOf(offer) /\ UNCHANGED shared
  BY DEF ProcTyped, LikeComment, IncrStats, PublishCommentAction
<1>1. CacheTyped'
  BY <1>0 DEF CacheTyped, shared
<1>2. CASE LikeComment(p)
  <2>1. PICK u \in Users, c \in Comments, cancel \in BOOLEAN :
          IF cancel <=> <<u, c>> \in likes
          THEN /\ likes' = IF cancel THEN likes \ {<<u, c>>} ELSE likes \cup {<<u, c>>}
               /\ \/ /\ Become(p, [Call("like", u, c, cancel) EXCEPT !.step = "count"])
                     /\ UNCHANGED miscounted
                  \/ DbFaults /\ UNCHANGED proc /\ Miscount({c})
          ELSE UNCHANGED <<proc, likes, miscounted>>
    BY <1>2 DEF LikeComment
  <2>2. UNCHANGED <<comments, likeCount, worker, circle, rest>> /\ "like" \in offer /\ "count" \in Steps
    BY <1>2 DEF LikeComment, Request, Steps
  <2>3. likes' \subseteq Users \X Comments /\ miscounted' \subseteq Comments \cup Users
    BY <2>1 DEF CommunityTypeOK, Miscount
  <2>4. CommunityTypeOK'
    BY <2>2, <2>3 DEF CommunityTypeOK, worker, circle, rest
  <2>5. Fits(New("like", u, "count", c, None, cancel, None, <<>>))
    BY ShortLists DEF Fits, New, Cachers, Deleters
  <2>6. CASE Become(p, [Call("like", u, c, cancel) EXCEPT !.step = "count"])
    BY <1>1, <2>2, <2>4, <2>5, <2>6, GoesOnTyped
  <2>7. CASE UNCHANGED proc
    BY <1>1, <2>4, <2>7 DEF ProcTyped
  <2> QED BY <2>1, <2>6, <2>7
<1>3. CASE IncrStats(p)
  <2>1. proc[p].op = "like" /\ proc[p].step = "count" /\ proc[p].key \in Comments /\ proc[p].held = None
    BY <1>0, <1>3 DEF IncrStats, At, Fits
  <2>2. miscounted' \subseteq Comments \cup Users /\ UNCHANGED <<talk, worker, circle, rest>>
    BY <1>3, <2>1 DEF IncrStats, CommunityTypeOK, Miscount
  <2>3. CommunityTypeOK'
    BY <2>2 DEF CommunityTypeOK, talk, worker, circle, rest
  <2>4. CASE Step(p, "publish")
    <3>1. PICK V : proc[p] \in Rec(V) /\ proc \in [Procs -> Rec(V)]
      BY ProcIs
    <3> DEFINE r == [proc[p] EXCEPT !.step = "publish"]
    <3>2. /\ r \in Rec(V \cup {"publish"})
          /\ r.op = proc[p].op /\ r.user = proc[p].user /\ r.step = "publish" /\ r.key = proc[p].key
          /\ r.val = proc[p].val /\ r.arg = proc[p].arg /\ r.held = proc[p].held /\ r.todo = proc[p].todo
      BY <3>1 DEF Rec
    <3>3. proc' = [proc EXCEPT ![p] = r]
      BY <2>4, <3>1 DEF Step
    <3> HIDE DEF r
    <3>4. Fits(r) /\ r.step \in Steps /\ r.op \in OpsOf(offer)
      BY <1>0, <2>1, <3>2 DEF Fits, Cachers, Steps
    <3> QED BY <1>1, <2>1, <2>3, <3>2, <3>3, <3>4, ChangeTyped
  <2>5. CASE End(p)
    BY <1>1, <2>3, <2>5, EndTyped
  <2> QED BY <1>3, <2>4, <2>5 DEF IncrStats
<1>4. CASE PublishCommentAction(p)
  <2> DEFINE c == proc[p].key
             d == IF proc[p].arg THEN -1 ELSE 1
  <2>1. c \in Comments /\ d \in {1, -1}
    BY <1>0, <1>4 DEF PublishCommentAction, At, Fits
  <2>2. /\ \/ sent' = [sent EXCEPT ![<<c, d>>] = @ + 1] /\ UNCHANGED miscounted
           \/ Miscount({c}) /\ UNCHANGED sent
        /\ UNCHANGED <<talk, likeBuffer, flushing, circle, rest>> /\ End(p)
    BY <1>4 DEF PublishCommentAction
  <2> HIDE DEF c, d
  <2>3. sent' \in [Comments \X {1, -1} -> Nat]
    BY <2>1, <2>2 DEF CommunityTypeOK
  <2>4. miscounted' \subseteq Comments \cup Users
    BY <2>1, <2>2 DEF CommunityTypeOK, Miscount
  <2>5. CommunityTypeOK'
    BY <2>2, <2>3, <2>4 DEF CommunityTypeOK, talk, circle, rest
  <2> QED BY <1>1, <2>2, <2>5, EndTyped
<1> QED BY <1>2, <1>3, <1>4

(* The steps of a follow keep the types.                                   *)
LEMMA FollowsTyped ==
  ASSUME ProcTyped, CacheTyped, CommunityTypeOK, NEW p \in Procs, offer' = offer,
         CreateFollow(p) \/ IncrementFollowingCount(p)
  PROVE  ProcTyped' /\ CacheTyped' /\ CommunityTypeOK'
<1>0. Fits(proc[p])
  BY DEF ProcTyped
<1>1. ASSUME follows' \subseteq Users \X Users, fans' \in [Users -> Nat], miscounted' \subseteq Comments \cup Users,
             UNCHANGED <<talk, worker, rest>>
      PROVE  CommunityTypeOK'
  BY <1>1 DEF CommunityTypeOK, talk, worker, rest
<1>2. CASE CreateFollow(p)
  <2>0. "follow" \in offer /\ "follow" \in OpsOf(offer) /\ "count" \in Steps /\ UNCHANGED <<talk, worker, fans, rest>>
    BY <1>2 DEF CreateFollow, Request, OpsOf, Steps
  <2>1. ASSUME NEW u \in Users, NEW v \in Users, follows' = follows \cup {<<u, v>>},
               ThenStep(p, Call("follow", u, v, None), "count", <<SocialKey(u), SocialKey(v)>>),
               UNCHANGED <<shared, miscounted>>
        PROVE  ProcTyped' /\ CacheTyped' /\ CommunityTypeOK'
    <3> DEFINE t == <<SocialKey(u), SocialKey(v)>>
    <3>1. t \in Seq(Keys) /\ t = <<SocialKey(u), SocialKey(v)>>
      BY KeyFacts, ShortLists
    <3>2. Become(p, New("follow", u, "count", v, None, None, None, t))
      BY <2>1, ThenIs
    <3> HIDE DEF t
    <3>3. Fits(New("follow", u, "count", v, None, None, None, t))
      BY <3>1 DEF Fits, New, Cachers, Deleters
    <3>4. ProcTyped'
      BY <2>0, <3>2, <3>3, BecomeTyped
    <3>5. follows' \subseteq Users \X Users /\ fans' \in [Users -> Nat] /\ miscounted' \subseteq Comments \cup Users
      BY <2>0, <2>1 DEF CommunityTypeOK
    <3> QED BY <1>1, <2>0, <2>1, <3>4, <3>5 DEF CacheTyped, shared
  <2>2. ASSUME NEW u \in Users, NEW v \in Users, follows' = follows \cup {<<u, v>>},
               Unanswered(p, <<>>, {SocialKey(u)}), Miscount({v})
        PROVE  ProcTyped' /\ CacheTyped' /\ CommunityTypeOK'
    <3> DEFINE t == <<>>
               m == {SocialKey(u)}
    <3>1. t \in Seq(Keys) /\ m \subseteq Keys /\ Unanswered(p, t, m)
      BY <2>2, KeyFacts, ShortLists
    <3> HIDE DEF t, m
    <3>2. ProcTyped' /\ CacheTyped'
      BY <3>1, UnansweredTyped
    <3>3. follows' \subseteq Users \X Users /\ fans' \in [Users -> Nat] /\ miscounted' \subseteq Comments \cup Users
      BY <2>0, <2>2 DEF CommunityTypeOK, Miscount
    <3> QED BY <1>1, <2>0, <3>2, <3>3
  <2>3. CASE UNCHANGED <<proc, shared, follows, miscounted>>
    <3>1. follows' \subseteq Users \X Users /\ fans' \in [Users -> Nat] /\ miscounted' \subseteq Comments \cup Users
      BY <2>0, <2>3 DEF CommunityTypeOK
    <3> QED BY <1>1, <2>0, <2>3, <3>1 DEF ProcTyped, CacheTyped, shared
  <2> QED BY <1>2, <2>1, <2>2, <2>3 DEF CreateFollow
<1>3. CASE IncrementFollowingCount(p)
  <2> DEFINE v == proc[p].key
             t == proc[p].todo
             m == {}
  <2>1. v \in Users /\ t \in Seq(Keys) /\ m \subseteq Keys
    BY <1>0, <1>3 DEF IncrementFollowingCount, At, Fits
  <2>2. /\ \/ fans' = [fans EXCEPT ![v] = @ + 1] /\ Committed(p, t, m) /\ UNCHANGED miscounted
           \/ Unanswered(p, t, m) /\ Miscount({v}) /\ UNCHANGED fans
        /\ UNCHANGED <<talk, worker, follows, rest>>
    BY <1>3 DEF IncrementFollowingCount
  <2> HIDE DEF v, t, m
  <2>3. ProcTyped' /\ CacheTyped'
    BY <2>1, <2>2, CommittedTyped, UnansweredTyped
  <2>4. fans' \in [Users -> Nat]
    <3>1. fans \in [Users -> Nat] /\ [fans EXCEPT ![v] = @ + 1] \in [Users -> Nat]
      BY <2>1 DEF CommunityTypeOK
    <3> QED BY <2>2, <3>1
  <2>5. follows' \subseteq Users \X Users /\ miscounted' \subseteq Comments \cup Users
    <3>1. follows' = follows /\ (miscounted' = miscounted \/ miscounted' = miscounted \cup {v})
      BY <2>2 DEF Miscount
    <3> QED BY <2>1, <3>1 DEF CommunityTypeOK
  <2> QED BY <1>1, <2>2, <2>3, <2>4, <2>5
<1> QED BY <1>2, <1>3

(* The record of a call that goes on after its first commit.               *)
LEMMA GoesOnIs ==
  ASSUME NEW p, NEW op, NEW u, NEW x, NEW k, NEW v, NEW a, NEW h, NEW y, NEW s, NEW t,
         ThenStep(p, New(op, u, x, k, v, a, h, y), s, t)
  PROVE  Become(p, New(op, u, s, k, v, a, h, t))
<1> DEFINE c == New(op, u, x, k, v, a, h, y)
<1>1. [c EXCEPT !.step = s] = New(op, u, s, k, v, a, h, y)
  BY DEF New
<1>2. [New(op, u, s, k, v, a, h, y) EXCEPT !.todo = t] = New(op, u, s, k, v, a, h, t)
  BY DEF New
<1>3. Become(p, [c EXCEPT !.step = s, !.todo = t])
  BY DEF ThenStep
<1> HIDE DEF c
<1>4. [c EXCEPT !.step = s, !.todo = t] = [[c EXCEPT !.step = s] EXCEPT !.todo = t]
  OBVIOUS
<1> QED BY <1>1, <1>2, <1>3, <1>4

(* The rows of topics.                                                     *)
TopicRows == [Topics -> {None, Gone} \cup [temporary : BOOLEAN, expired : BOOLEAN]]

(* A topic that goes with its comments leaves rows of their types.         *)
LEMMA CascadeTyped ==
  ASSUME CommunityTypeOK, NEW t \in Topics, DeleteTopicCascade(t),
         UNCHANGED <<likeCount, likes, worker, circle, topicFollows, name, miscounted>>
  PROVE  CommunityTypeOK' /\ Discussed(t) \subseteq Keys
<1>1. topics' \in TopicRows
  BY DEF CommunityTypeOK, DeleteTopicCascade, TopicRows
<1> DEFINE Rows == {None, Gone} \cup [user : Users, cy : BOOLEAN]
<1>2. comments \in [Comments -> Rows]
  BY DEF CommunityTypeOK
<1>3. comments' = comments \/ comments' = [c \in Comments |-> IF Live(comments[c]) THEN Gone ELSE comments[c]]
  BY DEF DeleteTopicCascade
<1>4. Gone \in Rows
  OBVIOUS
<1> HIDE DEF Rows
<1>5. comments' \in [Comments -> Rows]
  BY <1>2, <1>3, <1>4
<1>6. Discussed(t) \subseteq Keys
  BY KeyFacts DEF Discussed
<1> QED BY <1>1, <1>5, <1>6 DEF CommunityTypeOK, TopicRows, worker, circle, Rows

(* Looking for a topic of the name keeps the types.                        *)
LEMMA FindTopicTyped ==
  ASSUME ProcTyped, CacheTyped, CommunityTypeOK, NEW p \in Procs, offer' = offer,
         NEW op \in OpsOf(offer), NEW u, NEW x, NEW k, NEW v, NEW a \in BOOLEAN, NEW t \in Seq(Keys),
         (op = "topic" /\ t = <<>>) \/ (op = "game" /\ t = <<GamesKey>>),
         FindTopic(p, New(op, u, x, k, v, a, None, t))
  PROVE  ProcTyped' /\ CacheTyped' /\ CommunityTypeOK'
<1> DEFINE c == New(op, u, x, k, v, a, None, t)
           d == Deletes(c)
           U == Unlisted(c)
           m == {}
<1>1. c.op = op /\ c.todo = t
  BY DEF New
<1>2. /\ d \in Seq(Keys) /\ U \subseteq Keys /\ m \subseteq Keys
      /\ op = "topic" => d = <<TopicsKey>>
      /\ op = "game" => d = t
  BY <1>1, KeyFacts, ShortLists DEF Deletes, Unlisted
<1>3. ASSUME NEW y, y \in {t, d}
      PROVE  Fits(New(op, u, "insert", k, v, a, None, y))
  <2>1. y \in Seq(Keys) /\ (op = "topic" => y \in {<<>>, <<TopicsKey>>}) /\ (op = "game" => y = <<GamesKey>>)
    BY <1>2, <1>3
  <2> QED BY <2>1 DEF Fits, New, Cachers, Deleters
<1>4. "insert" \in Steps
  BY DEF Steps
<1>5. ASSUME NEW y, y \in {t, d}, ThenStep(p, c, "insert", y)
      PROVE  ProcTyped'
  <2>1. Become(p, New(op, u, "insert", k, v, a, None, y))
    BY <1>5, GoesOnIs
  <2>2. Fits(New(op, u, "insert", k, v, a, None, y))
    BY <1>3, <1>5
  <2> QED BY <1>4, <2>1, <2>2, BecomeTyped
<1>6. FindTopic(p, c)
  OBVIOUS
<1> HIDE DEF c, d, U, m
<1>7. UNCHANGED <<likeCount, likes, worker, circle, topicFollows, name, miscounted>>
  BY <1>6 DEF FindTopic
<1>8. ASSUME UNCHANGED <<comments, topics>>
      PROVE  CommunityTypeOK'
  BY <1>7, <1>8 DEF CommunityTypeOK, worker, circle
<1>9. CASE ThenStep(p, c, "insert", t) /\ UNCHANGED <<shared, comments, topics>>
  BY <1>5, <1>8, <1>9 DEF CacheTyped, shared
<1>10. CASE Answered(p, d, m) /\ UNCHANGED <<comments, topics>>
  BY <1>2, <1>8, <1>10, AnsweredTyped
<1>11. CASE Unanswered(p, t, m) /\ UNCHANGED <<comments, topics>>
  BY <1>2, <1>8, <1>11, UnansweredTyped
<1>12. ASSUME NEW s \in Topics, DeleteTopicCascade(s), ThenStep(p, c, "insert", d),
              Abandon(Discussed(s) \cup U)
       PROVE  ProcTyped' /\ CacheTyped' /\ CommunityTypeOK'
  <2>1. CommunityTypeOK' /\ Discussed(s) \cup U \subseteq Keys
    BY <1>2, <1>7, <1>12, CascadeTyped
  <2>2. CacheTyped'
    BY <1>12, <2>1 DEF CacheTyped, Abandon, Cached
  <2> QED BY <1>5, <1>12, <2>1, <2>2
<1>13. \/ ThenStep(p, c, "insert", t) /\ UNCHANGED <<shared, comments, topics>>
       \/ Answered(p, d, m) /\ UNCHANGED <<comments, topics>>
       \/ \E s \in Topics :
            DeleteTopicCascade(s) /\ ThenStep(p, c, "insert", d) /\ Abandon(Discussed(s) \cup U)
       \/ Unanswered(p, t, m) /\ UNCHANGED <<comments, topics>>
  BY <1>1, <1>6 DEF FindTopic, d, U, m
<1> QED BY <1>9, <1>10, <1>11, <1>12, <1>13

(* The writes of topics keep the types.                                    *)
LEMMA TopicsTyped ==
  ASSUME ProcTyped, CacheTyped, CommunityTypeOK, NEW p \in Procs, offer' = offer,
         CreateTopic(p) \/ EnsureGameTopic(p) \/ InsertTopic(p) \/ DeleteTemporaryTopic(p) \/ DropTopic(p)
  PROVE  ProcTyped' /\ CacheTyped' /\ CommunityTypeOK'
<1>0. Fits(proc[p]) /\ proc[p].op \in OpsOf(offer)
  BY DEF ProcTyped
<1>1. ASSUME topics' \in TopicRows, UNCHANGED <<talk, worker, circle, topicFollows, name, miscounted>>
      PROVE  CommunityTypeOK'
  BY <1>1 DEF CommunityTypeOK, TopicRows, talk, worker, circle
<1>2. topics \in TopicRows
  BY DEF CommunityTypeOK, TopicRows
<1>3. CASE EnsureGameTopic(p)
  <2>1. At(p, "game", "topic") /\ FindTopic(p, proc[p])
    BY <1>3 DEF EnsureGameTopic
  <2>2. proc[p].arg \in BOOLEAN /\ proc[p].todo = <<GamesKey>> /\ proc[p].held = None /\ proc[p].op = "game"
    BY <1>0, <2>1 DEF Fits, At
  <2>3. proc[p].todo \in Seq(Keys)
    BY <2>2, KeyFacts, ShortLists
  <2>4. PICK V : proc[p] \in Rec(V)
    BY ProcIs
  <2>5. proc[p] = New(proc[p].op, proc[p].user, proc[p].step, proc[p].key, proc[p].val, proc[p].arg,
                      proc[p].held, proc[p].todo)
    BY <2>4, RecordIs
  <2>6. FindTopic(p, New(proc[p].op, proc[p].user, proc[p].step, proc[p].key, proc[p].val, proc[p].arg, None,
                         proc[p].todo))
    BY <2>1, <2>2, <2>5
  <2> QED BY <1>0, <2>2, <2>3, <2>6, FindTopicTyped
<1>4. CASE CreateTopic(p)
  <2>1. PICK temporary \in BOOLEAN : FindTopic(p, Call("topic", None, None, temporary))
    BY <1>4 DEF CreateTopic
  <2>2. "topic" \in OpsOf(offer) /\ <<>> \in Seq(Keys)
    BY <1>4, ShortLists DEF CreateTopic, Request, OpsOf
  <2>3. FindTopic(p, New("topic", None, "idle", None, None, temporary, None, <<>>))
    BY <2>1, CallIs
  <2> QED BY <2>2, <2>3, FindTopicTyped
<1>5. CASE InsertTopic(p)
  <2> DEFINE t == Deletes(proc[p])
             d == proc[p].todo
             U == Unlisted(proc[p])
             m == {}
  <2>1. /\ t \in Seq(Keys) /\ d \in Seq(Keys) /\ m \subseteq Keys /\ U \subseteq Keys
        /\ proc[p].arg \in BOOLEAN
    BY <1>0, <1>5, KeyFacts, ShortLists DEF InsertTopic, At, Fits, Deletes, Unlisted
  <2>2. /\ UNCHANGED <<talk, worker, circle, topicFollows, name, miscounted>>
        /\ \/ /\ \E s \in Topics : topics' = [topics EXCEPT ![s] = [temporary |-> proc[p].arg, expired |-> FALSE]]
              /\ Committed(p, t, U)
           \/ Unanswered(p, d, m) /\ UNCHANGED topics
    BY <1>5 DEF InsertTopic
  <2> HIDE DEF t, d, m, U
  <2>3. topics' \in TopicRows
    <3> DEFINE row == [temporary |-> proc[p].arg, expired |-> FALSE]
    <3>1. row \in [temporary : BOOLEAN, expired : BOOLEAN]
      BY <2>1
    <3>2. topics' = topics \/ \E s \in Topics : topics' = [topics EXCEPT ![s] = row]
      BY <2>2
    <3> HIDE DEF row
    <3>3. \A s \in Topics : [topics EXCEPT ![s] = row] \in TopicRows
      BY <1>2, <3>1 DEF TopicRows
    <3> QED BY <1>2, <3>2, <3>3
  <2>4. ProcTyped' /\ CacheTyped'
    BY <2>1, <2>2, CommittedTyped, UnansweredTyped
  <2> QED BY <1>1, <2>2, <2>3, <2>4
<1>6. CASE DeleteTemporaryTopic(p)
  <2>1. PICK t \in Topics : Become(p, [Call("untopic", None, t, None) EXCEPT !.step = "use"])
    BY <1>6 DEF DeleteTemporaryTopic
  <2>2. "untopic" \in offer /\ "use" \in Steps /\ UNCHANGED <<shared, community>>
    BY <1>6 DEF DeleteTemporaryTopic, Request, Steps
  <2>3. Fits(New("untopic", None, "use", t, None, None, None, <<>>))
    BY ShortLists DEF Fits, New, Cachers, Deleters
  <2>4. ProcTyped'
    BY <2>1, <2>2, <2>3, GoesOnTyped
  <2> QED BY <2>2, <2>4 DEF CacheTyped, CommunityTypeOK, shared, community, talk, worker, circle, rest
<1>7. CASE DropTopic(p)
  <2> DEFINE d == <<TopicsKey>>
             m == Discussed(proc[p].key)
  <2>1. proc[p].key \in Topics /\ d \in Seq(Keys)
    BY <1>0, <1>7, KeyFacts, ShortLists DEF DropTopic, At, Fits
  <2>2. CASE /\ DeleteTopicCascade(proc[p].key)
             /\ Committed(p, d, m)
             /\ UNCHANGED <<likeCount, likes, worker, circle, topicFollows, name, miscounted>>
    <3>1. CommunityTypeOK' /\ m \subseteq Keys
      BY <2>1, <2>2, CascadeTyped
    <3> HIDE DEF d, m
    <3>2. ProcTyped' /\ CacheTyped'
      BY <2>1, <2>2, <3>1, CommittedTyped
    <3> QED BY <3>1, <3>2
  <2> QED BY <1>7, <2>2, RefusedTyped DEF DropTopic
<1> QED BY <1>3, <1>4, <1>5, <1>6, <1>7

(* The follows of topics keep the types.                                   *)
LEMMA TopicFollowsTyped ==
  ASSUME ProcTyped, CacheTyped, CommunityTypeOK, NEW p \in Procs, offer' = offer,
         FollowTopic(p) \/ CreateTopicFollow(p) \/ UnfollowTopic(p)
  PROVE  ProcTyped' /\ CacheTyped' /\ CommunityTypeOK'
<1>0. Fits(proc[p])
  BY DEF ProcTyped
<1>1. ASSUME NEW u \in Users, NEW S, S \subseteq Users \X Topics, SetTopicFollow(p, u, S)
      PROVE  ProcTyped' /\ CacheTyped' /\ CommunityTypeOK'
  <2>1. CASE /\ topicFollows' = S /\ Committed(p, <<FollowedKey(u)>>, {})
             /\ UNCHANGED <<talk, worker, circle, topics, name, miscounted>>
    <3>1. FollowedKey(u) \in Keys
      BY KeyFacts
    <3>2. ProcTyped' /\ CacheTyped'
      BY <2>1, <3>1, AloneTyped
    <3> QED BY <1>1, <2>1, <3>2 DEF CommunityTypeOK, talk, worker, circle
  <2> QED BY <1>1, <2>1, RefusedTyped DEF SetTopicFollow
<1>2. CASE FollowTopic(p)
  <2>1. PICK u \in Users, t \in Topics : Become(p, [Call("followTopic", u, t, None) EXCEPT !.step = "use"])
    BY <1>2 DEF FollowTopic
  <2>2. "followTopic" \in offer /\ "use" \in Steps /\ UNCHANGED <<shared, community>>
    BY <1>2 DEF FollowTopic, Request, Steps
  <2>3. Fits(New("followTopic", u, "use", t, None, None, None, <<>>))
    BY ShortLists DEF Fits, New, Cachers, Deleters
  <2>4. ProcTyped'
    BY <2>1, <2>2, <2>3, GoesOnTyped
  <2> QED BY <2>2, <2>4 DEF CacheTyped, CommunityTypeOK, shared, community, talk, worker, circle, rest
<1>3. CASE CreateTopicFollow(p)
  <2> DEFINE u == proc[p].user
             S == topicFollows \cup {<<proc[p].user, proc[p].key>>}
  <2>1. u \in Users /\ S \subseteq Users \X Topics
    BY <1>0, <1>3 DEF CreateTopicFollow, At, Fits, CommunityTypeOK
  <2>2. SetTopicFollow(p, u, S)
    BY <1>3 DEF CreateTopicFollow
  <2> HIDE DEF u, S
  <2> QED BY <1>1, <2>1, <2>2
<1>4. CASE UnfollowTopic(p)
  <2>1. PICK u \in Users, t \in Topics : SetTopicFollow(p, u, topicFollows \ {<<u, t>>})
    BY <1>4 DEF UnfollowTopic
  <2>2. topicFollows \ {<<u, t>>} \subseteq Users \X Topics
    BY DEF CommunityTypeOK
  <2> QED BY <1>1, <2>1, <2>2
<1> QED BY <1>2, <1>3, <1>4

(* A change of a user's name and a login keep the types.                   *)
LEMMA UsersTyped ==
  ASSUME ProcTyped, CacheTyped, CommunityTypeOK, NEW p \in Procs, offer' = offer,
         UpdateUser(p) \/ SaveUser(p) \/ Login(p)
  PROVE  ProcTyped' /\ CacheTyped' /\ CommunityTypeOK'
<1>0. Fits(proc[p])
  BY DEF ProcTyped
<1>1. CASE UpdateUser(p)
  <2>1. PICK u \in Users, n \in Names :
          /\ Become(p, [Call("updateUser", u, None, n) EXCEPT !.step = "use"])
          /\ \/ cache' = [cache EXCEPT ![UserKey(u)] = None] /\ stale' = stale \ {UserKey(u)}
             \/ UNCHANGED shared
    BY <1>1 DEF UpdateUser
  <2>2. "updateUser" \in offer /\ "use" \in Steps /\ UNCHANGED community
    BY <1>1 DEF UpdateUser, Request, Steps
  <2>3. Fits(New("updateUser", u, "use", None, None, n, None, <<>>))
    BY ShortLists DEF Fits, New, Cachers, Deleters
  <2>4. ProcTyped'
    BY <2>1, <2>2, <2>3, GoesOnTyped
  <2>5. UserKey(u) \in Keys
    BY KeyFacts
  <2>6. CacheTyped'
    BY <2>1, <2>5, EmptiedTyped
  <2> QED BY <2>2, <2>4, <2>6 DEF CommunityTypeOK, community, talk, worker, circle, rest
<1>2. CASE SaveUser(p)
  <2> DEFINE t == <<>>
             m == {UserKey(proc[p].user)} \cup CommentLists
  <2>1. proc[p].user \in Users /\ proc[p].arg \in Names
    BY <1>0, <1>2 DEF SaveUser, At, Fits
  <2>2. t \in Seq(Keys) /\ m \subseteq Keys
    BY <2>1, KeyFacts, ShortLists
  <2>3. \/ /\ name' = [name EXCEPT ![proc[p].user] = proc[p].arg] /\ Answered(p, t, m)
           /\ UNCHANGED <<talk, worker, circle, topics, topicFollows, miscounted>>
        \/ Refused(p)
    BY <1>2 DEF SaveUser
  <2> HIDE DEF t, m
  <2>4. CASE /\ name' = [name EXCEPT ![proc[p].user] = proc[p].arg] /\ Answered(p, t, m)
             /\ UNCHANGED <<talk, worker, circle, topics, topicFollows, miscounted>>
    <3>1. ProcTyped' /\ CacheTyped'
      BY <2>2, <2>4, AnsweredTyped
    <3>2. name' \in [Users -> Names]
      BY <2>1, <2>4 DEF CommunityTypeOK
    <3> QED BY <2>4, <3>1, <3>2 DEF CommunityTypeOK, talk, worker, circle
  <2> QED BY <2>3, <2>4, RefusedTyped
<1>3. CASE Login(p)
  <2>1. PICK u \in Users : Become(p, [Call("read", u, UserKey(u), None) EXCEPT !.step = "load"])
    BY <1>3 DEF Login
  <2>2. UNCHANGED <<shared, community>> /\ "read" \in OpsOf(offer) /\ "load" \in Steps
    BY <1>3 DEF Login, OpsOf, Steps
  <2>3. UserKey(u) \in Keys
    BY KeyFacts
  <2>4. Fits(New("read", u, "load", UserKey(u), None, None, None, <<>>))
    BY <2>3, PlainFits
  <2>5. ProcTyped'
    BY <2>1, <2>2, <2>4, UseIs, BecomeTyped
  <2> QED BY <2>2, <2>5 DEF CacheTyped, CommunityTypeOK, shared, community, talk, worker, circle, rest
<1> QED BY <1>1, <1>2, <1>3
(* A step of the community takes a request or goes on with one.            *)
LEMMA CommunityAsks ==
  ASSUME NEW p, CommunityStep(p)
  PROVE  Going \/ \E op \in offer : Request(p, op)
BY DEF CommunityStep, GetArticleComment, GetMyCYList, ListActiveTopics, ListFollowedTopics, GetSocialStats,
       GetUserBase, Ask, CreateComment, DeleteComment, DeleteCommentByID, LikeComment, IncrStats,
       PublishCommentAction, CreateFollow, IncrementFollowingCount, CreateTopic, EnsureGameTopic, InsertTopic,
       DeleteTemporaryTopic, DropTopic, FollowTopic, CreateTopicFollow, UnfollowTopic, UpdateUser, SaveUser,
       Login, Request

(* A step of the community keeps the types.                                *)
LEMMA CommunityStepTyped ==
  ASSUME ProcTyped, CacheTyped, CommunityTypeOK, OfferTyped, NEW p \in Procs, CommunityStep(p)
  PROVE  /\ ProcTyped' /\ CacheTyped' /\ CommunityTypeOK'
         /\ offer' = offer /\ calls' \in 0..Calls
<1>1. Going \/ \E op \in offer : Request(p, op)
  BY CommunityAsks
<1>2. offer' = offer /\ calls' \in 0..Calls
  BY <1>1, Counts
<1> QED
  BY <1>2, AsksTyped, CommentsTyped, LikesTyped, FollowsTyped, TopicsTyped, TopicFollowsTyped, UsersTyped
     DEF CommunityStep

(* What the workers do.                                                    *)
LEMMA WorkerTyped ==
  ASSUME CacheTyped, CommunityTypeOK, Worker
  PROVE  /\ CacheTyped' /\ CommunityTypeOK'
         /\ proc' = proc /\ offer' = offer /\ calls' = calls
<1>0. ASSUME UNCHANGED shared \/ \E S \in SUBSET Keys : Abandon(S)
      PROVE  CacheTyped'
  <2>1. cache' = cache /\ stale' \in SUBSET Keys
    BY <1>0 DEF Abandon, Cached, CacheTyped, shared
  <2> QED BY <2>1 DEF CacheTyped
<1>1. CASE HandleMessage
  <2>1. PICK c \in Comments, d \in {1, -1} :
          /\ sent[<<c, d>>] > 0
          /\ likeBuffer' = [likeBuffer EXCEPT ![c] = @ + d]
          /\ \/ sent' = [sent EXCEPT ![<<c, d>>] = @ - 1] /\ UNCHANGED miscounted
             \/ Miscount({c}) /\ UNCHANGED sent
          /\ UNCHANGED <<served, talk, flushing, circle, rest>>
    BY <1>1 DEF HandleMessage
  <2>2. likeBuffer' \in [Comments -> Int]
    BY <2>1 DEF CommunityTypeOK
  <2>3. sent' \in [Comments \X {1, -1} -> Nat]
    <3>1. <<c, d>> \in Comments \X {1, -1} /\ sent \in [Comments \X {1, -1} -> Nat]
      BY DEF CommunityTypeOK
    <3> DEFINE m == <<c, d>>
    <3> HIDE DEF m
    <3>2. [sent EXCEPT ![m] = @ - 1] \in [Comments \X {1, -1} -> Nat]
      BY <2>1, <3>1 DEF m
    <3> QED BY <2>1, <3>1, <3>2 DEF m
  <2>4. miscounted' \subseteq Comments \cup Users
    BY <2>1 DEF CommunityTypeOK, Miscount
  <2>5. CommunityTypeOK'
    BY <2>1, <2>2, <2>3, <2>4 DEF CommunityTypeOK, talk, circle, rest
  <2> QED BY <1>0, <2>1, <2>5 DEF served
<1>2. CASE Flush
  <2>1. flushing' \in [sums : [Comments -> Int], stored : BOOLEAN]
    BY <1>2 DEF Flush, CommunityTypeOK
  <2>2. UNCHANGED <<served, talk, sent, likeBuffer, circle, rest, miscounted>>
    BY <1>2 DEF Flush
  <2>3. CommunityTypeOK'
    BY <2>1, <2>2 DEF CommunityTypeOK, talk, circle, rest
  <2> QED BY <1>0, <2>2, <2>3 DEF served
<1>3. CASE BatchIncrementCommentStats
  <2> DEFINE sums == flushing.sums
             added == [c \in Comments |-> IF Live(comments[c]) THEN likeCount[c] + sums[c] ELSE likeCount[c]]
             unsure == {c \in Comments : sums[c] # 0}
  <2>1. /\ flushing # None
        /\ \/ /\ \A c \in Comments : added[c] >= 0
              /\ likeCount' = added /\ Abandon(CommentLists)
              /\ \/ flushing' = [flushing EXCEPT !.stored = TRUE] /\ UNCHANGED miscounted
                 \/ Miscount(unsure) /\ flushing' = None
           \/ flushing' = None /\ UNCHANGED <<shared, likeCount, miscounted>>
        /\ UNCHANGED <<proc, offer, calls, comments, likes, sent, likeBuffer, circle, rest>>
    BY <1>3 DEF BatchIncrementCommentStats
  <2>2. flushing \in [sums : [Comments -> Int], stored : BOOLEAN] /\ likeCount \in [Comments -> Nat]
    BY <2>1 DEF CommunityTypeOK
  <2>3. added \in [Comments -> Int] /\ unsure \subseteq Comments
    BY <2>2
  <2>4. [flushing EXCEPT !.stored = TRUE] \in [sums : [Comments -> Int], stored : BOOLEAN]
    BY <2>2
  <2> HIDE DEF sums, added, unsure
  <2>5. likeCount' \in [Comments -> Nat]
    <3>1. CASE likeCount' = added /\ \A c \in Comments : added[c] >= 0
      <4>1. \A c \in Comments : added[c] \in Nat
        BY <2>3, <3>1
      <4> QED BY <2>3, <3>1, <4>1
    <3> QED BY <2>1, <2>2, <3>1
  <2>6. miscounted' \subseteq Comments \cup Users
    BY <2>1, <2>3 DEF CommunityTypeOK, Miscount
  <2>7. flushing' = None \/ flushing' \in [sums : [Comments -> Int], stored : BOOLEAN]
    BY <2>1, <2>4
  <2>8. CommunityTypeOK'
    BY <2>1, <2>5, <2>6, <2>7 DEF CommunityTypeOK, circle, rest
  <2>9. CommentLists \in SUBSET Keys
    BY KeyFacts
  <2>10. CacheTyped'
    BY <1>0, <2>1, <2>9
  <2> QED BY <2>1, <2>8, <2>10
<1>4. CASE EndFlush
  <2>1. flushing \in [sums : [Comments -> Int], stored : BOOLEAN] /\ likeBuffer \in [Comments -> Int]
    BY <1>4 DEF EndFlush, CommunityTypeOK
  <2>2. likeBuffer' \in [Comments -> Int] /\ flushing' = None
    BY <1>4, <2>1 DEF EndFlush, Remaining
  <2>3. UNCHANGED <<served, talk, sent, circle, rest, miscounted>>
    BY <1>4 DEF EndFlush
  <2>4. CommunityTypeOK'
    BY <2>2, <2>3 DEF CommunityTypeOK, talk, circle, rest
  <2> QED BY <1>0, <2>3, <2>4 DEF served
<1> DEFINE Rows == TopicRows
<1>5. ASSUME topics' \in Rows, UNCHANGED <<talk, worker, circle, topicFollows, name, miscounted>>
      PROVE  CommunityTypeOK'
  BY <1>5 DEF CommunityTypeOK, TopicRows, talk, worker, circle
<1>6. CASE TopicExpires
  <2>1. PICK t \in Topics :
          /\ Active(t) /\ topics' = [topics EXCEPT ![t].expired = TRUE]
          /\ UNCHANGED <<served, talk, worker, circle, topicFollows, name, miscounted>>
    BY <1>6 DEF TopicExpires
  <2>2. topics[t] \in [temporary : BOOLEAN, expired : BOOLEAN]
    BY <2>1 DEF Active, Live, CommunityTypeOK
  <2> DEFINE row == [topics[t] EXCEPT !.expired = TRUE]
  <2>3. row \in [temporary : BOOLEAN, expired : BOOLEAN] /\ topics \in Rows
    BY <2>2 DEF CommunityTypeOK, TopicRows
  <2>4. topics' = [topics EXCEPT ![t] = row]
    BY <2>1
  <2> HIDE DEF row
  <2>5. topics' \in Rows
    BY <2>3, <2>4 DEF TopicRows
  <2> QED BY <1>0, <1>5, <2>1, <2>5 DEF served
<1>7. CASE CleanupExpiredTemporaryTopics
  <2>1. PICK t \in Topics :
          /\ DeleteTopicCascade(t) /\ Abandon({TopicsKey} \cup Discussed(t))
          /\ UNCHANGED <<proc, offer, calls, likeCount, likes, worker, circle, topicFollows, name, miscounted>>
    BY <1>7 DEF CleanupExpiredTemporaryTopics
  <2>2. CommunityTypeOK' /\ Discussed(t) \subseteq Keys
    BY <2>1, CascadeTyped
  <2>3. {TopicsKey} \cup Discussed(t) \in SUBSET Keys
    BY <2>2, KeyFacts
  <2>4. CacheTyped'
    BY <1>0, <2>1, <2>3
  <2> QED BY <2>1, <2>2, <2>4
<1> QED BY <1>1, <1>2, <1>3, <1>4, <1>6, <1>7 DEF Worker

(* A restart.                                                              *)
LEMMA RestartTyped ==
  ASSUME TypeInv, Restart
  PROVE  TypeInv'
<1>1. ProcTyped' /\ CacheTyped' /\ offer' = offer /\ calls' = calls
  BY CrashTyped DEF TypeInv, Restart
<1>2. OfferTyped'
  BY <1>1 DEF TypeInv, OfferTyped, Restart
<1>3. StoreTyped'
  <2>1. codes' \in [Codes -> {None, Gone} \cup OrderIds]
    BY DEF Restart, SeedLicenses, TypeInv, StoreTyped
  <2>2. UNCHANGED <<library, balance, ledger, orders>>
    BY DEF Restart
  <2> QED BY <2>1, <2>2 DEF TypeInv, StoreTyped, library
<1>4. miscounted' \subseteq Comments \cup Users
  <2>1. \A p \in Procs : /\ proc[p].op = "like" => proc[p].key \in Comments
                         /\ proc[p].op = "follow" => proc[p].key \in Users
    BY DEF TypeInv, ProcTyped, Fits
  <2>2. miscounted' = miscounted \cup ({c \in Comments : Unflushed(c) # 0} \cup
              {proc[p].key : p \in {q \in Procs : proc[q].op = "like"}} \cup
              {proc[p].key : p \in {q \in Procs : proc[q].op = "follow"}})
    BY DEF Restart, LoseCounts, Miscount
  <2>3. ASSUME NEW x \in miscounted'
        PROVE  x \in Comments \cup Users
    BY <2>1, <2>2, <2>3 DEF TypeInv, CommunityTypeOK
  <2> QED BY <2>3
<1>5. CommunityTypeOK'
  BY <1>4 DEF Restart, LoseCounts, TypeInv, CommunityTypeOK, talk, circle, rest
<1> QED BY <1>1, <1>2, <1>3, <1>5 DEF TypeInv

(* The strengthened types hold when the process starts.                    *)
LEMMA TypeInit == Init => TypeInv
<1> SUFFICES ASSUME Init PROVE TypeInv
  OBVIOUS
<1>1. ProcTyped
  <2>1. Idle \in Rec({"none", "idle", None, <<>>})
    BY DEF Idle, Rec
  <2>2. proc \in [Procs -> Rec({"none", "idle", None, <<>>})] /\ \A p \in Procs : proc[p] = Idle
    BY <2>1 DEF Init
  <2> QED BY <2>2, PlainFits DEF ProcTyped, Steps, OpsOf
<1>2. CacheTyped
  <2>1. cache \in [Keys -> {None}] /\ stale = {}
    BY DEF Init
  <2> QED BY <2>1 DEF CacheTyped
<1>3. StoreTyped
  BY GameStoreAssumption DEF Init, StoreInit, StoreTyped
<1>4. CommunityTypeOK
  <2>1. PICK u \in Users :
          comments = [c \in Comments |-> IF "like" \in offer /\ c = 1 THEN [user |-> u, cy |-> TRUE] ELSE None]
    BY DEF Init, CommunityInit
  <2>2. comments \in [Comments -> {None, Gone} \cup [user : Users, cy : BOOLEAN]]
    BY <2>1
  <2>3. name \in [Users -> Names]
    BY DEF Init, CommunityInit
  <2>4. topics \in [Topics -> {None, Gone} \cup [temporary : BOOLEAN, expired : BOOLEAN]]
    BY DEF Init, CommunityInit
  <2> QED BY <2>2, <2>3, <2>4 DEF Init, CommunityInit, CommunityTypeOK
<1>5. OfferTyped
  BY ReadThroughAssumption DEF Init, OfferTyped
<1> QED BY <1>1, <1>2, <1>3, <1>4, <1>5 DEF TypeInv

(* The strengthened types are inductive.                                   *)
LEMMA TypeNext == TypeInv /\ [Next]_vars => TypeInv'
<1> SUFFICES ASSUME TypeInv, [Next]_vars PROVE TypeInv'
  OBVIOUS
<1> USE DEF TypeInv
<1>1. ASSUME NEW p \in Procs, StoreStep(p), UNCHANGED <<community, restarts>>
      PROVE  TypeInv'
  <2>1. ProcTyped' /\ CacheTyped' /\ StoreTyped' /\ offer' = offer /\ calls' \in 0..Calls
    BY <1>1, StoreStepTyped
  <2> QED BY <1>1, <2>1 DEF OfferTyped, CommunityTypeOK, community, talk, worker, circle, rest
<1>2. ASSUME NEW p \in Procs, CommunityStep(p), UNCHANGED <<store, restarts>>
      PROVE  TypeInv'
  <2>1. ProcTyped' /\ CacheTyped' /\ CommunityTypeOK' /\ offer' = offer /\ calls' \in 0..Calls
    BY <1>2, CommunityStepTyped
  <2> QED BY <1>2, <2>1 DEF OfferTyped, StoreTyped, store, library, sales
<1>3. ASSUME ProcTyped', CacheTyped', offer' = offer, calls' = calls, UNCHANGED <<store, community, restarts>>
      PROVE  TypeInv'
  BY <1>3 DEF OfferTyped, StoreTyped, store, library, sales, CommunityTypeOK, community, talk, worker, circle, rest
<1>4. ASSUME NEW p \in Procs, Data(p), UNCHANGED <<store, community, restarts>>
      PROVE  TypeInv'
  BY <1>3, <1>4, LoadTyped, FillTyped, DelTyped DEF Data
<1>5. ASSUME NEW k \in Keys, Expire(k), UNCHANGED <<store, community, restarts>>
      PROVE  TypeInv'
  <2>1. proc' = proc /\ offer' = offer /\ calls' = calls /\ CacheTyped'
    BY <1>5, EmptiedTyped DEF Expire, Going
  <2> QED BY <1>3, <1>5, <2>1 DEF ProcTyped
<1>6. CASE Worker /\ UNCHANGED <<store, restarts>>
  <2>1. CacheTyped' /\ CommunityTypeOK' /\ proc' = proc /\ offer' = offer /\ calls' = calls
    BY <1>6, WorkerTyped
  <2> QED BY <1>6, <2>1 DEF ProcTyped, OfferTyped, StoreTyped, store, library, sales
<1>7. CASE Restart
  BY <1>7, RestartTyped
<1>8. CASE UNCHANGED vars
  <2>1. proc' = proc /\ shared' = shared /\ offer' = offer /\ calls' = calls /\ UNCHANGED <<store, community, restarts>>
    BY <1>8 DEF vars, served
  <2> QED BY <1>3, <2>1 DEF ProcTyped, CacheTyped, shared
<1> QED BY <1>1, <1>2, <1>4, <1>5, <1>6, <1>7, <1>8 DEF Next

(* The strengthened types give the ones TLC checks.                        *)
LEMMA TypeHolds == TypeInv => TypeOK
<1> SUFFICES ASSUME TypeInv PROVE TypeOK
  OBVIOUS
<1>1. StoreTypeOK
  BY DEF TypeInv, StoreTyped, StoreTypeOK, ProcTyped, Fits, ReviewRecs, RemarkRecs
<1>2. CommunityTypeOK /\ offer \in Offers /\ calls \in 0..Calls /\ restarts \in 0..1
  BY DEF TypeInv, OfferTyped
<1>3. DOMAIN cache = Keys /\ stale \subseteq Keys
  BY DEF TypeInv, CacheTyped
<1>4. ASSUME NEW p \in Procs
      PROVE  /\ proc[p].op \in offer \cup {"none", "read", "write", "game"}
             /\ proc[p].step \in {"idle", "load", "fill", "use", "topic", "balance", "commit",
                                  "count", "publish", "insert", "del"}
             /\ Range(proc[p].todo) \subseteq Keys
             /\ proc[p].step = "del" => proc[p].todo # <<>>
  <2>1. Fits(proc[p]) /\ proc[p].step \in Steps /\ proc[p].op \in OpsOf(offer)
    BY DEF TypeInv, ProcTyped
  <2>2. proc[p].todo \in Seq(Keys)
    BY <2>1 DEF Fits
  <2>3. Range(proc[p].todo) \subseteq Keys
    BY <2>2 DEF Range
  <2> QED BY <2>1, <2>3 DEF Fits, Steps, OpsOf
<1> QED BY <1>1, <1>2, <1>3, <1>4 DEF TypeOK

(* The strengthened types hold in every reachable state.                   *)
LEMMA TypeAlways == Spec => []TypeInv
BY TypeInit, TypeNext, PTL DEF Spec

(* Site's TypeOK: the parts have their types, every call names an          *)
(* operation of its behaviour, and no two purchases hold one license code. *)
THEOREM SiteTypes == Spec => []TypeOK
BY TypeAlways, TypeHolds, PTL
-----------------------------------------------------------------------------
(* The books.  Total folds a set of ledger rows; the fold of module Folds  *)
(* is a recursive function on the subsets of the set, of which these       *)
(* lemmas show that it exists and what one row more makes of it.           *)

AnyOf(s) == CHOOSE x \in s : TRUE
FoldsTo(S, g) ==
  g = [s \in SUBSET S |-> IF s = {} THEN 0 ELSE g[s \ {AnyOf(s)}] + AnyOf(s).amount]
Minimal(m, F) == \A y \in F : y \subseteq m => y = m

(* The sum of the amounts of a set of rows is the value of a fold.         *)
LEMMA TotalIs ==
  ASSUME NEW S
  PROVE  Total(S) = (CHOOSE g : FoldsTo(S, g))[S]
BY DEF Total, FoldSet, MapThenFoldSet, FoldsTo, AnyOf

(* Among finitely many sets one contains no other.                         *)
LEMMA MinimalSet ==
  ASSUME NEW S, IsFiniteSet(S), NEW F \in SUBSET (SUBSET S), F # {}
  PROVE  \E m \in F : Minimal(m, F)
<1>1. IsWellFoundedOn(StrictSubsetOrdering(S), SUBSET S)
  BY FS_FiniteSubsetsOfFinite, FS_StrictSubsetOrderingWellFounded
<1>2. PICK m \in F : \A y \in F : ~ (<<y, m>> \in StrictSubsetOrdering(S))
  BY <1>1, WFMin
<1>3. ASSUME NEW y \in F, y \subseteq m, y # m
      PROVE  FALSE
  <2>1. <<y, m>> \in StrictSubsetOrdering(S)
    BY <1>3 DEF StrictSubsetOrdering
  <2> QED BY <1>2, <2>1
<1> QED BY <1>3 DEF Minimal

(* Two folds agree on the sets on which both are defined.                  *)
LEMMA FoldsAgree ==
  ASSUME NEW S, NEW T \in SUBSET S, IsFiniteSet(T), NEW g, NEW h, FoldsTo(S, g), FoldsTo(T, h)
  PROVE  \A s \in SUBSET T : g[s] = h[s]
<1> DEFINE F == {s \in SUBSET T : g[s] # h[s]}
<1> SUFFICES ASSUME F # {} PROVE FALSE
  OBVIOUS
<1>1. PICK s \in F : Minimal(s, F)
  <2>1. F \in SUBSET (SUBSET T)
    OBVIOUS
  <2> HIDE DEF F
  <2> QED BY <2>1, MinimalSet
<1>2. s \in SUBSET T /\ s \in SUBSET S /\ g[s] # h[s]
  BY <1>1
<1>3. s # {}
  BY <1>2 DEF FoldsTo
<1> DEFINE r == s \ {AnyOf(s)}
<1>4. AnyOf(s) \in s
  BY <1>3 DEF AnyOf
<1>5. r \in SUBSET T /\ r \subseteq s /\ r # s
  BY <1>2, <1>4
<1>6. g[r] = h[r]
  BY <1>1, <1>5 DEF Minimal
<1>7. g[s] = g[r] + AnyOf(s).amount /\ h[s] = h[r] + AnyOf(s).amount
  BY <1>2, <1>3 DEF FoldsTo
<1> QED BY <1>2, <1>6, <1>7

Sums(S) == \E g : FoldsTo(S, g)

(* When that fold exists, the sum is its value at the whole set.           *)
LEMMA FoldIs ==
  ASSUME NEW S, Sums(S)
  PROVE  \E g : FoldsTo(S, g) /\ Total(S) = g[S]
BY TotalIs DEF Sums

(* What one row less leaves, when both sums exist.                         *)
LEMMA RowLess ==
  ASSUME NEW S, IsFiniteSet(S), S # {}, Sums(S), Sums(S \ {AnyOf(S)})
  PROVE  Total(S) = Total(S \ {AnyOf(S)}) + AnyOf(S).amount
<1> DEFINE R == S \ {AnyOf(S)}
<1>1. PICK g : FoldsTo(S, g) /\ Total(S) = g[S]
  BY FoldIs
<1>2. PICK h : FoldsTo(R, h) /\ Total(R) = h[R]
  BY FoldIs
<1>3. R \in SUBSET S /\ IsFiniteSet(R) /\ R \in SUBSET R
  BY FS_Subset
<1>4. g[S] = g[R] + AnyOf(S).amount
  BY <1>1 DEF FoldsTo
<1> HIDE DEF R
<1>5. g[R] = h[R]
  BY <1>1, <1>2, <1>3, FoldsAgree
<1> QED BY <1>1, <1>2, <1>4, <1>5 DEF R

(* Every finite set of rows has a sum.                                     *)
LEMMA SumsExist ==
  ASSUME NEW S, IsFiniteSet(S)
  PROVE  Sums(S)
<1> DEFINE F == {s \in SUBSET S : ~Sums(s)}
<1>1. CASE F = {}
  BY <1>1
<1>2. CASE F # {}
  <2>1. PICK m \in F : Minimal(m, F)
    <3>1. F \in SUBSET (SUBSET S)
      OBVIOUS
    <3> HIDE DEF F
    <3> QED BY <1>2, <3>1, MinimalSet
  <2>2. m \in SUBSET S /\ IsFiniteSet(m) /\ ~Sums(m)
    BY <2>1, FS_Subset
  <2>3. \A s \in SUBSET m : s # m => Sums(s) /\ IsFiniteSet(s)
    BY <2>1, <2>2, FS_Subset DEF Minimal
  <2> DEFINE V(s) == IF s = {} THEN 0 ELSE Total(s \ {AnyOf(s)}) + AnyOf(s).amount
             h == [s \in SUBSET m |-> V(s)]
  <2>4. ASSUME NEW s \in SUBSET m
        PROVE  h[s] = IF s = {} THEN 0 ELSE h[s \ {AnyOf(s)}] + AnyOf(s).amount
    <3>1. CASE s = {}
      BY <3>1
    <3>2. CASE s # {}
      <4> DEFINE r == s \ {AnyOf(s)}
      <4>1. AnyOf(s) \in s
        BY <3>2 DEF AnyOf
      <4>2. r \in SUBSET m /\ r # m /\ r \ {AnyOf(r)} \in SUBSET m /\ r \ {AnyOf(r)} # m
        BY <4>1
      <4>3. h[s] = Total(r) + AnyOf(s).amount
        BY <3>2
      <4>4. h[r] = V(r)
        BY <4>2
      <4>5. V(r) = Total(r)
        <5>1. CASE r = {}
          <6>1. PICK g : FoldsTo(r, g) /\ Total(r) = g[r]
            BY <2>3, <4>2, FoldIs
          <6>2. g[r] = 0
            BY <5>1, <6>1 DEF FoldsTo
          <6> QED BY <5>1, <6>1, <6>2
        <5>2. CASE r # {}
          <6>1. IsFiniteSet(r) /\ Sums(r) /\ Sums(r \ {AnyOf(r)})
            BY <2>3, <4>2
          <6> HIDE DEF r
          <6> QED BY <5>2, <6>1, RowLess
        <5> QED BY <5>1, <5>2
      <4> HIDE DEF h, V
      <4> QED BY <3>2, <4>3, <4>4, <4>5
    <3> QED BY <3>1, <3>2
  <2>5. h = [s \in SUBSET m |-> h[s]]
    OBVIOUS
  <2> HIDE DEF h
  <2>6. [s \in SUBSET m |-> h[s]] = [s \in SUBSET m |-> IF s = {} THEN 0 ELSE h[s \ {AnyOf(s)}] + AnyOf(s).amount]
    BY <2>4
  <2>7. FoldsTo(m, h)
    BY <2>5, <2>6 DEF FoldsTo
  <2> QED BY <2>2, <2>7 DEF Sums
<1> QED BY <1>1, <1>2

(* The sum of no rows, and of one row more, whichever row it is.           *)
LEMMA TotalOfNone == Total({}) = 0
<1>1. Sums({})
  BY FS_EmptySet, SumsExist
<1>2. PICK g : FoldsTo({}, g) /\ Total({}) = g[{}]
  BY <1>1, FoldIs
<1>3. {} \in SUBSET {}
  OBVIOUS
<1> QED BY <1>2, <1>3 DEF FoldsTo

(* A row of a finite set adds its amount to the sum of the others.         *)
LEMMA TotalRest ==
  ASSUME NEW S, IsFiniteSet(S), \A r \in S : r.amount \in Nat
  PROVE  \A s \in SUBSET S : Total(s) \in Nat /\ \A e \in s : Total(s) = Total(s \ {e}) + e.amount
<1> DEFINE Ok(s) == Total(s) \in Nat /\ \A e \in s : Total(s) = Total(s \ {e}) + e.amount
           F == {s \in SUBSET S : ~Ok(s)}
<1> SUFFICES ASSUME F # {} PROVE FALSE
  OBVIOUS
<1>1. PICK m \in F : Minimal(m, F)
  <2>1. F \in SUBSET (SUBSET S)
    OBVIOUS
  <2> HIDE DEF F
  <2> QED BY <2>1, MinimalSet
<1>2. m \in SUBSET S /\ IsFiniteSet(m) /\ ~Ok(m)
  BY <1>1, FS_Subset
<1>3. \A s \in SUBSET m : s # m => Ok(s)
  BY <1>1, <1>2 DEF Minimal
<1>4. CASE m = {}
  <2>1. Total(m) = 0
    BY <1>4, TotalOfNone
  <2> QED BY <1>2, <1>4, <2>1
<1>5. CASE m # {}
  <2> DEFINE c == AnyOf(m)
  <2>1. c \in m /\ c.amount \in Nat
    BY <1>2, <1>5 DEF AnyOf
  <2>2. IsFiniteSet(m \ {c}) /\ m \ {c} \in SUBSET m
    BY <1>2, FS_Subset
  <2>3. Total(m) = Total(m \ {c}) + c.amount
    <3>1. Sums(m) /\ Sums(m \ {c})
      BY <1>2, <2>2, SumsExist
    <3> QED BY <1>2, <1>5, <3>1, RowLess
  <2> HIDE DEF c
  <2>4. Ok(m \ {c})
    BY <1>3, <2>1, <2>2
  <2>5. Total(m) \in Nat
    BY <2>1, <2>3, <2>4
  <2>6. ASSUME NEW e \in m
        PROVE  Total(m) = Total(m \ {e}) + e.amount
    <3>1. CASE e = c
      BY <2>3, <3>1
    <3>2. CASE e # c
      <4>1. m \ {e} \in SUBSET m /\ m \ {e} # m /\ e \in m \ {c} /\ c \in m \ {e} /\ e.amount \in Nat
        BY <1>2, <2>1, <3>2
      <4>2. Ok(m \ {e})
        BY <1>3, <4>1
      <4> DEFINE r == (m \ {c}) \ {e}
      <4>3. (m \ {e}) \ {c} = r
        OBVIOUS
      <4>4. Total(m \ {c}) = Total(r) + e.amount
        BY <2>4, <4>1
      <4>5. Total(m \ {e}) = Total(r) + c.amount
        BY <4>1, <4>2, <4>3
      <4>6. Total(r) \in Nat
        <5>1. r \in SUBSET m /\ r # m
          BY <4>1
        <5> QED BY <1>3, <5>1
      <4> HIDE DEF r
      <4> QED BY <2>1, <2>3, <4>1, <4>4, <4>5, <4>6
    <3> QED BY <3>1, <3>2
  <2> QED BY <1>2, <2>5, <2>6
<1> QED BY <1>4, <1>5

(* A row that is new adds its amount to the sum.                           *)
LEMMA TotalMore ==
  ASSUME NEW S, IsFiniteSet(S), \A r \in S : r.amount \in Nat, NEW t, t \notin S, t.amount \in Nat
  PROVE  Total(S) \in Nat /\ Total(S \cup {t}) = Total(S) + t.amount
<1> DEFINE T == S \cup {t}
<1>1. IsFiniteSet(T)
  BY FS_AddElement
<1>2. \A r \in T : r.amount \in Nat
  OBVIOUS
<1>3. T \in SUBSET T /\ t \in T /\ T \ {t} = S /\ S \in SUBSET T
  OBVIOUS
<1> HIDE DEF T
<1>4. \A s \in SUBSET T : Total(s) \in Nat /\ \A e \in s : Total(s) = Total(s \ {e}) + e.amount
  BY <1>1, <1>2, TotalRest
<1> QED BY <1>3, <1>4 DEF T
-----------------------------------------------------------------------------
(* What a step makes of the calls.                                         *)

(* The call of p stays, or another of the operations in O takes its place. *)
Moves(p, O) == proc' = proc \/ \E r : proc' = [proc EXCEPT ![p] = r] /\ r.op \in O

(* A step of one process leaves the calls of the others alone.             *)
LEMMA Moved ==
  ASSUME ProcTyped, NEW p \in Procs, NEW O, Moves(p, O)
  PROVE  /\ \A q \in Procs : q # p => proc'[q] = proc[q]
         /\ proc'[p] = proc[p] \/ proc'[p].op \in O
BY DEF ProcTyped, Moves

(* Taking up a record of one of O's operations moves within O.             *)
LEMMA TakesUp ==
  ASSUME NEW p, NEW O, NEW r, Become(p, r), r.op \in O
  PROVE  Moves(p, O)
BY DEF Become, Moves

(* A call that ends,                                                       *)
LEMMA EndMoves ==
  ASSUME NEW p, NEW O, "none" \in O, End(p)
  PROVE  Moves(p, O)
<1>1. Idle.op = "none"
  BY DEF Idle
<1> QED BY <1>1, TakesUp DEF End

(* a write that commits,                                                   *)
LEMMA WriteMoves ==
  ASSUME NEW p, NEW O, "none" \in O, "write" \in O, NEW todo, NEW missed,
         Answered(p, todo, missed) \/ Unanswered(p, todo, missed) \/ Committed(p, todo, missed)
  PROVE  Moves(p, O)
<1> DEFINE r == New("write", None, "del", None, None, None, None, todo)
<1>1. ToDelete(todo) = r
  BY WriteIs
<1>2. r.op = "write"
  BY DEF New
<1>3. End(p) \/ Become(p, r)
  <2>1. End(p) \/ Become(p, ToDelete(todo))
    BY DEF Answered, Unanswered, Committed, ToDelete
  <2> QED BY <1>1, <2>1
<1> HIDE DEF r
<1> QED BY <1>2, <1>3, TakesUp, EndMoves

(* A call of the operation op is taken up.                                 *)
LEMMA UseMoves ==
  ASSUME NEW p, NEW O, NEW op \in O, NEW u, NEW k, NEW a, NEW s,
         Become(p, [Call(op, u, k, a) EXCEPT !.step = s])
  PROVE  Moves(p, O)
<1> DEFINE r == New(op, u, s, k, None, a, None, <<>>)
<1>1. Become(p, r)
  BY UseIs
<1>2. r.op = op
  BY DEF New
<1> HIDE DEF r
<1> QED BY <1>1, <1>2, TakesUp

With(c, s, v) == [c EXCEPT !.step = s, !.val = v]

(* a call that goes on with a value,                                       *)
LEMMA WithMoves ==
  ASSUME NEW p, NEW O, NEW op \in O, NEW u, NEW k, NEW a, NEW s, NEW v,
         Become(p, With(Call(op, u, k, a), s, v))
  PROVE  Moves(p, O)
<1> DEFINE c == Call(op, u, k, a)
<1>1. c = New(op, u, "idle", k, None, a, None, <<>>)
  BY CallIs
<1> HIDE DEF c
<1>2. With(c, s, v).op = op
  BY <1>1 DEF New, With
<1> QED BY <1>2, TakesUp DEF c

(* a call that goes on to another step,                                    *)
LEMMA ThenMoves ==
  ASSUME NEW p, NEW O, NEW op \in O, NEW u, NEW k, NEW a, NEW s, NEW t,
         ThenStep(p, Call(op, u, k, a), s, t)
  PROVE  Moves(p, O)
<1> DEFINE r == New(op, u, s, k, None, a, None, t)
<1>1. Become(p, r)
  BY ThenIs
<1>2. r.op = op
  BY DEF New
<1> HIDE DEF r
<1> QED BY <1>1, <1>2, TakesUp

(* a write that begins with a read,                                        *)
LEMMA ReadThenMoves ==
  ASSUME NEW p, NEW O, NEW op \in O, NEW u, NEW k, NEW a, ReadThen(p, Call(op, u, k, a))
  PROVE  Moves(p, O)
<1> DEFINE d == Call(op, u, k, a)
           v == cache[d.key]
<1>1. Become(p, With(d, "use", v)) \/ Become(p, [d EXCEPT !.step = "load"])
  BY DEF ReadThen, With
<1> HIDE DEF v
<1>2. CASE Become(p, With(d, "use", v))
  BY <1>2, WithMoves
<1>3. CASE Become(p, [d EXCEPT !.step = "load"])
  BY <1>3, UseMoves
<1> QED BY <1>1, <1>2, <1>3

(* and a read that begins move no other process.                           *)
LEMMA ReadMoves ==
  ASSUME NEW p, NEW O, "read" \in O, NEW u, NEW k, Read(p, u, k)
  PROVE  Moves(p, O)
BY UseMoves DEF Read

(* A step of the store begins a purchase, takes one further, or is about   *)
(* something else and leaves the sales alone.                              *)
StoreOps == {"none", "read", "write", "game", "updateGame", "createReview", "updateReview",
             "deleteReview", "updateComment", "deleteComment"}
RemarkOps == {"updateComment", "deleteComment"}

(* A step of the store is one of a purchase or leaves the sales alone.     *)
LEMMA StoreMoves ==
  ASSUME NEW p \in Procs, StoreStep(p),
         NEW O, StoreOps \ RemarkOps \subseteq O, UpdateReviewComment(p) \/ DeleteReviewComment(p) => RemarkOps \subseteq O
  PROVE  \/ PurchaseGame(p) \/ ClaimLicense(p) \/ GetUserForUpdate(p) \/ CommitPurchase(p)
         \/ Moves(p, O) /\ UNCHANGED sales
<1> DEFINE Quiet == Moves(p, O) /\ UNCHANGED sales
<1>0. /\ End(p) => Moves(p, O)
      /\ \A t, m : Answered(p, t, m) \/ Unanswered(p, t, m) \/ Committed(p, t, m) => Moves(p, O)
  <2>1. "none" \in O /\ "write" \in O
    BY DEF StoreOps, RemarkOps
  <2> QED BY <2>1, EndMoves, WriteMoves
<1>1. \A u, k : Read(p, u, k) => Moves(p, O)
  <2>1. "read" \in O
    BY DEF StoreOps, RemarkOps
  <2> QED BY <2>1, ReadMoves
<1>2. Fails(p) => Quiet
  BY <1>0 DEF Fails, store
<1>3. ASSUME \/ GetGame(p) \/ ListGamesPage(p) \/ GetReview(p) \/ ListReviews(p) \/ ListThread(p)
             \/ GetMyGamePlays(p) \/ ListMyGameOrders(p) \/ GetAccountBalance(p)
      PROVE  Quiet
  <2>1. (\E u, k : Read(p, u, k)) /\ UNCHANGED store
    BY <1>3 DEF GetGame, ListGamesPage, GetReview, ListReviews, ListThread, GetMyGamePlays,
                  ListMyGameOrders, GetAccountBalance, ReadOf
  <2> QED BY <1>1, <2>1 DEF store
<1>4. ASSUME CreateGame(p) PROVE Quiet
  <2>1. "game" \in O
    BY DEF StoreOps, RemarkOps
  <2>2. CASE ThenStep(p, Call("game", None, None, FALSE), "topic", <<GamesKey>>) /\ UNCHANGED sales
    BY <2>1, <2>2, ThenMoves
  <2> QED BY <1>2, <1>4, <2>2 DEF CreateGame
<1>6. ASSUME UpdateGame(p) PROVE Quiet
  <2>1. "updateGame" \in O
    BY DEF StoreOps, RemarkOps
  <2>2. PICK price : ReadThen(p, Call("updateGame", None, GameKey, price))
    BY <1>6 DEF UpdateGame
  <2>3. Moves(p, O)
    BY <2>1, <2>2, ReadThenMoves
  <2> QED BY <1>6, <2>3 DEF UpdateGame, store
<1>7. ASSUME SaveGame(p) \/ DeleteGame(p) PROVE Quiet
  BY <1>0, <1>2, <1>7 DEF SaveGame, DeleteGame
<1>8. ASSUME CreateReview(p) PROVE Quiet
  <2>1. "createReview" \in O
    BY DEF StoreOps, RemarkOps
  <2>2. PICK u \in Users, text \in Texts :
          UNCHANGED proc \/ Become(p, [Call("createReview", u, None, text) EXCEPT !.step = "use"])
    BY <1>8 DEF CreateReview
  <2>3. Moves(p, O)
    <3>1. CASE UNCHANGED proc
      BY <3>1 DEF Moves
    <3> QED BY <2>1, <2>2, <3>1, UseMoves
  <2> QED BY <1>8, <2>3 DEF CreateReview, store
<1>9. ASSUME InsertReview(p) PROVE Quiet
  BY <1>0, <1>2, <1>9 DEF InsertReview
<1>10. ASSUME UpdateReview(p) \/ DeleteReview(p) PROVE Quiet
  <2>1. PICK op \in {"updateReview", "deleteReview"} : OfReview(p, op)
    BY <1>10 DEF UpdateReview, DeleteReview
  <2>2. op \in O
    BY DEF StoreOps, RemarkOps
  <2>3. PICK u, r, text : ReadThen(p, Call(op, u, ReviewKey(r), text))
    BY <2>1 DEF OfReview
  <2>4. Moves(p, O)
    BY <2>2, <2>3, ReadThenMoves
  <2> QED BY <2>1, <2>4 DEF OfReview, store
<1>11. ASSUME SaveReview(p) \/ DropReview(p) \/ NotOwn(p) PROVE Quiet
  BY <1>0, <1>2, <1>11 DEF SaveReview, DropReview, NotOwn, store
<1>12. ASSUME CreateReviewComment(p) PROVE Quiet
  BY <1>0, <1>2, <1>12 DEF CreateReviewComment
<1>13. ASSUME UpdateReviewComment(p) \/ DeleteReviewComment(p) PROVE Quiet
  <2>1. PICK op \in {"updateComment", "deleteComment"} : OfComment(p, op)
    BY <1>13 DEF UpdateReviewComment, DeleteReviewComment
  <2>2. op \in O
    BY <1>13 DEF RemarkOps
  <2>3. PICK c \in Remarks, text \in Texts :
          Become(p, With(Call(op, remarks[c].user, c, text), "use", remarks[c]))
    BY <2>1 DEF OfComment, With
  <2>4. Moves(p, O)
    <3> DEFINE w == remarks[c].user
               v == remarks[c]
    <3>1. Become(p, With(Call(op, w, c, text), "use", v))
      BY <2>3
    <3> HIDE DEF w, v
    <3> QED BY <2>2, <3>1, WithMoves
  <2> QED BY <2>1, <2>4 DEF OfComment, store
<1>14. ASSUME SaveReviewComment(p) \/ DropReviewComment(p) PROVE Quiet
  BY <1>0, <1>2, <1>14 DEF SaveReviewComment, DropReviewComment, store
<1>15. ASSUME UpsertMyGamePlay(p) \/ DeleteMyGamePlay(p) PROVE Quiet
  <2>1. \E u, h : WritePlay(p, u, h)
    BY <1>15 DEF UpsertMyGamePlay, DeleteMyGamePlay
  <2> QED BY <1>0, <1>2, <2>1 DEF WritePlay
<1> HIDE DEF Quiet
<1>16. Quiet \/ PurchaseGame(p) \/ ClaimLicense(p) \/ GetUserForUpdate(p) \/ CommitPurchase(p)
  BY <1>3, <1>4, <1>6, <1>7, <1>8, <1>9, <1>10, <1>11, <1>12, <1>13, <1>14, <1>15 DEF StoreStep
<1> QED BY <1>16 DEF Quiet

(* A like, a follow and any other step of the community are about no       *)
(* purchase.                                                               *)
LEMMA LikeMoves ==
  ASSUME ProcTyped, NEW p \in Procs, LikeComment(p) \/ IncrStats(p) \/ PublishCommentAction(p),
         NEW O, "none" \in O, "like" \in O
  PROVE  Moves(p, O)
<1>1. End(p) => Moves(p, O)
  BY EndMoves
<1>2. CASE LikeComment(p)
  <2>1. UNCHANGED proc \/ \E u, k, a, s : Become(p, [Call("like", u, k, a) EXCEPT !.step = s])
    BY <1>2 DEF LikeComment
  <2> QED BY <2>1, UseMoves DEF Moves
<1>3. CASE IncrStats(p)
  <2>1. CASE Step(p, "publish")
    <3>1. PICK V : proc[p] \in Rec(V) /\ proc \in [Procs -> Rec(V)]
      BY ProcIs
    <3> DEFINE r == [proc[p] EXCEPT !.step = "publish"]
    <3>2. r.op = proc[p].op
      BY <3>1 DEF Rec
    <3>3. proc' = [proc EXCEPT ![p] = r]
      BY <2>1, <3>1 DEF Step
    <3>4. proc[p].op \in O
      BY <1>3 DEF IncrStats, At
    <3> HIDE DEF r
    <3> QED BY <3>2, <3>3, <3>4 DEF Moves
  <2> QED BY <1>1, <1>3, <2>1 DEF IncrStats
<1>4. CASE PublishCommentAction(p)
  BY <1>1, <1>4 DEF PublishCommentAction
<1> QED BY <1>2, <1>3, <1>4

(* A step of a follow takes up no call of another kind.                    *)
LEMMA FollowMoves ==
  ASSUME NEW p, CreateFollow(p) \/ IncrementFollowingCount(p),
         NEW O, "none" \in O, "write" \in O, "follow" \in O
  PROVE  Moves(p, O)
<1>1. \A t, m : Unanswered(p, t, m) \/ Committed(p, t, m) => Moves(p, O)
  BY WriteMoves
<1>2. CASE CreateFollow(p)
  <2>1. \/ UNCHANGED proc
        \/ \E u, k, a, st, t : ThenStep(p, Call("follow", u, k, a), st, t)
        \/ \E t, m : Unanswered(p, t, m)
    BY <1>2 DEF CreateFollow
  <2> QED BY <1>1, <2>1, ThenMoves DEF Moves
<1>3. CASE IncrementFollowingCount(p)
  BY <1>1, <1>3 DEF IncrementFollowingCount
<1> QED BY <1>2, <1>3

TalkOps == {"none", "read", "write", "game", "uncomment", "topic", "untopic", "followTopic", "updateUser"}
SocialOps == TalkOps \cup {"like", "follow"}

(* A step of the community is one of a like or a follow, or no such call.  *)
LEMMA CommunityMoves ==
  ASSUME ProcTyped, NEW p \in Procs, CommunityStep(p),
         NEW O, TalkOps \ {"uncomment"} \subseteq O, DeleteComment(p) => "uncomment" \in O
  PROVE  \/ LikeComment(p) \/ IncrStats(p) \/ PublishCommentAction(p)
         \/ CreateFollow(p) \/ IncrementFollowingCount(p)
         \/ Moves(p, O)
<1> DEFINE Done == Moves(p, O)
<1>0. /\ End(p) => Done
      /\ \A t, m : Answered(p, t, m) \/ Unanswered(p, t, m) \/ Committed(p, t, m) => Done
  <2>1. "none" \in O /\ "write" \in O
    BY DEF TalkOps
  <2> QED BY <2>1, EndMoves, WriteMoves DEF Moves
<1>1. ASSUME NEW op \in O, NEW u, NEW k, NEW a, NEW s, Become(p, [Call(op, u, k, a) EXCEPT !.step = s])
      PROVE  Done
  BY <1>1, UseMoves
<1>2. Refused(p) => Done
  BY <1>0 DEF Refused
<1>3. ASSUME \/ GetArticleComment(p) \/ GetMyCYList(p) \/ ListActiveTopics(p)
             \/ ListFollowedTopics(p) \/ GetSocialStats(p) \/ GetUserBase(p)
      PROVE  Done
  <2>1. \E u, k : Read(p, u, k)
    BY <1>3 DEF GetArticleComment, GetMyCYList, ListActiveTopics, ListFollowedTopics, GetSocialStats,
                GetUserBase, Ask
  <2>2. "read" \in O
    BY DEF TalkOps
  <2> QED BY <2>1, <2>2, ReadMoves
<1>4. ASSUME \/ CreateComment(p) \/ DeleteCommentByID(p) \/ InsertTopic(p) \/ DropTopic(p) \/ SaveUser(p)
             \/ CreateTopicFollow(p) \/ UnfollowTopic(p)
      PROVE  Done
  BY <1>0, <1>2, <1>4 DEF CreateComment, DeleteCommentByID, InsertTopic, DropTopic, SaveUser, CreateTopicFollow,
                          UnfollowTopic, SetTopicFollow
<1>5. ASSUME DeleteComment(p) \/ DeleteTemporaryTopic(p) \/ FollowTopic(p) \/ UpdateUser(p) \/ Login(p)
      PROVE  Done
  <2>1. {"untopic", "followTopic", "updateUser", "read"} \subseteq O
    BY DEF TalkOps
  <2>2. \E op \in O : \E u, k, a, s : Become(p, [Call(op, u, k, a) EXCEPT !.step = s])
    <3>1. CASE DeleteComment(p) BY <2>1, <3>1 DEF DeleteComment
    <3>2. CASE DeleteTemporaryTopic(p) BY <2>1, <3>2 DEF DeleteTemporaryTopic
    <3>3. CASE FollowTopic(p) BY <2>1, <3>3 DEF FollowTopic
    <3>4. CASE UpdateUser(p) BY <2>1, <3>4 DEF UpdateUser
    <3>5. CASE Login(p) BY <2>1, <3>5 DEF Login
    <3> QED BY <1>5, <3>1, <3>2, <3>3, <3>4, <3>5
  <2> QED BY <1>1, <2>2
<1>6. ASSUME CreateTopic(p) \/ EnsureGameTopic(p)
      PROVE  Done
  <2>1. "topic" \in O /\ "game" \in O
    BY DEF TalkOps
  <2>2. PICK c : c.op \in O /\ (\E V : c \in Rec(V)) /\ FindTopic(p, c)
    <3>1. CASE EnsureGameTopic(p)
      <4>1. (\E V : proc[p] \in Rec(V)) /\ proc[p].op = "game" /\ FindTopic(p, proc[p])
        BY <3>1, ProcIs DEF EnsureGameTopic, At
      <4> QED BY <2>1, <4>1
    <3>2. CASE CreateTopic(p)
      <4>1. PICK temporary : FindTopic(p, Call("topic", None, None, temporary))
        BY <3>2 DEF CreateTopic
      <4> DEFINE c == New("topic", None, "idle", None, None, temporary, None, <<>>)
      <4>2. c = Call("topic", None, None, temporary)
        BY CallIs
      <4>3. c \in Rec({"topic", None, "idle", temporary, <<>>}) /\ c.op = "topic"
        BY DEF New, Rec
      <4> HIDE DEF c
      <4>4. FindTopic(p, c) /\ c.op \in O /\ \E V : c \in Rec(V)
        BY <2>1, <4>1, <4>2, <4>3
      <4> QED BY <4>4
    <3> QED BY <1>6, <3>1, <3>2
  <2>3. ASSUME NEW t, ThenStep(p, c, "insert", t)
        PROVE  Done
    <3> DEFINE r == [c EXCEPT !.step = "insert", !.todo = t]
    <3>1. PICK V : c \in Rec(V)
      BY <2>2
    <3>2. r.op = c.op
      BY <3>1 DEF Rec
    <3>3. Become(p, r)
      BY <2>3 DEF ThenStep
    <3> HIDE DEF r
    <3> QED BY <2>2, <3>2, <3>3, TakesUp
  <2> HIDE DEF Done
  <2> QED BY <1>0, <2>2, <2>3 DEF FindTopic
<1> HIDE DEF Done
<1>7. \/ Done \/ LikeComment(p) \/ IncrStats(p) \/ PublishCommentAction(p)
      \/ CreateFollow(p) \/ IncrementFollowingCount(p)
  BY <1>3, <1>4, <1>5, <1>6 DEF CommunityStep
<1> QED BY <1>7 DEF Done

(* What carries the data takes a call further or ends it.                  *)
LEMMA DataMoves ==
  ASSUME ProcTyped, NEW p \in Procs, Data(p)
  PROVE  /\ \A q \in Procs : q # p => proc'[q] = proc[q]
         /\ proc'[p] = Idle
            \/ /\ proc'[p].op = proc[p].op /\ proc'[p].key = proc[p].key /\ proc'[p].arg = proc[p].arg
               /\ proc'[p].held = proc[p].held
<1>1. PICK V : proc[p] \in Rec(V) /\ proc \in [Procs -> Rec(V)]
  BY ProcIs
<1> DEFINE row == View(proc[p].key)
           t == Tail(proc[p].todo)
           a == [proc[p] EXCEPT !.step = "fill", !.val = row]
           b == [proc[p] EXCEPT !.step = "use"]
           c == [proc[p] EXCEPT !.todo = t]
<1>2. PICK r \in {Idle, a, b, c} : proc' = [proc EXCEPT ![p] = r]
  <2>1. CASE Load(p, row)
    BY <2>1 DEF Load, End, Become
  <2>2. CASE Fill(p, row)
    BY <2>2 DEF Fill, End, Become, Step
  <2>3. CASE Del(p)
    BY <2>3 DEF Del, End, Become
  <2> QED BY <2>1, <2>2, <2>3 DEF Data
<1>3. \A x \in {a, b, c} : x.op = proc[p].op /\ x.key = proc[p].key /\ x.arg = proc[p].arg /\ x.held = proc[p].held
  BY <1>1 DEF Rec
<1> HIDE DEF a, b, c
<1> QED BY <1>1, <1>2, <1>3
-----------------------------------------------------------------------------
(* SalesBooked.  A code that a purchase holds is for sale until it         *)
(* commits; a sold code has its ledger row, whose id no purchase without   *)
(* retries has again.                                                      *)

RowOf(id, u, price) == [id |-> id, user |-> u, amount |-> ChargeYuan(price)]

LedgerInv ==
  /\ IsFiniteSet(ledger)
  /\ \A s, t \in ledger : s.id = t.id => s = t
  /\ \A t \in ledger : (\E o \in orders : o.id = t.id) /\ (\E c \in Codes : codes[c] = t.id)
OrdersInv ==
  \A o \in orders : IsPaidGame(o.price) =>
    o.code \in Codes /\ codes[o.code] = o.id /\ RowOf(o.id, o.user, o.price) \in ledger
CodesInv ==
  /\ \A c \in Codes : Live(codes[c]) => \E t \in ledger : t.id = codes[c]
  /\ \A c, d \in Codes : Live(codes[c]) /\ codes[c] = codes[d] => c = d
  /\ \A p \in Procs : proc[p].held # None => codes[proc[p].held] = None
BalanceInv ==
  \A u \in Users :
    /\ balance[u] \in Nat /\ balance[u] + Total(Charged(u)) <= Grant
    /\ "retry" \notin offer => balance[u] = Grant - Total(Charged(u))
IdsInv ==
  "retry" \notin offer =>
    /\ \A t \in ledger : t.id[2] \in 1..calls
    /\ \A p \in Procs : proc[p].op = "purchase" =>
         /\ proc[p].arg[2] \in 1..calls
         /\ \A t \in ledger : t.id # proc[p].arg
         /\ \A q \in Procs \ {p} : proc[q].op = "purchase" => proc[q].arg # proc[p].arg
BooksInv == LedgerInv /\ OrdersInv /\ CodesInv /\ BalanceInv /\ IdsInv

(* The charges of a user are finitely many rows with amounts.              *)
LEMMA ChargedFinite ==
  ASSUME TypeInv, LedgerInv, NEW u
  PROVE  IsFiniteSet(Charged(u)) /\ Total(Charged(u)) \in Nat /\ \A r \in Charged(u) : r.amount \in Nat
<1>1. Charged(u) \in SUBSET ledger
  BY DEF Charged
<1>2. \A r \in ledger : r.amount \in Nat
  BY DEF TypeInv, StoreTyped
<1>3. IsFiniteSet(Charged(u)) /\ \A r \in Charged(u) : r.amount \in Nat
  BY <1>1, <1>2, FS_Subset DEF LedgerInv
<1> DEFINE S == Charged(u)
<1> HIDE DEF S
<1>4. S \in SUBSET S /\ IsFiniteSet(S) /\ \A r \in S : r.amount \in Nat
  BY <1>3 DEF S
<1>5. Total(S) \in Nat
  BY <1>4, TotalRest
<1> QED BY <1>3, <1>5 DEF S

(* Steps that leave the sales alone, and begin no purchase.                *)
LEMMA BooksStay ==
  ASSUME TypeInv, BooksInv, UNCHANGED sales, offer' = offer, calls' \in Nat, calls <= calls',
         \A q \in Procs : proc'[q].op = "purchase" =>
           proc[q].op = "purchase" /\ proc'[q].arg = proc[q].arg,
         \A q \in Procs : proc'[q].held # None => codes[proc'[q].held] = None
  PROVE  BooksInv'
<1>1. codes' = codes /\ ledger' = ledger /\ orders' = orders /\ balance' = balance
  BY DEF sales
<1>2. LedgerInv' /\ OrdersInv' /\ CodesInv'
  BY <1>1 DEF BooksInv, LedgerInv, OrdersInv, CodesInv
<1>3. BalanceInv'
  BY <1>1 DEF BooksInv, BalanceInv, Charged
<1>4. \A n \in 1..calls : n \in 1..calls'
  <2>1. calls \in Nat
    BY ReadThroughAssumption DEF TypeInv, OfferTyped
  <2> QED BY <2>1
<1>5. IdsInv'
  BY <1>1, <1>4 DEF BooksInv, IdsInv
<1> QED BY <1>2, <1>3, <1>5 DEF BooksInv

(* A purchase begins.                                                      *)
LEMMA BooksBegin ==
  ASSUME TypeInv, TypeInv', BooksInv, NEW p \in Procs, PurchaseGame(p)
  PROVE  BooksInv'
<1>1. PICK u \in Users, id \in IF "retry" \in offer THEN IdemKeys ELSE {calls'} :
        ReadThen(p, Call("purchase", u, GameKey, <<u, id>>))
  BY DEF PurchaseGame
<1>2. UNCHANGED sales /\ offer' = offer /\ calls' = calls + 1
  BY DEF PurchaseGame, Request, store
<1>3. calls \in Nat /\ calls' \in Nat /\ calls' = calls + 1
  BY <1>2, ReadThroughAssumption DEF TypeInv, OfferTyped
<1>4. \E r : proc' = [proc EXCEPT ![p] = r] /\ r.arg = <<u, id>> /\ r.held = None
  <2> DEFINE d == Call("purchase", u, GameKey, <<u, id>>)
             v == cache[d.key]
  <2>1. d = New("purchase", u, "idle", GameKey, None, <<u, id>>, None, <<>>)
    BY CallIs
  <2>2. Become(p, With(d, "use", v)) \/ Become(p, [d EXCEPT !.step = "load"])
    BY <1>1 DEF ReadThen, With
  <2> HIDE DEF d, v
  <2>3. With(d, "use", v).arg = <<u, id>> /\ With(d, "use", v).held = None
    BY <2>1 DEF With, New
  <2>4. [d EXCEPT !.step = "load"].arg = <<u, id>> /\ [d EXCEPT !.step = "load"].held = None
    BY <2>1 DEF New
  <2>5. CASE Become(p, With(d, "use", v))
    BY <2>3, <2>5 DEF Become
  <2>6. CASE Become(p, [d EXCEPT !.step = "load"])
    BY <2>4, <2>6 DEF Become
  <2> QED BY <2>2, <2>5, <2>6
<1>5. /\ \A q \in Procs : q # p => proc'[q] = proc[q]
      /\ proc'[p].arg = <<u, id>> /\ proc'[p].held = None
  BY <1>4 DEF TypeInv, ProcTyped
<1>6. codes' = codes /\ ledger' = ledger /\ orders' = orders /\ balance' = balance
  BY <1>2 DEF sales
<1>7. LedgerInv' /\ OrdersInv'
  BY <1>6 DEF BooksInv, LedgerInv, OrdersInv
<1>8. CodesInv'
  BY <1>5, <1>6 DEF BooksInv, CodesInv
<1>9. BalanceInv'
  BY <1>2, <1>6 DEF BooksInv, BalanceInv, Charged
<1>10. IdsInv'
  <2> SUFFICES ASSUME "retry" \notin offer PROVE IdsInv'
    BY <1>2 DEF IdsInv
  <2>1. proc'[p].arg[2] = calls'
    BY <1>1, <1>5
  <2>2. \A n \in 1..calls : n \in 1..calls' /\ n # calls'
    BY <1>3
  <2>3. calls' \in 1..calls'
    BY <1>3
  <2>4. \A t \in ledger : t.id[2] \in 1..calls
    BY DEF BooksInv, IdsInv
  <2>5. \A t \in ledger : t.id # proc'[p].arg
    BY <2>1, <2>2, <2>4
  <2>6. \A q \in Procs : q # p /\ proc[q].op = "purchase" => proc[q].arg # proc'[p].arg
    BY <2>1, <2>2 DEF BooksInv, IdsInv
  <2>7. \A t \in ledger' : t.id[2] \in 1..calls'
    BY <1>6, <2>2, <2>4
  <2>8. ASSUME NEW q \in Procs, proc'[q].op = "purchase"
        PROVE  /\ proc'[q].arg[2] \in 1..calls'
               /\ \A t \in ledger' : t.id # proc'[q].arg
               /\ \A x \in Procs \ {q} : proc'[x].op = "purchase" => proc'[x].arg # proc'[q].arg
    <3>1. CASE q = p
      BY <1>5, <1>6, <2>1, <2>3, <2>5, <2>6, <3>1
    <3>2. CASE q # p
      <4>1. proc'[q] = proc[q] /\ proc[q].op = "purchase"
        BY <1>5, <2>8, <3>2
      <4>2. proc[q].arg[2] \in 1..calls /\ \A t \in ledger : t.id # proc[q].arg
        BY <4>1 DEF BooksInv, IdsInv
      <4>3. ASSUME NEW x \in Procs \ {q}, proc'[x].op = "purchase"
            PROVE  proc'[x].arg # proc'[q].arg
        <5>1. CASE x = p
          BY <2>6, <3>2, <4>1, <5>1
        <5>2. CASE x # p
          <6>1. proc'[x] = proc[x]
            BY <1>5, <5>2
          <6> QED BY <4>1, <4>3, <6>1 DEF BooksInv, IdsInv
        <5> QED BY <5>1, <5>2
      <4> QED BY <1>6, <2>2, <4>1, <4>2, <4>3
    <3> QED BY <3>1, <3>2
  <2> QED BY <2>7, <2>8 DEF IdsInv
<1> QED BY <1>7, <1>8, <1>9, <1>10 DEF BooksInv
(* The purchase of p commits and ends.                                     *)
LEMMA OneEnds ==
  ASSUME TypeInv, TypeInv', NEW p \in Procs, CommitPurchase(p)
  PROVE  /\ \A q \in Procs : q # p => proc'[q] = proc[q]
         /\ proc'[p].op # "purchase" /\ proc'[p].held = None
         /\ offer' = offer /\ calls' = calls /\ calls \in Nat
<1>1. Moves(p, {"none", "write"})
  BY EndMoves, WriteMoves DEF CommitPurchase, Fails
<1>2. \A q \in Procs : q # p => proc'[q] = proc[q]
  BY <1>1, Moved DEF TypeInv
<1>3. End(p) \/ Become(p, ToDelete(PurchaseEntries(proc[p].user)))
  BY DEF CommitPurchase, Fails, Committed, Answered, Unanswered, ToDelete
<1>4. Idle.op # "purchase"
  BY DEF Idle
<1>5. ToDelete(PurchaseEntries(proc[p].user)).op # "purchase"
  <2> DEFINE t == PurchaseEntries(proc[p].user)
  <2> HIDE DEF t
  <2>1. ToDelete(t) = New("write", None, "del", None, None, None, None, t)
    BY WriteIs
  <2>2. ToDelete(t).op = "write"
    BY <2>1 DEF New
  <2> QED BY <2>2 DEF t
<1>6. proc'[p].op # "purchase"
  BY <1>3, <1>4, <1>5 DEF End, Become, TypeInv, ProcTyped
<1>7. proc'[p].held = None
  BY <1>6 DEF TypeInv, ProcTyped, Fits
<1>8. offer' = offer /\ calls' = calls /\ calls \in Nat
  BY ReadThroughAssumption DEF CommitPurchase, Going, TypeInv, OfferTyped
<1> QED BY <1>2, <1>6, <1>7, <1>8

(* A purchase of a free game, or one that finds its id in the ledger.      *)
LEMMA BooksNoRow ==
  ASSUME TypeInv, TypeInv', BooksInv, NEW p \in Procs, CommitPurchase(p), Book(p),
         UNCHANGED <<codes, ledger>>,
         \/ UNCHANGED <<balance>> /\ ~IsPaidGame(proc[p].val)
         \/ /\ \E t \in ledger : t.id = proc[p].arg
            /\ IsPaidGame(proc[p].val) /\ Covers(proc[p].user, proc[p].val) /\ UNCHANGED orders
  PROVE  BooksInv'
<1> DEFINE u == proc[p].user
           c == ChargeYuan(proc[p].val)
<1>1. /\ \A q \in Procs : q # p => proc'[q] = proc[q]
      /\ proc'[p].op # "purchase" /\ proc'[p].held = None
      /\ offer' = offer /\ calls' = calls
  BY OneEnds
<1>2. proc[p].op = "purchase" /\ proc[p].step \in {"use", "commit"}
  BY DEF CommitPurchase
<1>3. u \in Users /\ c \in Nat /\ proc[p].val \in Prices
  BY <1>2, BuyerIs, Charges DEF TypeInv
<1>4. orders' = orders \/ \E o : orders' = orders \cup {o} /\ o.price = proc[p].val
  <2> DEFINE o == [id |-> proc[p].arg, user |-> u, price |-> proc[p].val, code |-> proc[p].held]
  <2>1. orders' = orders \/ orders' = orders \cup {o}
    BY DEF Book
  <2>2. o.price = proc[p].val
    OBVIOUS
  <2> HIDE DEF o
  <2> QED BY <2>1, <2>2
<1>5. LedgerInv'
  BY <1>4 DEF BooksInv, LedgerInv
<1>6. OrdersInv'
  BY <1>4 DEF BooksInv, OrdersInv
<1>7. CodesInv'
  BY <1>1 DEF BooksInv, CodesInv
<1>8. IdsInv'
  BY <1>1 DEF BooksInv, IdsInv
<1>9. BalanceInv'
  <2>1. \A v : Charged(v)' = Charged(v)
    BY DEF Charged
  <2>2. CASE UNCHANGED <<balance>>
    BY <1>1, <2>1, <2>2 DEF BooksInv, BalanceInv
  <2>3. CASE IsPaidGame(proc[p].val) /\ Covers(u, proc[p].val) /\ \E t \in ledger : t.id = proc[p].arg
    <3>1. "retry" \in offer
      BY <1>2, <2>3 DEF BooksInv, IdsInv
    <3>2. balance' = [balance EXCEPT ![u] = @ - c]
      BY <2>3 DEF Book
    <3>3. balance \in [Users -> Int]
      BY DEF TypeInv, StoreTyped
    <3>4. \A v \in Users : balance'[v] = IF v = u THEN balance[u] - c ELSE balance[v]
      BY <3>2, <3>3
    <3>5. balance[u] >= c
      BY <2>3 DEF Covers
    <3>6. ASSUME NEW v \in Users
          PROVE  balance'[v] \in Nat /\ balance'[v] + Total(Charged(v)) <= Grant
      <4>1. balance[v] \in Nat /\ balance[v] + Total(Charged(v)) <= Grant /\ Total(Charged(v)) \in Nat /\ Grant \in Nat
        BY ChargedFinite, GameStoreAssumption DEF BooksInv, BalanceInv
      <4> DEFINE n == Total(Charged(v))
      <4> HIDE DEF n
      <4>2. CASE v = u
        BY <1>3, <3>4, <3>5, <4>1, <4>2 DEF n
      <4>3. CASE v # u
        BY <3>4, <4>1, <4>3
      <4> QED BY <4>2, <4>3
    <3> QED BY <1>1, <2>1, <3>1, <3>6 DEF BalanceInv
  <2> QED BY <2>2, <2>3
<1> QED BY <1>5, <1>6, <1>7, <1>8, <1>9 DEF BooksInv

(* A purchase that adds its row.                                           *)
LEMMA BooksRow ==
  ASSUME TypeInv, TypeInv', BooksInv, NEW p \in Procs, CommitPurchase(p), Book(p),
         IsPaidGame(proc[p].val), Covers(proc[p].user, proc[p].val),
         \A t \in ledger : t.id # proc[p].arg
  PROVE  BooksInv'
<1> DEFINE u == proc[p].user
           id == proc[p].arg
           h == proc[p].held
           c == ChargeYuan(proc[p].val)
           row == RowOf(id, u, proc[p].val)
           o == [id |-> id, user |-> u, price |-> proc[p].val, code |-> h]
<1>1. /\ \A q \in Procs : q # p => proc'[q] = proc[q]
      /\ proc'[p].op # "purchase" /\ proc'[p].held = None
      /\ offer' = offer /\ calls' = calls
  BY OneEnds
<1>2. proc[p].op = "purchase" /\ proc[p].step = "commit"
  BY DEF CommitPurchase
<1>3. u \in Users /\ id \in OrderIds /\ c \in Nat /\ h \in Codes /\ proc[p].val \in Prices
  BY <1>2, BuyerIs, Charges DEF TypeInv
<1>4. /\ balance' = [balance EXCEPT ![u] = @ - c]
      /\ ledger' = ledger \cup {row}
      /\ codes' = [codes EXCEPT ![h] = id]
      /\ \/ orders' = orders /\ \E x \in orders : x.id = id
         \/ orders' = orders \cup {o}
  BY DEF Book, RowOf
<1>5. /\ row.id = id /\ row.user = u /\ row.amount = c
      /\ o.id = id /\ o.user = u /\ o.price = proc[p].val /\ o.code = h
  BY DEF RowOf
<1>6. \A d \in Codes : codes'[d] = IF d = h THEN id ELSE codes[d]
  BY <1>3, <1>4 DEF TypeInv, StoreTyped
<1>7. codes[h] = None /\ h # None
  BY <1>3, RowsAssumption DEF BooksInv, CodesInv
<1>8. \A t \in ledger : t.id # None /\ t.id # id
  BY RowsAssumption DEF TypeInv, StoreTyped
<1>9. row \notin ledger
  BY <1>5, <1>8
<1> HIDE DEF row, o
<1>10. LedgerInv'
  <2>1. IsFiniteSet(ledger')
    BY <1>4, FS_AddElement DEF BooksInv, LedgerInv
  <2>2. \A s, t \in ledger' : s.id = t.id => s = t
    BY <1>4, <1>5, <1>8 DEF BooksInv, LedgerInv
  <2>3. ASSUME NEW t \in ledger'
        PROVE  (\E x \in orders' : x.id = t.id) /\ (\E d \in Codes : codes'[d] = t.id)
    <3>1. CASE t = row
      BY <1>3, <1>4, <1>5, <1>6, <3>1
    <3>2. CASE t \in ledger
      <4>1. PICK d \in Codes : codes[d] = t.id
        BY <3>2 DEF BooksInv, LedgerInv
      <4>2. d # h
        BY <1>7, <1>8, <3>2, <4>1
      <4>3. \E x \in orders : x.id = t.id
        BY <3>2 DEF BooksInv, LedgerInv
      <4> QED BY <1>4, <1>6, <4>1, <4>2, <4>3
    <3> QED BY <1>4, <2>3, <3>1, <3>2
  <2> QED BY <2>1, <2>2, <2>3 DEF LedgerInv
<1>11. OrdersInv'
  <2>1. ASSUME NEW x \in orders', IsPaidGame(x.price)
        PROVE  x.code \in Codes /\ codes'[x.code] = x.id /\ RowOf(x.id, x.user, x.price) \in ledger'
    <3>1. CASE x = o
      BY <1>3, <1>4, <1>5, <1>6, <3>1 DEF row
    <3>2. CASE x \in orders
      <4>1. x.code \in Codes /\ codes[x.code] = x.id /\ RowOf(x.id, x.user, x.price) \in ledger
        BY <2>1, <3>2 DEF BooksInv, OrdersInv
      <4>2. x.id # None
        BY <3>2, RowsAssumption DEF TypeInv, StoreTyped
      <4> QED BY <1>4, <1>6, <1>7, <4>1, <4>2
    <3> QED BY <1>4, <2>1, <3>1, <3>2
  <2> QED BY <2>1 DEF OrdersInv
<1>12. CodesInv'
  <2>1. ASSUME NEW d \in Codes, Live(codes'[d])
        PROVE  \E t \in ledger' : t.id = codes'[d]
    <3>1. CASE d = h
      BY <1>4, <1>5, <1>6, <3>1
    <3>2. CASE d # h
      BY <1>4, <1>6, <2>1, <3>2 DEF BooksInv, CodesInv
    <3> QED BY <3>1, <3>2
  <2>2. \A d \in Codes : Live(codes[d]) => codes[d] # id
    BY <1>8 DEF BooksInv, CodesInv
  <2>3. Live(id)
    BY <1>3, RowsAssumption DEF Live
  <2>4. \A d, e \in Codes : Live(codes'[d]) /\ codes'[d] = codes'[e] => d = e
    BY <1>6, <2>2, <2>3 DEF BooksInv, CodesInv
  <2>5. ASSUME NEW q \in Procs, proc'[q].held # None
        PROVE  codes'[proc'[q].held] = None
    <3>1. q # p /\ proc'[q] = proc[q]
      BY <1>1, <2>5
    <3>2. proc[q].held \in Codes /\ proc[q].held # h /\ codes[proc[q].held] = None
      BY <1>7, <2>5, <3>1 DEF TypeInv, ProcTyped, Fits, BooksInv, CodesInv
    <3> QED BY <1>6, <3>1, <3>2
  <2> QED BY <2>1, <2>4, <2>5 DEF CodesInv
<1>13. BalanceInv'
  <2>1. balance \in [Users -> Int]
    BY DEF TypeInv, StoreTyped
  <2>2. \A v \in Users : balance'[v] = IF v = u THEN balance[u] - c ELSE balance[v]
    BY <1>4, <2>1
  <2>3. balance[u] >= c
    BY DEF Covers
  <2>4. \A v \in Users : v = u => Charged(v)' = Charged(v) \cup {row}
    BY <1>4, <1>5 DEF Charged
  <2>5. \A v \in Users : v # u => Charged(v)' = Charged(v)
    BY <1>4, <1>5 DEF Charged
  <2>6. Total(Charged(u) \cup {row}) = Total(Charged(u)) + c
    <3> DEFINE S == Charged(u)
    <3>1. IsFiniteSet(S) /\ (\A r \in S : r.amount \in Nat) /\ row \notin S
      BY <1>9, ChargedFinite DEF BooksInv, Charged
    <3> HIDE DEF S
    <3>2. Total(S \cup {row}) = Total(S) + row.amount
      BY <1>3, <1>5, <3>1, TotalMore
    <3> QED BY <1>5, <3>2 DEF S
  <2>7. ASSUME NEW v \in Users
        PROVE  /\ balance'[v] \in Nat /\ balance'[v] + Total(Charged(v)') <= Grant
               /\ "retry" \notin offer => balance'[v] = Grant - Total(Charged(v)')
    <3> DEFINE n == Total(Charged(v))
    <3>1. /\ balance[v] \in Nat /\ balance[v] + n <= Grant /\ n \in Nat /\ Grant \in Nat
          /\ "retry" \notin offer => balance[v] = Grant - n
      BY ChargedFinite, GameStoreAssumption DEF BooksInv, BalanceInv
    <3>2. CASE v = u
      <4>1. Total(Charged(v)') = n + c
        <5>1. Charged(v)' = Charged(v) \cup {row} /\ Charged(v) = Charged(u)
          BY <2>4, <3>2
        <5> QED BY <2>6, <5>1
      <4>2. balance'[v] = balance[v] - c
        BY <2>2, <3>2
      <4> HIDE DEF n
      <4> QED BY <1>3, <2>3, <3>1, <3>2, <4>1, <4>2
    <3>3. CASE v # u
      <4>1. Total(Charged(v)') = n /\ balance'[v] = balance[v]
        BY <2>2, <2>5, <3>3
      <4> QED BY <3>1, <4>1
    <3> QED BY <3>2, <3>3
  <2> QED BY <1>1, <2>7 DEF BalanceInv
<1>14. IdsInv'
  <2> SUFFICES ASSUME "retry" \notin offer PROVE IdsInv'
    BY <1>1 DEF IdsInv
  <2>1. \A t \in ledger' : t.id[2] \in 1..calls'
    BY <1>1, <1>2, <1>4, <1>5 DEF BooksInv, IdsInv
  <2>2. ASSUME NEW q \in Procs, proc'[q].op = "purchase"
        PROVE  /\ proc'[q].arg[2] \in 1..calls'
               /\ \A t \in ledger' : t.id # proc'[q].arg
               /\ \A x \in Procs \ {q} : proc'[x].op = "purchase" => proc'[x].arg # proc'[q].arg
    <3>1. q # p /\ proc'[q] = proc[q]
      BY <1>1, <2>2
    <3>2. /\ proc[q].arg[2] \in 1..calls /\ proc[q].arg # id
          /\ \A t \in ledger : t.id # proc[q].arg
          /\ \A x \in Procs \ {q} : proc[x].op = "purchase" => proc[x].arg # proc[q].arg
      BY <1>2, <2>2, <3>1 DEF BooksInv, IdsInv
    <3> QED BY <1>1, <1>4, <1>5, <3>1, <3>2
  <2> QED BY <2>1, <2>2 DEF IdsInv
<1> QED BY <1>10, <1>11, <1>12, <1>13, <1>14 DEF BooksInv
(* A purchase that has locked a code.                                      *)
Claiming(r, c) == [r EXCEPT !.step = "balance", !.held = c]

(* A purchase breaks nothing between its claim and its commit, nor with    *)
(* it.                                                                     *)
LEMMA BooksPurchase ==
  ASSUME TypeInv, TypeInv', BooksInv, NEW p \in Procs,
         ClaimLicense(p) \/ GetUserForUpdate(p) \/ CommitPurchase(p)
  PROVE  BooksInv'
<1>0. offer' = offer /\ calls' = calls /\ calls \in Nat
  <2>1. Going
    BY DEF ClaimLicense, GetUserForUpdate, CommitPurchase
  <2> QED BY <2>1, ReadThroughAssumption DEF TypeInv, OfferTyped, Going
<1>1. ASSUME UNCHANGED store, NEW r, Become(p, r), r.op = proc[p].op, r.arg = proc[p].arg,
             r.held = proc[p].held \/ codes[r.held] = None
      PROVE  BooksInv'
  <2>1. \A q \in Procs : proc'[q] = IF q = p THEN r ELSE proc[q]
    BY <1>1 DEF Become, TypeInv, ProcTyped
  <2>2. \A q \in Procs : proc'[q].op = "purchase" => proc[q].op = "purchase" /\ proc'[q].arg = proc[q].arg
    BY <1>1, <2>1
  <2>3. \A q \in Procs : proc'[q].held # None => codes[proc'[q].held] = None
    BY <1>1, <2>1 DEF BooksInv, CodesInv
  <2> QED BY <1>0, <1>1, <2>2, <2>3, BooksStay DEF store
<1>2. ASSUME UNCHANGED store, End(p)
      PROVE  BooksInv'
  <2>1. \A q \in Procs : proc'[q] = IF q = p THEN Idle ELSE proc[q]
    BY <1>2 DEF Become, End, TypeInv, ProcTyped
  <2>2. \A q \in Procs : proc'[q].op = "purchase" => proc[q].op = "purchase" /\ proc'[q].arg = proc[q].arg
    BY <2>1, PlainFits
  <2>3. \A q \in Procs : proc'[q].held # None => codes[proc'[q].held] = None
    BY <2>1, PlainFits DEF BooksInv, CodesInv
  <2> QED BY <1>0, <1>2, <2>2, <2>3, BooksStay DEF store
<1>3. Fails(p) => BooksInv'
  BY <1>2 DEF Fails
<1>4. PICK V : proc[p] \in Rec(V) /\ proc \in [Procs -> Rec(V)]
  BY ProcIs DEF TypeInv
<1>5. CASE ClaimLicense(p)
  <2>1. ASSUME NEW c \in Available, Become(p, Claiming(proc[p], c)), UNCHANGED <<shared, store>>
        PROVE  BooksInv'
    <3>1. /\ Claiming(proc[p], c).op = proc[p].op /\ Claiming(proc[p], c).arg = proc[p].arg
          /\ Claiming(proc[p], c).held = c
      BY <1>4 DEF Rec, Claiming
    <3>2. codes[c] = None
      BY DEF Available
    <3> QED BY <1>1, <2>1, <3>1, <3>2
  <2>2. \/ \E c \in Available : Become(p, Claiming(proc[p], c)) /\ UNCHANGED <<shared, store>>
        \/ End(p) /\ UNCHANGED <<shared, store>>
        \/ Fails(p)
    BY <1>5, Zenon DEF ClaimLicense, Claiming
  <2>3. ASSUME End(p), UNCHANGED <<shared, store>> PROVE BooksInv'
    BY <1>2, <2>3
  <2> QED BY <1>3, <2>1, <2>2, <2>3
<1>6. CASE GetUserForUpdate(p)
  <2>1. CASE Step(p, "commit")
    <3> DEFINE r == [proc[p] EXCEPT !.step = "commit"]
    <3>1. r.op = proc[p].op /\ r.arg = proc[p].arg /\ r.held = proc[p].held
      BY <1>4 DEF Rec
    <3>2. Become(p, r)
      BY <1>4, <2>1 DEF Step, Become
    <3> HIDE DEF r
    <3> QED BY <1>1, <1>6, <3>1, <3>2 DEF GetUserForUpdate
  <2> QED BY <1>2, <1>6, <2>1 DEF GetUserForUpdate
<1>7. CASE CommitPurchase(p)
  <2>1. CASE Book(p) /\ (IsPaidGame(proc[p].val) => Covers(proc[p].user, proc[p].val))
    <3>1. CASE IsPaidGame(proc[p].val) /\ \A t \in ledger : t.id # proc[p].arg
      BY <1>7, <2>1, <3>1, BooksRow
    <3>2. CASE ~IsPaidGame(proc[p].val)
      <4>1. UNCHANGED <<codes, ledger>> /\ UNCHANGED <<balance>>
        BY <2>1, <3>2 DEF Book
      <4> QED BY <1>7, <2>1, <3>2, <4>1, BooksNoRow
    <3>3. CASE IsPaidGame(proc[p].val) /\ \E t \in ledger : t.id = proc[p].arg
      <4>1. UNCHANGED <<codes, ledger>> /\ UNCHANGED orders
        BY <2>1, <3>3 DEF Book
      <4> QED BY <1>7, <2>1, <3>3, <4>1, BooksNoRow
    <3> QED BY <3>1, <3>2, <3>3
  <2> QED BY <1>2, <1>3, <1>7, <2>1 DEF CommitPurchase
<1> QED BY <1>5, <1>6, <1>7

(* A restart offers the codes only of a game of which none has been sold.  *)
LEMMA BooksRestart ==
  ASSUME TypeInv, BooksInv, Restart
  PROVE  BooksInv'
<1>1. /\ \A p \in Procs : proc'[p] = Idle
      /\ ledger' = ledger /\ orders' = orders /\ balance' = balance
      /\ offer' = offer /\ calls' = calls
      /\ \/ codes' = [c \in Codes |-> None] /\ \A c \in Codes : codes[c] = Gone
         \/ codes' = codes
  BY DEF Restart, Crash, Going, SeedLicenses
<1>2. \A p \in Procs : proc'[p].op # "purchase" /\ proc'[p].held = None
  BY <1>1, PlainFits
<1>3. BalanceInv' /\ IdsInv'
  BY <1>1, <1>2 DEF BooksInv, BalanceInv, Charged, IdsInv
<1>4. CASE codes' = codes
  <2>1. LedgerInv' /\ OrdersInv' /\ CodesInv'
    BY <1>1, <1>2, <1>4 DEF BooksInv, LedgerInv, OrdersInv, CodesInv
  <2> QED BY <1>3, <2>1 DEF BooksInv
<1>5. CASE codes' = [c \in Codes |-> None] /\ \A c \in Codes : codes[c] = Gone
  <2>1. \A t \in ledger : t.id # Gone
    BY RowsAssumption DEF TypeInv, StoreTyped
  <2>2. ledger = {}
    BY <1>5, <2>1 DEF BooksInv, LedgerInv
  <2>3. \A o \in orders : ~IsPaidGame(o.price)
    BY <2>2 DEF BooksInv, OrdersInv
  <2>4. LedgerInv' /\ OrdersInv'
    BY <1>1, <2>2, <2>3 DEF BooksInv, LedgerInv, OrdersInv
  <2>5. CodesInv'
    BY <1>2, <1>5 DEF CodesInv, Live
  <2> QED BY <1>3, <2>4, <2>5 DEF BooksInv
<1> QED BY <1>1, <1>4, <1>5

(* The books balance when the process starts.                              *)
LEMMA BooksInit == Init => BooksInv
<1> SUFFICES ASSUME Init PROVE BooksInv
  OBVIOUS
<1>1. ledger = {} /\ orders = {} /\ \A p \in Procs : proc[p] = Idle
  BY DEF Init, StoreInit
<1>2. LedgerInv /\ OrdersInv
  BY <1>1, FS_EmptySet DEF LedgerInv, OrdersInv
<1>3. CodesInv
  BY <1>1, PlainFits DEF CodesInv, Init, StoreInit, Live
<1>4. BalanceInv
  <2>1. \A u : Charged(u) = {}
    BY <1>1 DEF Charged
  <2>2. \A u \in Users : balance[u] = Grant
    BY DEF Init, StoreInit
  <2>3. Total({}) = 0
    BY TotalOfNone
  <2>4. Grant \in Nat
    BY GameStoreAssumption
  <2> QED BY <2>1, <2>2, <2>3, <2>4 DEF BalanceInv
<1>5. IdsInv
  BY <1>1, PlainFits DEF IdsInv
<1> QED BY <1>2, <1>3, <1>4, <1>5 DEF BooksInv

(* Every step of Next keeps the books.                                     *)
LEMMA BooksNext == TypeInv /\ TypeInv' /\ BooksInv /\ [Next]_vars => BooksInv'
<1> SUFFICES ASSUME TypeInv, TypeInv', BooksInv, [Next]_vars PROVE BooksInv'
  OBVIOUS
<1>0. /\ calls \in Nat /\ \A q \in Procs : Fits(proc[q]) /\ Fits(proc'[q])
      /\ \A q \in Procs : proc'[q].held # None => proc'[q].op = "purchase"
  BY ReadThroughAssumption DEF TypeInv, OfferTyped, ProcTyped, Fits
<1>1. ASSUME NEW p \in Procs, NEW O, Moves(p, O), "purchase" \notin O, UNCHANGED sales,
             offer' = offer, calls' \in Nat, calls <= calls'
      PROVE  BooksInv'
  <2>1. \A q \in Procs : proc'[q] = proc[q] \/ proc'[q].op \in O
    BY <1>1, Moved DEF TypeInv
  <2>2. \A q \in Procs : proc'[q].op = "purchase" => proc'[q] = proc[q]
    BY <1>1, <2>1
  <2>3. \A q \in Procs : proc'[q].held # None => codes[proc'[q].held] = None
    BY <1>0, <2>2 DEF BooksInv, CodesInv
  <2> QED BY <1>1, <2>2, <2>3, BooksStay
<1>2. ASSUME NEW op, NEW p, Request(p, op) \/ Going
      PROVE  offer' = offer /\ calls' \in Nat /\ calls <= calls'
  BY <1>0, <1>2 DEF Request, Going
<1>3. ASSUME NEW p \in Procs, StoreStep(p) \/ CommunityStep(p)
      PROVE  offer' = offer /\ calls' \in Nat /\ calls <= calls'
  <2>1. CASE StoreStep(p)
    <3>1. Going \/ \E op \in offer : Request(p, op)
      BY <2>1, StoreAsks
    <3> QED BY <1>2, <3>1
  <2>2. CASE CommunityStep(p)
    <3>1. Going \/ \E op \in offer : Request(p, op)
      BY <2>2, CommunityAsks
    <3> QED BY <1>2, <3>1
  <2> QED BY <1>3, <2>1, <2>2
<1>4. ASSUME NEW p \in Procs, StoreStep(p)
      PROVE  BooksInv'
  <2>1. CASE Moves(p, StoreOps) /\ UNCHANGED sales
    <3>1. "purchase" \notin StoreOps
      BY DEF StoreOps
    <3> QED BY <1>1, <1>3, <1>4, <2>1, <3>1
  <2>2. StoreOps \ RemarkOps \subseteq StoreOps /\ RemarkOps \subseteq StoreOps
    BY DEF StoreOps, RemarkOps
  <2> QED BY <1>4, <2>1, <2>2, StoreMoves, BooksBegin, BooksPurchase
<1>5. ASSUME NEW p \in Procs, CommunityStep(p), UNCHANGED store
      PROVE  BooksInv'
  <2> DEFINE O == SocialOps
  <2>1. /\ "purchase" \notin O /\ "like" \in O /\ "follow" \in O /\ "none" \in O /\ "write" \in O
        /\ TalkOps \ {"uncomment"} \subseteq O /\ "uncomment" \in O
    BY DEF SocialOps, TalkOps
  <2> HIDE DEF O
  <2>2. Moves(p, O)
    BY <1>5, <2>1, CommunityMoves, LikeMoves, FollowMoves DEF TypeInv
  <2> QED BY <1>1, <1>3, <1>5, <2>1, <2>2 DEF store
<1>6. ASSUME NEW p \in Procs, Data(p), UNCHANGED store
      PROVE  BooksInv'
  <2>1. \A q \in Procs : \/ proc'[q] = Idle
                         \/ proc'[q].op = proc[q].op /\ proc'[q].arg = proc[q].arg /\ proc'[q].held = proc[q].held
    BY <1>6, DataMoves DEF TypeInv
  <2>2. \A q \in Procs : proc'[q].op = "purchase" => proc[q].op = "purchase" /\ proc'[q].arg = proc[q].arg
    BY <2>1, PlainFits
  <2>3. \A q \in Procs : proc'[q].held # None => codes[proc'[q].held] = None
    BY <2>1, PlainFits DEF BooksInv, CodesInv
  <2>4. Going
    BY <1>6 DEF Data, Load, Fill, Del
  <2> QED BY <1>0, <1>6, <2>2, <2>3, <2>4, BooksStay DEF Going, store
<1>7. ASSUME UNCHANGED <<proc, offer, calls, store>>
      PROVE  BooksInv'
  <2>1. \A q \in Procs : proc'[q].held # None => codes[proc'[q].held] = None
    BY <1>7 DEF BooksInv, CodesInv
  <2> QED BY <1>0, <1>7, <2>1, BooksStay DEF store
<1>8. ASSUME NEW k \in Keys, Expire(k), UNCHANGED store
      PROVE  BooksInv'
  BY <1>7, <1>8 DEF Expire, Going
<1>9. CASE Worker /\ UNCHANGED store
  <2>1. UNCHANGED <<proc, offer, calls>>
    BY <1>9, WorkerTyped DEF TypeInv
  <2> QED BY <1>7, <1>9, <2>1
<1>10. CASE Restart
  BY <1>10, BooksRestart
<1>11. CASE UNCHANGED vars
  BY <1>7, <1>11 DEF vars, served
<1> QED BY <1>4, <1>5, <1>6, <1>8, <1>9, <1>10, <1>11 DEF Next

(* Books that balance give the property TLC checks.                        *)
LEMMA BooksHold == TypeInv /\ BooksInv => SalesBooked
<1> SUFFICES ASSUME TypeInv, BooksInv PROVE SalesBooked
  OBVIOUS
<1>1. ASSUME NEW o \in orders, IsPaidGame(o.price)
      PROVE  /\ o.code # None /\ codes[o.code] = o.id
             /\ \E t \in ledger : t.id = o.id /\ t.user = o.user /\ t.amount = ChargeYuan(o.price)
  <2>1. o.code \in Codes /\ codes[o.code] = o.id /\ RowOf(o.id, o.user, o.price) \in ledger
    BY <1>1 DEF BooksInv, OrdersInv
  <2> QED BY <2>1, RowsAssumption DEF RowOf
<1>2. ASSUME NEW u \in Users
      PROVE  /\ balance[u] \in 0..(Grant - Total(Charged(u)))
             /\ "retry" \notin offer => balance[u] = Grant - Total(Charged(u))
  <2> DEFINE n == Total(Charged(u))
  <2>1. /\ n \in Nat /\ balance[u] \in Nat /\ balance[u] + n <= Grant /\ Grant \in Nat
        /\ "retry" \notin offer => balance[u] = Grant - n
    BY ChargedFinite, GameStoreAssumption DEF BooksInv, BalanceInv
  <2> HIDE DEF n
  <2>2. balance[u] \in 0..(Grant - n)
    BY <2>1
  <2> QED BY <2>1, <2>2 DEF n
<1>3. ASSUME NEW c \in Codes, Live(codes[c])
      PROVE  \E o \in orders : o.id = codes[c]
  <2>1. PICK t \in ledger : t.id = codes[c]
    BY <1>3 DEF BooksInv, CodesInv
  <2>2. PICK o \in orders : o.id = t.id
    BY <2>1 DEF BooksInv, LedgerInv
  <2> QED BY <2>1, <2>2
<1> QED BY <1>1, <1>2, <1>3 DEF SalesBooked, BooksInv, LedgerInv, CodesInv

(* The books balance in every reachable state.                             *)
LEMMA BooksAlways == Spec => []BooksInv
<1>1. Init => BooksInv
  BY BooksInit
<1>2. TypeInv /\ TypeInv' /\ BooksInv /\ [Next]_vars => BooksInv'
  BY BooksNext
<1> QED BY <1>1, <1>2, TypeAlways, PTL DEF Spec

(* GameStore's SalesBooked: whatever purchases race for the license codes  *)
(* and for one balance, fail, are retried or are ended by a restart, every *)
(* paid order has a code sold to it alone and its row in the ledger, every *)
(* row and every sold code has its order, and the balance is what the      *)
(* ledger leaves, or less after a retry, which may charge a user again.    *)
THEOREM SalesBookedHolds == Spec => []SalesBooked
BY TypeAlways, BooksAlways, BooksHold, PTL

-----------------------------------------------------------------------------
(* CountsAgree.  Nothing counts for a comment before its insertion; the    *)
(* sets that are counted stay finite.                                      *)

Likers(c) == {u \in Users : <<u, c>> \in likes}
Fans(v) == {u \in Users : <<u, v>> \in follows}
InCall(op, key, arg) == {p \in Procs : proc[p].op = op /\ proc[p].key = key /\ proc[p].arg = arg}
Ups(c) == InCall("like", c, FALSE)
Downs(c) == InCall("like", c, TRUE)
Coming(v) == InCall("follow", v, None)

Untouched(c) ==
  /\ Likers(c) = {} /\ Ups(c) = {} /\ Downs(c) = {}
  /\ likeCount[c] = 0 /\ likeBuffer[c] = 0 /\ sent[<<c, 1>>] = 0 /\ sent[<<c, -1>>] = 0
  /\ flushing # None => flushing.sums[c] = 0
Counted(c) == likeCount[c] + Unflushed(c) + Sent(c)
LikesAgree(c) ==
  Cardinality(Likers(c)) =
    Counted(c) + Cardinality(Ups(c)) - Cardinality(Downs(c))
LikesAt(c) ==
  /\ IsFiniteSet(Likers(c))
  /\ IsFiniteSet(Ups(c)) /\ IsFiniteSet(Downs(c))
  /\ Fresh(comments[c]) => Untouched(c)
  /\ c \notin miscounted /\ Live(comments[c]) => LikesAgree(c)
LikesInv == \A c \in Comments : LikesAt(c)
FollowsInv ==
  /\ \A v \in Users :
       /\ IsFiniteSet(Fans(v)) /\ IsFiniteSet(Coming(v))
       /\ v \notin miscounted => Cardinality(Fans(v)) = fans[v] + Cardinality(Coming(v))
  /\ \A p \in Procs : proc[p].op = "follow" => proc[p].arg = None
CountsInv == LikesInv /\ FollowsInv

(* One element more, and one less.                                         *)
LEMMA OneMore ==
  ASSUME NEW S, IsFiniteSet(S), NEW x, x \notin S
  PROVE  IsFiniteSet(S \cup {x}) /\ Cardinality(S \cup {x}) = Cardinality(S) + 1
BY FS_AddElement

(* A finite set without one of its elements has one element less.          *)
LEMMA OneLess ==
  ASSUME NEW S, IsFiniteSet(S), NEW x \in S
  PROVE  IsFiniteSet(S \ {x}) /\ Cardinality(S \ {x}) = Cardinality(S) - 1 /\ Cardinality(S) \in Nat
BY FS_RemoveElement, FS_CardinalityType

(* The calls of an operation, when a step leaves them alone.               *)
LEMMA CallsSame ==
  ASSUME NEW op, \A q \in Procs : proc[q].op = op \/ proc'[q].op = op =>
           proc'[q].op = proc[q].op /\ proc'[q].key = proc[q].key /\ proc'[q].arg = proc[q].arg
  PROVE  \A k, a : InCall(op, k, a)' = InCall(op, k, a)
<1>1. ASSUME NEW k, NEW a, NEW q
      PROVE  q \in InCall(op, k, a)' <=> q \in InCall(op, k, a)
  BY DEF InCall
<1> QED BY <1>1

(* A comment of which nothing counts has its counts agree.                 *)
LEMMA NoneAgrees ==
  ASSUME NEW c, Untouched(c)
  PROVE  LikesAgree(c)
<1>1. Ups(c) = {} /\ Downs(c) = {} /\ Likers(c) = {}
  BY DEF Untouched
<1>2. Counted(c) = 0
  BY DEF Untouched, Counted, Unflushed, Sent
<1> DEFINE n == Cardinality(Likers(c))
           m == Counted(c)
           i == Cardinality(Ups(c))
           j == Cardinality(Downs(c))
<1>4. m = 0 /\ n = 0 /\ i = 0 /\ j = 0
  BY <1>1, <1>2, FS_EmptySet
<1> HIDE DEF m, n, i, j
<1>5. n = m + i - j
  BY <1>4
<1> QED BY <1>5 DEF LikesAgree, m, n, i, j

(* What it takes for the counts of a comment to agree still: it may be     *)
(* inserted, deleted or left.                                              *)
LEMMA LikesSame ==
  ASSUME TypeInv, NEW c \in Comments, LikesAt(c), Likers(c)' = Likers(c),
         Ups(c)' = Ups(c), Downs(c)' = Downs(c),
         Counted(c)' = Counted(c), Untouched(c) => Untouched(c)', c \in miscounted => c \in miscounted',
         \/ comments'[c] = comments[c]
         \/ ~Fresh(comments'[c]) /\ (Live(comments'[c]) => Fresh(comments[c]))
  PROVE  LikesAt(c)'
<1>1. LikesAgree(c)' <=> LikesAgree(c)
  BY DEF LikesAgree
<1>2. Fresh(comments[c])' => Fresh(comments[c])
  BY DEF Fresh
<1>3. Live(comments[c])' => Live(comments[c]) \/ Fresh(comments[c])
  OBVIOUS
<1>4. Untouched(c) => LikesAgree(c)
  BY NoneAgrees
<1> QED BY <1>1, <1>2, <1>3, <1>4 DEF LikesAt

(* Steps that count no like.                                               *)
LEMMA LikesStay ==
  ASSUME TypeInv, LikesInv, UNCHANGED <<likes, likeCount, worker>>, miscounted \in SUBSET miscounted',
         \A q \in Procs : proc[q].op = "like" \/ proc'[q].op = "like" =>
           proc'[q].op = proc[q].op /\ proc'[q].key = proc[q].key /\ proc'[q].arg = proc[q].arg,
         \A c \in Comments : \/ comments'[c] = comments[c]
                             \/ ~Fresh(comments'[c]) /\ (Live(comments'[c]) => Fresh(comments[c]))
  PROVE  LikesInv'
<1>0. \A c : Ups(c)' = Ups(c) /\ Downs(c)' = Downs(c)
  BY CallsSame DEF Ups, Downs
<1>1. likes' = likes /\ likeCount' = likeCount /\ sent' = sent /\ likeBuffer' = likeBuffer /\ flushing' = flushing
  BY DEF worker
<1>2. \A c \in Comments : Likers(c)' = Likers(c) /\ Counted(c)' = Counted(c)
  BY <1>1 DEF Likers, Counted, Unflushed, Sent
<1>3. \A c \in Comments : Untouched(c) => Untouched(c)'
  BY <1>0, <1>1, <1>2 DEF Untouched
<1>4. ASSUME NEW c \in Comments
      PROVE  LikesAt(c)'
  BY <1>0, <1>2, <1>3, LikesSame DEF LikesInv
<1> QED BY <1>4 DEF LikesInv

(* Steps that count no follow.                                             *)
LEMMA FollowsStay ==
  ASSUME FollowsInv, UNCHANGED circle, miscounted \in SUBSET miscounted',
         \A q \in Procs : proc[q].op = "follow" \/ proc'[q].op = "follow" =>
           proc'[q].op = proc[q].op /\ proc'[q].key = proc[q].key /\ proc'[q].arg = proc[q].arg
  PROVE  FollowsInv'
<1>1. \A v : Coming(v)' = Coming(v)
  BY CallsSame DEF Coming
<1>2. \A v \in Users : Fans(v)' = Fans(v) /\ fans'[v] = fans[v]
  BY DEF Fans, circle
<1>3. ASSUME NEW q \in Procs, proc'[q].op = "follow"
      PROVE  proc'[q].arg = None
  BY <1>3 DEF FollowsInv
<1>4. ASSUME NEW v \in Users
      PROVE  /\ IsFiniteSet(Fans(v))' /\ IsFiniteSet(Coming(v))'
             /\ v \notin miscounted' => Cardinality(Fans(v)') = fans'[v] + Cardinality(Coming(v)')
  BY <1>1, <1>2 DEF FollowsInv
<1> QED BY <1>3, <1>4 DEF FollowsInv

(* The calls of likes, and below of follows, when p takes one up or ends.  *)
LEMMA OneLike ==
  ASSUME ProcTyped, NEW p \in Procs, NEW r, proc' = [proc EXCEPT ![p] = r], NEW c
  PROVE  /\ r.op = "like" /\ r.key = c /\ r.arg = FALSE => Ups(c)' = Ups(c) \cup {p}
         /\ ~(r.op = "like" /\ r.key = c /\ r.arg = FALSE) => Ups(c)' = Ups(c) \ {p}
         /\ r.op = "like" /\ r.key = c /\ r.arg = TRUE => Downs(c)' = Downs(c) \cup {p}
         /\ ~(r.op = "like" /\ r.key = c /\ r.arg = TRUE) => Downs(c)' = Downs(c) \ {p}
<1>1. \A q \in Procs : proc'[q] = IF q = p THEN r ELSE proc[q]
  BY DEF ProcTyped
<1> DEFINE Up == r.op = "like" /\ r.key = c /\ r.arg = FALSE
           Down == r.op = "like" /\ r.key = c /\ r.arg = TRUE
           S == Ups(c)  S1 == Ups(c)'
           T == Downs(c)  T1 == Downs(c)'
<1>2. ASSUME NEW q
      PROVE  /\ q \in S1 <=> q \in Procs /\ IF q = p THEN Up ELSE q \in S
             /\ q \in T1 <=> q \in Procs /\ IF q = p THEN Down ELSE q \in T
  BY <1>1 DEF InCall, Ups, Downs
<1>3. (\A q \in S : q \in Procs) /\ \A q \in T : q \in Procs
  BY DEF InCall, Ups, Downs
<1> HIDE DEF S, S1, T, T1, Up, Down
<1>4. (Up => S1 = S \cup {p}) /\ (~Up => S1 = S \ {p})
  BY <1>2, <1>3
<1>5. (Down => T1 = T \cup {p}) /\ (~Down => T1 = T \ {p})
  BY <1>2, <1>3
<1> QED BY <1>4, <1>5 DEF S, S1, T, T1, Up, Down

(* A topic that goes takes the comments that are there, or none.           *)
LEMMA CascadeComments ==
  ASSUME TypeInv, NEW t, DeleteTopicCascade(t), NEW c \in Comments
  PROVE  comments'[c] = comments[c] \/ (~Fresh(comments'[c]) /\ ~Live(comments'[c]) /\ Live(comments[c]) /\ Houses(t))
<1>1. \/ comments' = comments
      \/ comments' = [d \in Comments |-> IF Live(comments[d]) THEN Gone ELSE comments[d]] /\ Houses(t)
  BY DEF DeleteTopicCascade
<1>2. ~Fresh(Gone) /\ ~Live(Gone)
  BY ReadThroughAssumption DEF Fresh, Live
<1> QED BY <1>1, <1>2

(* Of the steps of the community, all but five count nothing.              *)
LEMMA CountsNothing ==
  ASSUME TypeInv, NEW p \in Procs, CommunityStep(p), ~LikeComment(p), ~IncrStats(p),
         ~PublishCommentAction(p), ~CreateFollow(p), ~IncrementFollowingCount(p)
  PROVE  /\ proc[p].op \notin {"like", "follow"}
         /\ UNCHANGED <<likes, likeCount, worker, circle, miscounted>>
         /\ \A c \in Comments : \/ comments'[c] = comments[c]
                                \/ ~Fresh(comments'[c]) /\ (Live(comments'[c]) => Fresh(comments[c]))
<1>1. proc[p].op \notin {"like", "follow"}
  BY DEF CommunityStep, GetArticleComment, GetMyCYList, ListActiveTopics, ListFollowedTopics, GetSocialStats,
         GetUserBase, Ask, CreateComment, DeleteComment, DeleteCommentByID, CreateTopic, EnsureGameTopic,
         InsertTopic, DeleteTemporaryTopic, DropTopic, FollowTopic, CreateTopicFollow, UnfollowTopic, UpdateUser, SaveUser,
         Login, Request, IsIdle, Idle, At
<1>2. UNCHANGED <<likes, likeCount, worker, circle, miscounted>>
  BY DEF CommunityStep, GetArticleComment, GetMyCYList, ListActiveTopics, ListFollowedTopics, GetSocialStats,
         GetUserBase, Ask, CreateComment, DeleteComment, DeleteCommentByID, CreateTopic, EnsureGameTopic,
         InsertTopic, DeleteTemporaryTopic, DropTopic, FollowTopic, CreateTopicFollow, UnfollowTopic, UpdateUser, SaveUser,
         Login, SetTopicFollow, Refused, FindTopic, community, talk
<1>3. \A c \in Comments : \/ comments'[c] = comments[c]
                          \/ ~Fresh(comments'[c]) /\ (Live(comments'[c]) => Fresh(comments[c]))
  <2>1. CASE CreateComment(p)
    <3>1. CASE comments' = comments
      BY <3>1
    <3>2. CASE \E c \in Comments, u \in Users, cy \in BOOLEAN :
                 Fresh(comments[c]) /\ comments' = [comments EXCEPT ![c] = [user |-> u, cy |-> cy]]
      <4>1. PICK c \in Comments, u \in Users, cy \in BOOLEAN :
              Fresh(comments[c]) /\ comments' = [comments EXCEPT ![c] = [user |-> u, cy |-> cy]]
        BY <3>2
      <4>2. comments'[c] = [user |-> u, cy |-> cy] /\ \A d \in Comments \ {c} : comments'[d] = comments[d]
        BY <4>1 DEF TypeInv, CommunityTypeOK
      <4>3. Fresh(comments[c]) /\ (comments'[c] = comments[c] \/ ~Fresh(comments'[c]))
        BY <4>1 DEF Fresh
      <4> QED BY <4>2, <4>3
    <3> QED BY <2>1, <3>1, <3>2 DEF CreateComment, Refused, community, talk
  <2>2. CASE DeleteCommentByID(p)
    <3>1. CASE comments' = [comments EXCEPT ![proc[p].key] = Gone]
      BY <3>1, ReadThroughAssumption DEF Fresh, Live, TypeInv, CommunityTypeOK
    <3> QED BY <2>2, <3>1 DEF DeleteCommentByID, Refused, community, talk
  <2>3. CASE CreateTopic(p) \/ EnsureGameTopic(p) \/ DropTopic(p)
    <3>1. comments' = comments \/ \E t : DeleteTopicCascade(t)
      BY <2>3 DEF CreateTopic, EnsureGameTopic, FindTopic, DropTopic, Refused, community, talk
    <3> QED BY <3>1, CascadeComments
  <2>4. CASE ~(CreateComment(p) \/ DeleteCommentByID(p) \/ CreateTopic(p) \/ EnsureGameTopic(p) \/ DropTopic(p))
    <3>1. UNCHANGED talk
      BY <2>4 DEF CommunityStep, GetArticleComment, GetMyCYList, ListActiveTopics, ListFollowedTopics,
         GetSocialStats, GetUserBase, Ask, DeleteComment, InsertTopic, DeleteTemporaryTopic,
         FollowTopic, CreateTopicFollow, UnfollowTopic, UpdateUser, SaveUser, Login, SetTopicFollow,
         Refused, community
    <3> QED BY <3>1 DEF talk
  <2> QED BY <2>1, <2>2, <2>3, <2>4
<1> QED BY <1>1, <1>2, <1>3

(* What is counted of a comment is a number.                               *)
LEMMA CountedType ==
  ASSUME TypeInv, NEW c \in Comments
  PROVE  Counted(c) \in Int /\ likeCount[c] \in Int /\ Unflushed(c) \in Int /\ Sent(c) \in Int
<1>1. likeCount[c] \in Int
  BY DEF TypeInv, CommunityTypeOK
<1>2. Unflushed(c) \in Int
  <2>1. likeBuffer[c] \in Int /\ (flushing # None => flushing.sums[c] \in Int)
    BY DEF TypeInv, CommunityTypeOK
  <2> QED BY <2>1 DEF Unflushed
<1>3. Sent(c) \in Int
  <2>1. sent[<<c, 1>>] \in Nat /\ sent[<<c, -1>>] \in Nat
    BY DEF TypeInv, CommunityTypeOK
  <2> QED BY <2>1 DEF Sent
<1> QED BY <1>1, <1>2, <1>3 DEF Counted

(* The counts of a comment agree after a step that adds as many likes as   *)
(* it adds to what is counted and to the calls.                            *)
LEMMA LikesMove ==
  ASSUME TypeInv, NEW c \in Comments, LikesAt(c), LikesAgree(c), NEW dn \in Int, NEW dm \in Int, NEW di \in Int,
         NEW dj \in Int, dn = dm + di - dj, Cardinality(Likers(c)') = Cardinality(Likers(c)) + dn,
         Counted(c)' = Counted(c) + dm,
         Cardinality(Ups(c)') = Cardinality(Ups(c)) + di,
         Cardinality(Downs(c)') = Cardinality(Downs(c)) + dj
  PROVE  LikesAgree(c)'
<1> DEFINE n == Cardinality(Likers(c))
           m == Counted(c)
           i == Cardinality(Ups(c))
           j == Cardinality(Downs(c))
<1>1. n \in Nat /\ i \in Nat /\ j \in Nat
  BY FS_CardinalityType DEF LikesAt
<1>2. m \in Int
  BY CountedType
<1>3. n = m + i - j
  BY DEF LikesAgree
<1>4. LikesAgree(c)' <=> n + dn = (m + dm) + (i + di) - (j + dj)
  BY DEF LikesAgree
<1> HIDE DEF n, m, i, j
<1> QED BY <1>1, <1>2, <1>3, <1>4

(* A like or its cancellation: the row, and the call that is to count it.  *)
LEMMA LikeRows ==
  ASSUME TypeInv, TypeInv', LikesInv, NEW p \in Procs, LikeComment(p)
  PROVE  LikesInv'
<1>1. PICK u \in Users, c \in Comments, cancel \in BOOLEAN :
        /\ ~Fresh(comments[c])
        /\ IF cancel <=> <<u, c>> \in likes
           THEN /\ likes' = IF cancel THEN likes \ {<<u, c>>} ELSE likes \cup {<<u, c>>}
                /\ \/ /\ Become(p, [Call("like", u, c, cancel) EXCEPT !.step = "count"])
                      /\ UNCHANGED miscounted
                   \/ DbFaults /\ UNCHANGED proc /\ Miscount({c})
           ELSE UNCHANGED <<proc, likes, miscounted>>
  BY DEF LikeComment
<1>2. /\ comments' = comments /\ likeCount' = likeCount /\ sent' = sent /\ likeBuffer' = likeBuffer
      /\ flushing' = flushing
  BY DEF LikeComment, worker
<1>3. proc[p].op = "none"
  BY DEF LikeComment, Request, IsIdle, Idle
<1>4. CASE ~(cancel <=> <<u, c>> \in likes)
  BY <1>1, <1>2, <1>4, LikesStay DEF worker
<1>5. CASE cancel <=> <<u, c>> \in likes
  <2>1. \A d \in Comments : Counted(d)' = Counted(d)
    BY <1>2 DEF Counted, Unflushed, Sent
  <2>2. Likers(c)' = (IF cancel THEN Likers(c) \ {u} ELSE Likers(c) \cup {u}) /\ (u \in Likers(c) <=> cancel)
    BY <1>1, <1>5 DEF Likers
  <2>3. /\ IsFiniteSet(Likers(c)')
        /\ Cardinality(Likers(c)') = IF cancel THEN Cardinality(Likers(c)) - 1 ELSE Cardinality(Likers(c)) + 1
    <3>1. IsFiniteSet(Likers(c))
      BY DEF LikesInv, LikesAt
    <3>2. CASE cancel
      BY <2>2, <3>1, <3>2, OneLess
    <3>3. CASE ~cancel
      BY <2>2, <3>1, <3>3, OneMore
    <3> QED BY <3>2, <3>3
  <2>4. ASSUME NEW d \in Comments \ {c}, Ups(d)' = Ups(d), Downs(d)' = Downs(d)
        PROVE  LikesAt(d)'
    <3>1. Likers(d)' = Likers(d)
      BY <1>1, <1>5 DEF Likers
    <3>2. d \in miscounted => d \in miscounted'
      BY <1>1, <1>5 DEF Miscount
    <3>3. Untouched(d) => Untouched(d)'
      BY <1>2, <2>4, <3>1 DEF Untouched
    <3> QED BY <1>2, <2>1, <2>4, <3>1, <3>2, <3>3, LikesSame DEF LikesInv
  <2>5. CASE UNCHANGED proc /\ Miscount({c})
    <3>1. \A d : Ups(d)' = Ups(d) /\ Downs(d)' = Downs(d)
      BY <2>5, CallsSame DEF Ups, Downs
    <3>2. LikesAt(c)'
      BY <1>1, <1>2, <2>3, <2>5, <3>1 DEF LikesInv, LikesAt, Miscount
    <3> QED BY <2>4, <3>1, <3>2 DEF LikesInv
  <2>6. CASE /\ Become(p, [Call("like", u, c, cancel) EXCEPT !.step = "count"])
             /\ UNCHANGED miscounted
    <3> DEFINE r == New("like", u, "count", c, None, cancel, None, <<>>)
    <3>0. Become(p, r)
      BY <2>6, UseIs
    <3>1. proc' = [proc EXCEPT ![p] = r]
      BY <3>0 DEF Become
    <3>2. r.op = "like" /\ r.key = c /\ r.arg = cancel
      BY DEF New
    <3> HIDE DEF r
    <3>3. \A d : p \notin Ups(d) /\ p \notin Downs(d)
      BY <1>3 DEF InCall, Ups, Downs
    <3>4. ASSUME NEW d
          PROVE  /\ Ups(d)' = IF d = c /\ ~cancel THEN Ups(d) \cup {p} ELSE Ups(d)
                 /\ Downs(d)' = IF d = c /\ cancel THEN Downs(d) \cup {p} ELSE Downs(d)
      <4>1. /\ d = c /\ ~cancel => Ups(d)' = Ups(d) \cup {p}
            /\ ~(d = c /\ ~cancel) => Ups(d)' = Ups(d) \ {p}
            /\ d = c /\ cancel => Downs(d)' = Downs(d) \cup {p}
            /\ ~(d = c /\ cancel) => Downs(d)' = Downs(d) \ {p}
        <5>1. /\ d = c /\ ~cancel <=> r.op = "like" /\ r.key = d /\ r.arg = FALSE
              /\ d = c /\ cancel <=> r.op = "like" /\ r.key = d /\ r.arg = TRUE
          BY <3>2
        <5>2. ProcTyped
          BY DEF TypeInv
        <5> QED BY <3>1, <5>1, <5>2, OneLike
      <4>2. Ups(d) \ {p} = Ups(d) /\ Downs(d) \ {p} = Downs(d)
        BY <3>3
      <4> QED BY <4>1, <4>2
    <3>5. /\ IsFiniteSet(Ups(c)') /\ IsFiniteSet(Downs(c)')
          /\ Cardinality(Ups(c)') = IF cancel THEN Cardinality(Ups(c)) ELSE Cardinality(Ups(c)) + 1
          /\ Cardinality(Downs(c)') = IF cancel THEN Cardinality(Downs(c)) + 1 ELSE Cardinality(Downs(c))
      <4>1. IsFiniteSet(Ups(c)) /\ IsFiniteSet(Downs(c))
        BY DEF LikesInv, LikesAt
      <4> QED BY <3>3, <3>4, <4>1, OneMore
    <3>6. ASSUME LikesAgree(c)
          PROVE  LikesAgree(c)'
      <4> DEFINE dn == IF cancel THEN -1 ELSE 1
                 di == IF cancel THEN 0 ELSE 1
                 dj == IF cancel THEN 1 ELSE 0
      <4>0. /\ LikesAt(c) /\ Cardinality(Likers(c)) \in Nat
            /\ Cardinality(Ups(c)) \in Nat /\ Cardinality(Downs(c)) \in Nat
        BY FS_CardinalityType DEF LikesInv, LikesAt
      <4>1. Counted(c)' = Counted(c) + 0
        BY <2>1, CountedType
      <4>2. Cardinality(Likers(c)') = Cardinality(Likers(c)) + dn
        BY <2>3, <4>0
      <4>3. Cardinality(Ups(c)') = Cardinality(Ups(c)) + di
        BY <3>5, <4>0
      <4>4. Cardinality(Downs(c)') = Cardinality(Downs(c)) + dj
        BY <3>5, <4>0
      <4>5. dn \in Int /\ di \in Int /\ dj \in Int /\ dn = 0 + di - dj
        OBVIOUS
      <4> HIDE DEF dn, di, dj
      <4> QED BY <3>6, <4>0, <4>1, <4>2, <4>3, <4>4, <4>5, LikesMove
    <3>7. LikesAt(c)'
      BY <1>1, <1>2, <2>3, <2>6, <3>5, <3>6 DEF LikesInv, LikesAt
    <3>8. \A d \in Comments \ {c} : LikesAt(d)'
      BY <2>4, <3>4
    <3> QED BY <3>7, <3>8 DEF LikesInv
  <2> QED BY <1>1, <1>5, <2>5, <2>6
<1> QED BY <1>4, <1>5

(* The call of a like goes on to its message, sends it, or fails.          *)
LEMMA LikeCalls ==
  ASSUME TypeInv, LikesInv, NEW p \in Procs, IncrStats(p) \/ PublishCommentAction(p)
  PROVE  LikesInv'
<1>1. proc[p].op = "like" /\ Fits(proc[p])
  BY DEF IncrStats, PublishCommentAction, At, TypeInv, ProcTyped
<1>2. PICK c \in Comments : proc[p].key = c /\ proc[p].arg \in BOOLEAN
  BY <1>1 DEF Fits
<1>3. PICK V : proc[p] \in Rec(V) /\ proc \in [Procs -> Rec(V)]
  BY ProcIs DEF TypeInv
<1>4. UNCHANGED talk /\ likeBuffer' = likeBuffer /\ flushing' = flushing
  BY DEF IncrStats, PublishCommentAction, worker
<1>5. /\ (proc[p].arg <=> p \in Downs(c)) /\ (~proc[p].arg <=> p \in Ups(c))
      /\ \A d \in Comments \ {c} : p \notin Ups(d) /\ p \notin Downs(d)
  BY <1>1, <1>2 DEF Ups, Downs, InCall
<1>6. ~Fresh(comments[c])
  BY <1>2, <1>5 DEF LikesInv, LikesAt, Untouched
<1>7. \A d \in Comments : Likers(d)' = Likers(d) /\ comments'[d] = comments[d] /\ likeCount'[d] = likeCount[d]
  BY <1>4 DEF Likers, talk
<1>8. ASSUME Step(p, "publish"), UNCHANGED <<sent, miscounted>>
      PROVE  LikesInv'
  <2> DEFINE r == [proc[p] EXCEPT !.step = "publish"]
  <2>1. r.op = proc[p].op /\ r.key = proc[p].key /\ r.arg = proc[p].arg
    BY <1>3 DEF Rec
  <2>2. proc' = [proc EXCEPT ![p] = r]
    BY <1>3, <1>8 DEF Step
  <2> HIDE DEF r
  <2>3. \A q \in Procs : proc'[q].op = proc[q].op /\ proc'[q].key = proc[q].key /\ proc'[q].arg = proc[q].arg
    BY <1>3, <2>1, <2>2
  <2>4. UNCHANGED <<likes, likeCount, worker>>
    BY <1>4, <1>8 DEF talk, worker
  <2> QED BY <1>7, <1>8, <2>3, <2>4, LikesStay
<1>9. ASSUME End(p)
      PROVE  \A d \in Comments : Ups(d)' = Ups(d) \ {p} /\ Downs(d)' = Downs(d) \ {p}
  <2>1. Idle.op # "like"
    BY DEF Idle
  <2>2. proc' = [proc EXCEPT ![p] = Idle] /\ ProcTyped
    BY <1>9 DEF End, Become, TypeInv
  <2> QED BY <2>1, <2>2, OneLike
<1>10. ASSUME End(p), \A d \in Comments \ {c} : Counted(d)' = Counted(d) /\ (Untouched(d) => Untouched(d)'),
              \A d \in Comments : d \in miscounted => d \in miscounted'
       PROVE  /\ \A d \in Comments \ {c} : LikesAt(d)'
              /\ IsFiniteSet(Likers(c))' /\ IsFiniteSet(Ups(c))' /\ IsFiniteSet(Downs(c))' /\ ~Fresh(comments[c])'
  <2>1. \A d \in Comments \ {c} : Ups(d)' = Ups(d) /\ Downs(d)' = Downs(d)
    BY <1>5, <1>9, <1>10
  <2>2. ASSUME NEW d \in Comments \ {c}
        PROVE  LikesAt(d)'
    BY <1>7, <1>10, <2>1, <2>2, LikesSame DEF LikesInv
  <2>3. IsFiniteSet(Ups(c)') /\ IsFiniteSet(Downs(c)')
    BY <1>9, <1>10, FS_RemoveElement DEF LikesInv, LikesAt
  <2> QED BY <1>6, <1>7, <2>2, <2>3 DEF LikesInv, LikesAt
<1>11. ASSUME End(p), sent' = sent, Miscount({c})
       PROVE  LikesInv'
  <2>1. \A d \in Comments : Counted(d)' = Counted(d)
    BY <1>4, <1>7, <1>11 DEF Counted, Unflushed, Sent
  <2>2. \A d \in Comments \ {c} : Untouched(d) => Untouched(d)'
    BY <1>4, <1>5, <1>7, <1>9, <1>11 DEF Untouched
  <2>3. \A d \in Comments : d \in miscounted => d \in miscounted'
    BY <1>11 DEF Miscount
  <2>4. c \in miscounted'
    BY <1>11 DEF Miscount
  <2> QED BY <1>10, <1>11, <2>1, <2>2, <2>3, <2>4 DEF LikesInv, LikesAt
<1>12. ASSUME End(p), UNCHANGED miscounted, sent' = [sent EXCEPT ![<<c, IF proc[p].arg THEN -1 ELSE 1>>] = @ + 1]
       PROVE  LikesInv'
  <2> DEFINE e == IF proc[p].arg THEN -1 ELSE 1
  <2>1. /\ \A d \in Comments \ {c} : sent'[<<d, 1>>] = sent[<<d, 1>>] /\ sent'[<<d, -1>>] = sent[<<d, -1>>]
        /\ sent'[<<c, e>>] = sent[<<c, e>>] + 1 /\ sent'[<<c, -e>>] = sent[<<c, -e>>]
        /\ sent[<<c, 1>>] \in Nat /\ sent[<<c, -1>>] \in Nat
    BY <1>12 DEF TypeInv, CommunityTypeOK
  <2>2. \A d \in Comments \ {c} : Counted(d)' = Counted(d)
    BY <1>4, <1>7, <2>1 DEF Counted, Unflushed, Sent
  <2>3. \A d \in Comments \ {c} : Untouched(d) => Untouched(d)'
    BY <1>4, <1>5, <1>7, <1>9, <1>12, <2>1 DEF Untouched
  <2>4. ASSUME LikesAgree(c)
        PROVE  LikesAgree(c)'
    <3> DEFINE di == IF proc[p].arg THEN 0 ELSE -1
               dj == IF proc[p].arg THEN -1 ELSE 0
    <3>0. LikesAt(c) /\ IsFiniteSet(Ups(c)) /\ IsFiniteSet(Downs(c))
      BY DEF LikesInv, LikesAt
    <3>1. Sent(c)' = Sent(c) + e
      BY <2>1 DEF Sent
    <3>2. Counted(c)' = Counted(c) + e
      <4>1. Unflushed(c)' = Unflushed(c) /\ likeCount'[c] = likeCount[c]
        BY <1>4, <1>7 DEF Unflushed
      <4>2. Counted(c)' = likeCount'[c] + Unflushed(c)' + Sent(c)' /\ Counted(c) = likeCount[c] + Unflushed(c) + Sent(c)
        BY DEF Counted
      <4> DEFINE x == likeCount[c]
                 y == Unflushed(c)
                 z == Sent(c)
      <4>3. Counted(c)' = x + y + (z + e) /\ Counted(c) = x + y + z
        BY <3>1, <4>1, <4>2
      <4>4. x \in Int /\ y \in Int /\ z \in Int /\ e \in Int
        BY CountedType
      <4> HIDE DEF x, y, z, e
      <4> QED BY <4>3, <4>4
    <3>3. Cardinality(Likers(c)') = Cardinality(Likers(c)) + 0
      BY <1>7, <3>0, FS_CardinalityType DEF LikesAt
    <3>4. Cardinality(Ups(c)') = Cardinality(Ups(c)) + di
      <4>1. CASE proc[p].arg
        <5>1. Ups(c)' = Ups(c) \ {p} /\ p \notin Ups(c)
          BY <1>2, <1>5, <1>9, <1>12, <4>1
        <5>2. Ups(c)' = Ups(c)
          BY <5>1
        <5> QED BY <3>0, <4>1, <5>2, FS_CardinalityType
      <4>2. CASE ~proc[p].arg
        BY <1>5, <1>9, <1>12, <3>0, <4>2, OneLess
      <4> QED BY <4>1, <4>2
    <3>5. Cardinality(Downs(c)') = Cardinality(Downs(c)) + dj
      <4>1. CASE ~proc[p].arg
        <5>1. Downs(c)' = Downs(c) \ {p} /\ p \notin Downs(c)
          BY <1>2, <1>5, <1>9, <1>12, <4>1
        <5>2. Downs(c)' = Downs(c)
          BY <5>1
        <5> QED BY <3>0, <4>1, <5>2, FS_CardinalityType
      <4>2. CASE proc[p].arg
        BY <1>5, <1>9, <1>12, <3>0, <4>2, OneLess
      <4> QED BY <4>1, <4>2
    <3>6. e \in Int /\ di \in Int /\ dj \in Int /\ 0 = e + di - dj
      OBVIOUS
    <3> HIDE DEF e, di, dj
    <3> QED BY <2>4, <3>0, <3>2, <3>3, <3>4, <3>5, <3>6, LikesMove
  <2>5. comments'[c] = comments[c] /\ LikesAt(c)
    BY <1>7 DEF LikesInv
  <2> QED BY <1>10, <1>12, <2>2, <2>3, <2>4, <2>5 DEF LikesInv, LikesAt
<1>13. CASE IncrStats(p)
  <2>1. UNCHANGED sent
    BY <1>13 DEF IncrStats, worker
  <2> QED BY <1>2, <1>8, <1>11, <1>13, <2>1 DEF IncrStats
<1>14. CASE PublishCommentAction(p)
  BY <1>2, <1>11, <1>12, <1>14 DEF PublishCommentAction
<1> QED BY <1>13, <1>14

(* What the worker makes of the likes that are on their way.               *)
LEMMA LikesFlushed ==
  ASSUME TypeInv, LikesInv, Worker, ~CleanupExpiredTemporaryTopics
  PROVE  LikesInv'
<1> USE DEF TypeInv
<1>1. UNCHANGED <<proc, comments, likes>> /\ miscounted \in SUBSET miscounted'
  BY DEF Worker, HandleMessage, Flush, BatchIncrementCommentStats, EndFlush, TopicExpires, served, talk, Miscount
<1>2. \A c \in Comments : Likers(c)' = Likers(c) /\ Ups(c)' = Ups(c) /\ Downs(c)' = Downs(c)
  BY <1>1 DEF Likers, Ups, Downs, InCall
<1>3. ASSUME NEW c \in Comments, Untouched(c) => Untouched(c)',
             c \notin miscounted' /\ Live(comments[c]) => Counted(c)' = Counted(c)
      PROVE  LikesAt(c)'
  <2>1. LikesAgree(c) /\ c \notin miscounted' /\ Live(comments[c]) => LikesAgree(c)'
    BY <1>2, <1>3 DEF LikesAgree
  <2> QED BY <1>1, <1>2, <1>3, <2>1 DEF LikesInv, LikesAt
<1>4. \A c \in Comments :
        /\ likeCount[c] \in Nat /\ likeBuffer[c] \in Int /\ sent[<<c, 1>>] \in Nat /\ sent[<<c, -1>>] \in Nat
        /\ flushing # None => flushing.sums[c] \in Int
  BY DEF CommunityTypeOK
<1>5. ASSUME HandleMessage, NEW c \in Comments
      PROVE  LikesAt(c)'
  <2>1. PICK d \in Comments, e \in {1, -1} :
          /\ sent[<<d, e>>] > 0
          /\ likeBuffer' = [likeBuffer EXCEPT ![d] = @ + e]
          /\ \/ sent' = [sent EXCEPT ![<<d, e>>] = @ - 1] /\ UNCHANGED miscounted
             \/ NsqFaults /\ d \notin miscounted /\ Miscount({d}) /\ UNCHANGED sent
    BY <1>5 DEF HandleMessage
  <2>2. likeCount' = likeCount /\ flushing' = flushing
    BY <1>5 DEF HandleMessage, talk
  <2>3. CASE c # d
    <3>1. likeBuffer'[c] = likeBuffer[c] /\ sent'[<<c, 1>>] = sent[<<c, 1>>] /\ sent'[<<c, -1>>] = sent[<<c, -1>>]
      BY <2>1, <2>3 DEF CommunityTypeOK
    <3>2. Counted(c)' = Counted(c) /\ (Untouched(c) => Untouched(c)')
      BY <1>2, <2>2, <3>1 DEF Counted, Unflushed, Sent, Untouched
    <3> QED BY <1>3, <3>2
  <2>4. CASE c = d
    <3>1. ~Untouched(c)
      BY <2>1, <2>4 DEF Untouched
    <3>2. CASE sent' = [sent EXCEPT ![<<d, e>>] = @ - 1]
      <4>1. likeBuffer'[c] = likeBuffer[c] + e /\ sent'[<<c, e>>] = sent[<<c, e>>] - 1 /\ sent'[<<c, -e>>] = sent[<<c, -e>>]
        BY <2>1, <2>4, <3>2 DEF CommunityTypeOK
      <4>2. Sent(c)' = Sent(c) - e
        BY <1>4, <4>1 DEF Sent
      <4>3. Unflushed(c)' = Unflushed(c) + e
        BY <1>4, <2>2, <4>1 DEF Unflushed
      <4>4. Counted(c)' = Counted(c)
        <5> DEFINE x == likeCount[c]
                   y == Unflushed(c)
                   z == Sent(c)
        <5>1. Counted(c)' = x + (y + e) + (z - e) /\ Counted(c) = x + y + z
          BY <2>2, <4>2, <4>3 DEF Counted
        <5>2. x \in Int /\ y \in Int /\ z \in Int /\ e \in Int
          BY CountedType
        <5> HIDE DEF x, y, z
        <5> QED BY <5>1, <5>2
      <4> QED BY <1>3, <3>1, <4>4
    <3>3. CASE Miscount({d})
      BY <1>3, <2>4, <3>1, <3>3 DEF Miscount
    <3> QED BY <2>1, <3>2, <3>3
  <2> QED BY <2>3, <2>4
<1>6. ASSUME Flush, NEW c \in Comments
      PROVE  LikesAt(c)'
  <2>1. /\ flushing = None /\ flushing' = [sums |-> likeBuffer, stored |-> FALSE]
        /\ likeCount' = likeCount /\ sent' = sent /\ likeBuffer' = likeBuffer
    BY <1>6 DEF Flush, talk
  <2>2. flushing'.stored = FALSE /\ flushing'.sums = likeBuffer
    BY <2>1
  <2>3. Unflushed(c)' = Unflushed(c)
    BY <2>1, <2>2 DEF Unflushed
  <2>4. Counted(c)' = Counted(c) /\ (Untouched(c) => Untouched(c)')
    BY <1>2, <2>1, <2>2, <2>3 DEF Counted, Sent, Untouched
  <2> QED BY <1>3, <2>4
<1>7. ASSUME BatchIncrementCommentStats, NEW c \in Comments
      PROVE  LikesAt(c)'
  <2>1. flushing # None /\ ~flushing.stored /\ sent' = sent /\ likeBuffer' = likeBuffer
    BY <1>7 DEF BatchIncrementCommentStats
  <2>2. Unflushed(c) = likeBuffer[c] - 0 /\ Sent(c)' = Sent(c)
    BY <2>1 DEF Unflushed, Sent
  <2>3. CASE UNCHANGED likeCount /\ flushing' = None
    <3>1. Unflushed(c)' = likeBuffer[c] - 0
      BY <2>1, <2>3 DEF Unflushed
    <3>2. Counted(c)' = Counted(c) /\ (Untouched(c) => Untouched(c)')
      BY <1>2, <2>1, <2>2, <2>3, <3>1 DEF Counted, Untouched
    <3> QED BY <1>3, <3>2
  <2>4. CASE /\ likeCount' = [d \in Comments |->
                               IF Live(comments[d]) THEN likeCount[d] + flushing.sums[d] ELSE likeCount[d]]
             /\ \/ flushing' = [flushing EXCEPT !.stored = TRUE]
                \/ Miscount({d \in Comments : flushing.sums[d] # 0}) /\ flushing' = None
    <3>1. likeCount'[c] = IF Live(comments[c]) THEN likeCount[c] + flushing.sums[c] ELSE likeCount[c]
      BY <2>4
    <3>2. CASE flushing' = [flushing EXCEPT !.stored = TRUE]
      <4>1. flushing'.stored = TRUE /\ flushing'.sums = flushing.sums
        BY <2>1, <3>2 DEF CommunityTypeOK
      <4>2. flushing' # None
        BY <2>1, <3>2, CommunityAssumption DEF CommunityTypeOK
      <4>3. Unflushed(c)' = likeBuffer[c] - flushing.sums[c]
        BY <2>1, <4>1, <4>2 DEF Unflushed
      <4>4. Live(comments[c]) => Counted(c)' = Counted(c)
        <5> DEFINE l == likeCount[c]
                   b == likeBuffer[c]
                   n == flushing.sums[c]
                   z == Sent(c)
        <5>1. l \in Int /\ b \in Int /\ n \in Int /\ z \in Int
          BY <1>4, <2>1, CountedType
        <5>2. Counted(c) = l + (b - 0) + z
          BY <2>2 DEF Counted
        <5>3. Live(comments[c]) => Counted(c)' = (l + n) + (b - n) + z
          BY <2>2, <3>1, <4>3 DEF Counted
        <5> HIDE DEF l, b, n, z
        <5>4. l + (b - 0) + z = (l + n) + (b - n) + z
          BY <5>1
        <5> QED BY <5>2, <5>3, <5>4
      <4>5. Untouched(c) => Untouched(c)'
        BY <1>2, <1>4, <2>1, <3>1, <4>1 DEF Untouched
      <4> QED BY <1>3, <4>4, <4>5
    <3>3. CASE Miscount({d \in Comments : flushing.sums[d] # 0}) /\ flushing' = None
      <4>1. Unflushed(c)' = likeBuffer[c] - 0
        BY <2>1, <3>3 DEF Unflushed
      <4>2. c \notin miscounted' => flushing.sums[c] = 0
        BY <3>3 DEF Miscount
      <4>3. flushing.sums[c] = 0 => likeCount'[c] = likeCount[c]
        <5> DEFINE l == likeCount[c]
                   n == flushing.sums[c]
        <5>0. l \in Int
          BY CountedType
        <5>1. l \in Int /\ (likeCount'[c] = l \/ likeCount'[c] = l + n)
          BY <3>1, <5>0
        <5> HIDE DEF l, n
        <5>2. n = 0 => likeCount'[c] = l
          BY <5>1
        <5> QED BY <5>2 DEF l, n
      <4>4. flushing.sums[c] = 0 => Counted(c)' = Counted(c)
        BY <2>2, <4>1, <4>3 DEF Counted
      <4>5. Untouched(c) => Untouched(c)'
        BY <1>2, <2>1, <3>3, <4>3 DEF Untouched
      <4> QED BY <1>3, <4>2, <4>4, <4>5
    <3> QED BY <2>4, <3>2, <3>3
  <2> QED BY <1>7, <2>3, <2>4 DEF BatchIncrementCommentStats
<1>8. ASSUME EndFlush, NEW c \in Comments
      PROVE  LikesAt(c)'
  <2>1. /\ flushing # None /\ flushing.stored /\ flushing' = None
        /\ likeBuffer'[c] = likeBuffer[c] - flushing.sums[c]
        /\ likeCount' = likeCount /\ sent' = sent
    BY <1>8 DEF EndFlush, Remaining, talk
  <2>2. Unflushed(c)' = likeBuffer'[c] - 0 /\ Unflushed(c) = likeBuffer[c] - flushing.sums[c]
    BY <2>1 DEF Unflushed
  <2>3. Unflushed(c)' = Unflushed(c)
    <3> DEFINE b == likeBuffer[c]
               b1 == likeBuffer'[c]
               n == flushing.sums[c]
    <3>1. b \in Int /\ n \in Int /\ b1 = b - n
      BY <1>4, <2>1
    <3> HIDE DEF b, b1, n
    <3>2. b1 - 0 = b - n
      BY <3>1
    <3> QED BY <2>2, <3>2 DEF b, b1, n
  <2>4. Counted(c)' = Counted(c)
    BY <2>1, <2>3 DEF Counted, Sent
  <2>5. Untouched(c) => Untouched(c)'
    BY <1>2, <1>4, <2>1 DEF Untouched
  <2> QED BY <1>3, <2>4, <2>5
<1>9. ASSUME TopicExpires, NEW c \in Comments
      PROVE  LikesAt(c)'
  <2>1. likeCount' = likeCount /\ sent' = sent /\ likeBuffer' = likeBuffer /\ flushing' = flushing
    BY <1>9 DEF TopicExpires, talk, worker
  <2>2. Counted(c)' = Counted(c) /\ (Untouched(c) => Untouched(c)')
    BY <1>2, <2>1 DEF Counted, Unflushed, Sent, Untouched
  <2> QED BY <1>3, <2>2
<1> QED BY <1>5, <1>6, <1>7, <1>8, <1>9 DEF Worker, LikesInv

(* What the worker and the cleanup of topics make of them.                 *)
LEMMA LikesWorker ==
  ASSUME TypeInv, LikesInv, Worker
  PROVE  LikesInv'
<1>1. CASE CleanupExpiredTemporaryTopics
  <2>1. /\ UNCHANGED <<proc, likes, likeCount, worker, miscounted>>
        /\ \E t : DeleteTopicCascade(t)
    BY <1>1 DEF CleanupExpiredTemporaryTopics
  <2>2. \A c \in Comments : \/ comments'[c] = comments[c]
                            \/ ~Fresh(comments'[c]) /\ (Live(comments'[c]) => Fresh(comments[c]))
    BY <2>1, CascadeComments
  <2> QED BY <2>1, <2>2, LikesStay
<1> QED BY <1>1, LikesFlushed

(* The record a process takes up decides whether its follow is in flight.  *)
LEMMA OneFollow ==
  ASSUME ProcTyped, NEW p \in Procs, NEW r, proc' = [proc EXCEPT ![p] = r], NEW v
  PROVE  /\ r.op = "follow" /\ r.key = v /\ r.arg = None => Coming(v)' = Coming(v) \cup {p}
         /\ ~(r.op = "follow" /\ r.key = v /\ r.arg = None) => Coming(v)' = Coming(v) \ {p}
<1>1. \A q \in Procs : proc'[q] = IF q = p THEN r ELSE proc[q]
  BY DEF ProcTyped
<1> DEFINE Is == r.op = "follow" /\ r.key = v /\ r.arg = None
           S == Coming(v)  T == Coming(v)'
<1>2. ASSUME NEW q
      PROVE  q \in T <=> q \in Procs /\ IF q = p THEN Is ELSE q \in S
  BY <1>1 DEF InCall, Coming
<1>3. \A q \in S : q \in Procs
  BY DEF InCall, Coming
<1> HIDE DEF S, T, Is
<1>4. (Is => T = S \cup {p}) /\ (~Is => T = S \ {p})
  BY <1>2, <1>3
<1> QED BY <1>4 DEF S, T, Is

(* A follow's row, and the call that is to count it.                       *)
LEMMA FollowRows ==
  ASSUME TypeInv, FollowsInv, NEW p \in Procs, CreateFollow(p)
  PROVE  FollowsInv'
<1>1. PICK u \in Users, v \in Users :
        \/ /\ <<u, v>> \notin follows /\ follows' = follows \cup {<<u, v>>}
           /\ \/ /\ ThenStep(p, Call("follow", u, v, None), "count", <<SocialKey(u), SocialKey(v)>>)
                 /\ UNCHANGED miscounted
              \/ Unanswered(p, <<>>, {SocialKey(u)}) /\ Miscount({v})
        \/ UNCHANGED <<proc, follows, miscounted>>
  BY DEF CreateFollow
<1>2. fans' = fans /\ proc[p].op = "none"
  BY DEF CreateFollow, Request, IsIdle, Idle
<1>3. CASE UNCHANGED <<proc, follows, miscounted>>
  BY <1>2, <1>3, FollowsStay DEF circle
<1>4. CASE <<u, v>> \notin follows /\ follows' = follows \cup {<<u, v>>}
  <2>1. /\ u \notin Fans(v) /\ Fans(v)' = Fans(v) \cup {u}
        /\ \A w \in Users \ {v} : Fans(w)' = Fans(w)
    BY <1>4 DEF Fans
  <2>2. IsFiniteSet(Fans(v)') /\ Cardinality(Fans(v)') = Cardinality(Fans(v)) + 1
    BY <2>1, OneMore DEF FollowsInv
  <2>3. \A w : p \notin Coming(w)
    BY <1>2 DEF Coming, InCall
  <2>4. ASSUME NEW r, proc' = [proc EXCEPT ![p] = r], r.op # "follow", Miscount({v})
        PROVE  FollowsInv'
    <3>1. \A w : Coming(w)' = Coming(w) \ {p}
      BY <2>4, OneFollow DEF TypeInv
    <3>2. \A w : Coming(w)' = Coming(w)
      BY <2>3, <3>1
    <3>3. \A q \in Procs : proc'[q].op = "follow" => proc'[q].arg = None
      BY <2>4 DEF FollowsInv, TypeInv, ProcTyped
    <3>4. miscounted' = miscounted \cup {v}
      BY <2>4 DEF Miscount
    <3> QED BY <1>2, <2>1, <2>2, <3>2, <3>3, <3>4 DEF FollowsInv
  <2>5. CASE Unanswered(p, <<>>, {SocialKey(u)}) /\ Miscount({v})
    <3>1. Idle.op # "follow" /\ proc' = [proc EXCEPT ![p] = Idle]
      BY <2>5 DEF Unanswered, End, Become, Idle
    <3> QED BY <2>4, <2>5, <3>1
  <2>6. CASE /\ ThenStep(p, Call("follow", u, v, None), "count", <<SocialKey(u), SocialKey(v)>>)
             /\ UNCHANGED miscounted
    <3> DEFINE t == <<SocialKey(u), SocialKey(v)>>
               r == New("follow", u, "count", v, None, None, None, t)
    <3>0. ThenStep(p, Call("follow", u, v, None), "count", t)
      BY <2>6
    <3> HIDE DEF t
    <3>1. Become(p, r)
      BY <3>0, ThenIs
    <3>2. r.op = "follow" /\ r.key = v /\ r.arg = None
      BY DEF New
    <3> HIDE DEF r
    <3>3. proc' = [proc EXCEPT ![p] = r] /\ ProcTyped
      BY <3>1 DEF Become, TypeInv
    <3>4. Coming(v)' = Coming(v) \cup {p} /\ \A w \in Users \ {v} : Coming(w)' = Coming(w) \ {p}
      BY <3>2, <3>3, OneFollow
    <3>5. \A w \in Users \ {v} : Coming(w)' = Coming(w)
      BY <2>3, <3>4
    <3>6. IsFiniteSet(Coming(v)') /\ Cardinality(Coming(v)') = Cardinality(Coming(v)) + 1
      BY <2>3, <3>4, OneMore DEF FollowsInv
    <3>7. \A q \in Procs : proc'[q].op = "follow" => proc'[q].arg = None
      BY <3>2, <3>3 DEF FollowsInv, ProcTyped
    <3>8. ASSUME v \notin miscounted
          PROVE  Cardinality(Fans(v)') = fans[v] + Cardinality(Coming(v)')
      <4> DEFINE n == Cardinality(Fans(v))
                 m == Cardinality(Coming(v))
      <4>1. n \in Nat /\ m \in Nat /\ fans[v] \in Nat /\ n = fans[v] + m
        BY <3>8, FS_CardinalityType DEF FollowsInv, TypeInv, CommunityTypeOK
      <4>2. Cardinality(Fans(v)') = n + 1 /\ Cardinality(Coming(v)') = m + 1
        BY <2>2, <3>6
      <4> HIDE DEF n, m
      <4> QED BY <4>1, <4>2
    <3>9. ASSUME NEW w \in Users
          PROVE  /\ IsFiniteSet(Fans(w))' /\ IsFiniteSet(Coming(w))'
                 /\ w \notin miscounted' => Cardinality(Fans(w)') = fans'[w] + Cardinality(Coming(w)')
      <4>1. CASE w = v
        BY <1>2, <2>2, <2>6, <3>6, <3>8, <4>1
      <4>2. CASE w # v
        BY <1>2, <2>1, <2>6, <3>5, <4>2 DEF FollowsInv
      <4> QED BY <4>1, <4>2
    <3> QED BY <3>7, <3>9 DEF FollowsInv
  <2> QED BY <1>1, <1>3, <1>4, <2>5, <2>6
<1> QED BY <1>1, <1>3, <1>4

(* The followers of a user are counted, or a failure is noted.             *)
LEMMA FollowCounts ==
  ASSUME TypeInv, FollowsInv, NEW p \in Procs, IncrementFollowingCount(p)
  PROVE  FollowsInv'
<1>1. proc[p].op = "follow" /\ Fits(proc[p]) /\ proc[p].arg = None
  BY DEF IncrementFollowingCount, At, TypeInv, ProcTyped, FollowsInv
<1>2. PICK v \in Users : proc[p].key = v
  BY <1>1 DEF Fits
<1>3. follows' = follows
  BY DEF IncrementFollowingCount
<1>4. \A w \in Users : Fans(w)' = Fans(w)
  BY <1>3 DEF Fans
<1>5. p \in Coming(v) /\ \A w \in Users \ {v} : p \notin Coming(w)
  BY <1>1, <1>2 DEF Coming, InCall
<1>6. End(p) \/ \E t : Become(p, ToDelete(t))
  BY DEF IncrementFollowingCount, Committed, Answered, Unanswered, ToDelete
<1>7. PICK r : proc' = [proc EXCEPT ![p] = r] /\ r.op # "follow"
  <2>1. CASE End(p)
    <3>1. Idle.op # "follow"
      BY DEF Idle
    <3> QED BY <2>1, <3>1 DEF End, Become
  <2>2. ASSUME NEW t, Become(p, ToDelete(t))
        PROVE  \E r : proc' = [proc EXCEPT ![p] = r] /\ r.op # "follow"
    <3>1. ToDelete(t).op = "write"
      BY WriteIs DEF New
    <3> QED BY <2>2, <3>1 DEF Become
  <2> QED BY <1>6, <2>1, <2>2
<1>8. \A w : Coming(w)' = Coming(w) \ {p}
  BY <1>7, OneFollow DEF TypeInv
<1>9. \A w \in Users \ {v} : Coming(w)' = Coming(w)
  BY <1>5, <1>8
<1>10. IsFiniteSet(Coming(v)') /\ Cardinality(Coming(v)') = Cardinality(Coming(v)) - 1
  BY <1>5, <1>8, OneLess DEF FollowsInv
<1>11. \A q \in Procs : proc'[q].op = "follow" => proc'[q].arg = None
  BY <1>7 DEF FollowsInv, TypeInv, ProcTyped
<1>12. /\ \A w \in Users \ {v} : fans'[w] = fans[w] /\ (w \in miscounted => w \in miscounted')
       /\ v \notin miscounted' => fans'[v] = fans[v] + 1 /\ v \notin miscounted
  BY <1>2 DEF IncrementFollowingCount, Miscount, TypeInv, CommunityTypeOK
<1>13. ASSUME v \notin miscounted'
       PROVE  Cardinality(Fans(v)') = fans'[v] + Cardinality(Coming(v)')
  <2> DEFINE n == Cardinality(Fans(v))
             m == Cardinality(Coming(v))
  <2>1. n \in Nat /\ m \in Nat /\ fans[v] \in Nat /\ n = fans[v] + m
    BY <1>12, <1>13, FS_CardinalityType DEF FollowsInv, TypeInv, CommunityTypeOK
  <2>2. Cardinality(Fans(v)') = n /\ Cardinality(Coming(v)') = m - 1 /\ fans'[v] = fans[v] + 1
    BY <1>4, <1>10, <1>12, <1>13
  <2> HIDE DEF n, m
  <2> QED BY <2>1, <2>2
<1>14. ASSUME NEW w \in Users
       PROVE  /\ IsFiniteSet(Fans(w))' /\ IsFiniteSet(Coming(w))'
              /\ w \notin miscounted' => Cardinality(Fans(w)') = fans'[w] + Cardinality(Coming(w)')
  <2>1. CASE w = v
    BY <1>4, <1>10, <1>13, <2>1 DEF FollowsInv
  <2>2. CASE w # v
    BY <1>4, <1>9, <1>12, <2>2 DEF FollowsInv
  <2> QED BY <2>1, <2>2
<1> QED BY <1>11, <1>14 DEF FollowsInv

(* A restart loses the calls and the buffer; what they would have counted  *)
(* is noted.                                                               *)
LEMMA CountsRestart ==
  ASSUME TypeInv, CountsInv, Restart
  PROVE  CountsInv'
<1>1. /\ \A p \in Procs : proc'[p] = Idle
      /\ likeBuffer' = [c \in Comments |-> 0] /\ flushing' = None
      /\ UNCHANGED <<comments, likeCount, likes, sent, follows, fans>>
  BY DEF Restart, Crash, LoseCounts, talk, circle
<1>2. /\ miscounted \in SUBSET miscounted'
      /\ \A c \in Comments : c \notin miscounted' => Unflushed(c) = 0
      /\ \A p \in Procs : proc[p].op \in {"like", "follow"} => proc[p].key \in miscounted'
  BY DEF Restart, LoseCounts, Miscount
<1>3. \A k : Ups(k)' = {} /\ Downs(k)' = {} /\ Coming(k)' = {}
  BY <1>1 DEF Ups, Downs, Coming, InCall, Idle
<1>4. /\ \A k : k \notin miscounted' => Ups(k) = {} /\ Downs(k) = {} /\ Coming(k) = {}
      /\ \A k : Likers(k)' = Likers(k) /\ Fans(k)' = Fans(k)
  BY <1>1, <1>2 DEF Ups, Downs, Coming, InCall, Likers, Fans
<1>5. ASSUME NEW c \in Comments
      PROVE  LikesAt(c)'
  <2>1. IsFiniteSet(Likers(c))' /\ IsFiniteSet(Ups(c))' /\ IsFiniteSet(Downs(c))'
    BY <1>3, <1>4, FS_EmptySet DEF CountsInv, LikesInv, LikesAt
  <2>2. Untouched(c) => Untouched(c)'
    BY <1>1, <1>3, <1>4 DEF Untouched
  <2>3. ASSUME c \notin miscounted', LikesAgree(c)
        PROVE  LikesAgree(c)'
    <3>1. Unflushed(c)' = 0 - 0 /\ Sent(c)' = Sent(c)
      BY <1>1 DEF Unflushed, Sent
    <3>2. Counted(c)' = Counted(c)
      BY <1>1, <1>2, <2>3, <3>1 DEF Counted
    <3>3. Ups(c)' = Ups(c) /\ Downs(c)' = Downs(c)
      BY <1>3, <1>4, <2>3
    <3> QED BY <1>4, <2>3, <3>2, <3>3 DEF LikesAgree
  <2> QED BY <1>1, <1>2, <2>1, <2>2, <2>3 DEF CountsInv, LikesInv, LikesAt
<1>6. ASSUME NEW v \in Users
      PROVE  /\ IsFiniteSet(Fans(v))' /\ IsFiniteSet(Coming(v))'
             /\ v \notin miscounted' => Cardinality(Fans(v)') = fans'[v] + Cardinality(Coming(v)')
  BY <1>1, <1>2, <1>3, <1>4, FS_EmptySet DEF CountsInv, FollowsInv
<1>7. \A p \in Procs : proc'[p].op = "follow" => proc'[p].arg = None
  BY <1>1 DEF Idle
<1> QED BY <1>5, <1>6, <1>7 DEF CountsInv, LikesInv, FollowsInv

(* The counts are right when the process starts.                           *)
LEMMA CountsInit == Init => CountsInv
<1> SUFFICES ASSUME Init PROVE CountsInv
  OBVIOUS
<1>1. /\ \A p \in Procs : proc[p] = Idle
      /\ likes = {} /\ follows = {} /\ fans = [u \in Users |-> 0] /\ flushing = None
      /\ likeCount = [c \in Comments |-> 0] /\ likeBuffer = [c \in Comments |-> 0]
      /\ sent = [m \in Comments \X {1, -1} |-> 0]
  BY DEF Init, CommunityInit
<1>2. \A k : Likers(k) = {} /\ Ups(k) = {} /\ Downs(k) = {} /\ Fans(k) = {} /\ Coming(k) = {}
  BY <1>1 DEF Likers, Ups, Downs, Fans, Coming, InCall, Idle
<1>3. \A c \in Comments : Untouched(c)
  BY <1>1, <1>2 DEF Untouched
<1>4. LikesInv
  BY <1>2, <1>3, NoneAgrees, FS_EmptySet DEF LikesInv, LikesAt
<1>5. FollowsInv
  <2>1. \A v \in Users : Cardinality(Fans(v)) = 0 /\ Cardinality(Coming(v)) = 0 /\ fans[v] = 0
    BY <1>1, <1>2, FS_EmptySet
  <2>2. \A v \in Users : Cardinality(Fans(v)) = fans[v] + Cardinality(Coming(v))
    BY <2>1
  <2>3. \A p \in Procs : proc[p].op # "follow"
    BY <1>1 DEF Idle
  <2> QED BY <1>2, <2>2, <2>3, FS_EmptySet DEF FollowsInv
<1> QED BY <1>4, <1>5 DEF CountsInv

(* A purchase is no like and no follow.                                    *)
LEMMA PurchaseMoves ==
  ASSUME ProcTyped, NEW p \in Procs, NEW O, {"none", "write", "purchase"} \subseteq O,
         PurchaseGame(p) \/ ClaimLicense(p) \/ GetUserForUpdate(p) \/ CommitPurchase(p)
  PROVE  Moves(p, O)
<1>1. /\ End(p) => Moves(p, O)
      /\ \A t, m : Committed(p, t, m) => Moves(p, O)
  BY EndMoves, WriteMoves
<1>2. PICK V : proc[p] \in Rec(V) /\ proc \in [Procs -> Rec(V)]
  BY ProcIs
<1>3. CASE PurchaseGame(p)
  <2>1. PICK u, a : ReadThen(p, Call("purchase", u, GameKey, a))
    BY <1>3 DEF PurchaseGame
  <2> QED BY <2>1, ReadThenMoves
<1>4. CASE ClaimLicense(p)
  <2>1. ASSUME NEW c, Become(p, Claiming(proc[p], c))
        PROVE  Moves(p, O)
    <3>1. Claiming(proc[p], c).op = proc[p].op /\ proc[p].op \in O
      BY <1>2, <1>4 DEF Rec, Claiming, ClaimLicense, At
    <3> QED BY <2>1, <3>1, TakesUp
  <2>2. (\E c : Become(p, Claiming(proc[p], c))) \/ End(p)
    BY <1>4, Zenon DEF ClaimLicense, Claiming, Fails
  <2> QED BY <1>1, <2>1, <2>2
<1>5. CASE GetUserForUpdate(p)
  <2>1. CASE Step(p, "commit")
    <3> DEFINE r == [proc[p] EXCEPT !.step = "commit"]
    <3>1. r.op = proc[p].op /\ proc[p].op \in O
      BY <1>2, <1>5 DEF Rec, GetUserForUpdate, At
    <3>2. proc' = [proc EXCEPT ![p] = r]
      BY <1>2, <2>1 DEF Step
    <3> HIDE DEF r
    <3> QED BY <3>1, <3>2 DEF Moves
  <2> QED BY <1>1, <1>5, <2>1 DEF GetUserForUpdate
<1>6. CASE CommitPurchase(p)
  BY <1>1, <1>6 DEF CommitPurchase, Fails
<1> QED BY <1>3, <1>4, <1>5, <1>6

(* What p was about before a step of the store.                            *)
LEMMA StoreElsewhere ==
  ASSUME NEW p, StoreStep(p)
  PROVE  proc[p].op \notin {"like", "follow"}
<1> DEFINE Else == proc[p].op \notin {"like", "follow"}
<1>1. ASSUME NEW op, Request(p, op)
      PROVE  Else
  BY <1>1 DEF Request, IsIdle, Idle
<1>2. /\ (SaveGame(p) => Else) /\ (InsertReview(p) => Else) /\ (SaveReview(p) => Else)
      /\ (DropReview(p) => Else) /\ (NotOwn(p) => Else)
  BY DEF SaveGame, InsertReview, SaveReview, DropReview, NotOwn, At
<1>3. (SaveReviewComment(p) => Else) /\ (DropReviewComment(p) => Else)
  BY DEF SaveReviewComment, DropReviewComment, At
<1>4. (ClaimLicense(p) => Else) /\ (GetUserForUpdate(p) => Else)
  BY Zenon DEF ClaimLicense, GetUserForUpdate, At
<1>5. CommitPurchase(p) => Else
  BY Zenon DEF CommitPurchase
<1> HIDE DEF Else
<1>6. Else
  BY <1>1, <1>2, <1>3, <1>4, <1>5, StoreBegins DEF StoreGoesOn
<1> QED BY <1>6 DEF Else

(* Every step.                                                             *)
LEMMA CountsNext == TypeInv /\ TypeInv' /\ CountsInv /\ [Next]_vars => CountsInv'
<1> SUFFICES ASSUME TypeInv, TypeInv', CountsInv, [Next]_vars PROVE CountsInv'
  OBVIOUS
<1>1. ASSUME NEW p \in Procs, \A q \in Procs : q # p => proc'[q] = proc[q],
             proc'[p] = proc[p] \/ (proc[p].op \notin {"like", "follow"} /\ proc'[p].op \notin {"like", "follow"}),
             UNCHANGED <<likes, likeCount, worker, circle, miscounted>>,
             \A c \in Comments : \/ comments'[c] = comments[c]
                                 \/ ~Fresh(comments'[c]) /\ (Live(comments'[c]) => Fresh(comments[c]))
      PROVE  CountsInv'
  <2>1. \A q \in Procs : proc[q].op = "like" \/ proc'[q].op = "like" => proc'[q] = proc[q]
    BY <1>1
  <2>2. \A q \in Procs : proc[q].op = "follow" \/ proc'[q].op = "follow" => proc'[q] = proc[q]
    BY <1>1
  <2>3. LikesInv'
    BY <1>1, <2>1, LikesStay DEF CountsInv
  <2>4. FollowsInv'
    BY <1>1, <2>2, FollowsStay DEF CountsInv
  <2> QED BY <2>3, <2>4 DEF CountsInv
<1>2. ASSUME UNCHANGED <<proc, community>>
      PROVE  CountsInv'
  <2>1. LikesInv'
    BY <1>2, LikesStay DEF CountsInv, community, talk
  <2>2. FollowsInv'
    BY <1>2, FollowsStay DEF CountsInv, community
  <2> QED BY <2>1, <2>2 DEF CountsInv
<1>3. ASSUME NEW p \in Procs, StoreStep(p), UNCHANGED community
      PROVE  CountsInv'
  <2> DEFINE O == StoreOps \cup {"purchase"}
  <2>1. "none" \in O /\ "write" \in O /\ "purchase" \in O /\ "like" \notin O /\ "follow" \notin O
    BY DEF StoreOps
  <2>2. StoreOps \ RemarkOps \subseteq O /\ RemarkOps \subseteq O
    BY DEF StoreOps, RemarkOps
  <2> HIDE DEF O
  <2>3. Moves(p, O)
    BY <1>3, <2>1, <2>2, StoreMoves, PurchaseMoves DEF TypeInv
  <2>4. /\ \A q \in Procs : q # p => proc'[q] = proc[q]
        /\ proc'[p] = proc[p] \/ proc'[p].op \in O
    BY <2>3, Moved DEF TypeInv
  <2>5. proc[p].op \notin {"like", "follow"}
    BY <1>3, StoreElsewhere
  <2>6. UNCHANGED <<comments, likes, likeCount, worker, circle, miscounted>>
    BY <1>3 DEF community, talk
  <2> QED BY <1>1, <2>1, <2>4, <2>5, <2>6
<1>4. ASSUME NEW p \in Procs, CommunityStep(p)
      PROVE  CountsInv'
  <2>1. CASE LikeComment(p) \/ IncrStats(p) \/ PublishCommentAction(p)
    <3>1. LikesInv'
      BY <2>1, LikeRows, LikeCalls DEF CountsInv
    <3>2. FollowsInv'
      <4>1. UNCHANGED circle /\ miscounted \in SUBSET miscounted'
        BY <2>1 DEF LikeComment, IncrStats, PublishCommentAction, Miscount
      <4> DEFINE O == {"none", "like"}
      <4>2. proc[p].op # "follow"
        BY <2>1 DEF LikeComment, IncrStats, PublishCommentAction, Request, IsIdle, Idle, At
      <4>3. "follow" \notin O /\ "none" \in O /\ "like" \in O
        OBVIOUS
      <4> HIDE DEF O
      <4>4. \A q \in Procs : proc[q].op = "follow" \/ proc'[q].op = "follow" => proc'[q] = proc[q]
        BY <2>1, <4>2, <4>3, LikeMoves, Moved DEF TypeInv
      <4> QED BY <4>1, <4>4, FollowsStay DEF CountsInv
    <3> QED BY <3>1, <3>2 DEF CountsInv
  <2>2. CASE CreateFollow(p) \/ IncrementFollowingCount(p)
    <3>1. FollowsInv'
      BY <2>2, FollowRows, FollowCounts DEF CountsInv
    <3>2. LikesInv'
      <4>1. UNCHANGED <<talk, worker>> /\ miscounted \in SUBSET miscounted'
        BY <2>2 DEF CreateFollow, IncrementFollowingCount, Miscount
      <4> DEFINE O == {"none", "write", "follow"}
      <4>2. proc[p].op # "like"
        BY <2>2 DEF CreateFollow, IncrementFollowingCount, Request, IsIdle, Idle, At
      <4>3. "like" \notin O /\ "none" \in O /\ "write" \in O /\ "follow" \in O
        OBVIOUS
      <4> HIDE DEF O
      <4>4. \A q \in Procs : proc[q].op = "like" \/ proc'[q].op = "like" => proc'[q] = proc[q]
        BY <2>2, <4>2, <4>3, FollowMoves, Moved DEF TypeInv
      <4> QED BY <4>1, <4>4, LikesStay DEF CountsInv, talk
    <3> QED BY <3>1, <3>2 DEF CountsInv
  <2>3. CASE ~(LikeComment(p) \/ IncrStats(p) \/ PublishCommentAction(p) \/ CreateFollow(p) \/ IncrementFollowingCount(p))
    <3>1. /\ proc[p].op \notin {"like", "follow"}
          /\ UNCHANGED <<likes, likeCount, worker, circle, miscounted>>
          /\ \A c \in Comments : \/ comments'[c] = comments[c]
                                 \/ ~Fresh(comments'[c]) /\ (Live(comments'[c]) => Fresh(comments[c]))
      BY <1>4, <2>3, CountsNothing
    <3>2. Moves(p, TalkOps)
      <4>1. TalkOps \ {"uncomment"} \subseteq TalkOps /\ "uncomment" \in TalkOps
        BY DEF TalkOps
      <4> QED BY <1>4, <2>3, <4>1, CommunityMoves DEF TypeInv
    <3>3. /\ \A q \in Procs : q # p => proc'[q] = proc[q]
          /\ proc'[p] = proc[p] \/ proc'[p].op \in TalkOps
      BY <3>2, Moved DEF TypeInv
    <3>4. "like" \notin TalkOps /\ "follow" \notin TalkOps
      BY DEF TalkOps
    <3> QED BY <1>1, <3>1, <3>3, <3>4
  <2> QED BY <2>1, <2>2, <2>3
<1>5. ASSUME NEW p \in Procs, Data(p), UNCHANGED community
      PROVE  CountsInv'
  <2>1. proc[p].step \in {"load", "fill", "del"}
    BY <1>5 DEF Data, Load, Fill, Del
  <2>2. proc[p].op \notin {"like", "follow"}
    BY <2>1 DEF TypeInv, ProcTyped, Fits
  <2>3. /\ \A q \in Procs : q # p => proc'[q] = proc[q]
        /\ proc'[p].op = proc[p].op \/ proc'[p].op = "none"
    BY <1>5, DataMoves DEF TypeInv, Idle
  <2>4. UNCHANGED <<comments, likes, likeCount, worker, circle, miscounted>>
    BY <1>5 DEF community, talk
  <2> QED BY <1>1, <2>2, <2>3, <2>4
<1>6. CASE Worker
  <2>1. LikesInv'
    BY <1>6, LikesWorker DEF CountsInv
  <2>2. UNCHANGED <<proc, circle>> /\ miscounted \in SUBSET miscounted'
    BY <1>6 DEF Worker, HandleMessage, Flush, BatchIncrementCommentStats, EndFlush, TopicExpires,
           CleanupExpiredTemporaryTopics, served, Miscount
  <2>3. FollowsInv'
    BY <2>2, FollowsStay DEF CountsInv
  <2> QED BY <2>1, <2>3 DEF CountsInv
<1>7. ASSUME NEW k \in Keys, Expire(k), UNCHANGED community
      PROVE  CountsInv'
  BY <1>2, <1>7 DEF Expire
<1>8. CASE UNCHANGED vars
  BY <1>2, <1>8 DEF vars, served
<1> QED BY <1>3, <1>4, <1>5, <1>6, <1>7, <1>8, CountsRestart DEF Next

(* Right counts are the property TLC checks.                               *)
LEMMA CountsHold == TypeInv /\ CountsInv => CountsAgree
<1> SUFFICES ASSUME TypeInv, CountsInv PROVE CountsAgree
  OBVIOUS
<1>1. ASSUME NEW c \in Comments \ miscounted, Live(comments[c])
      PROVE  Cardinality({u \in Users : <<u, c>> \in likes}) =
               likeCount[c] + Unflushed(c) + Sent(c) + InCalls("like", c, FALSE) - InCalls("like", c, TRUE)
  <2>1. LikesAgree(c)
    BY <1>1 DEF CountsInv, LikesInv, LikesAt
  <2> QED BY <2>1, Zenon DEF LikesAgree, Counted, Likers, Ups, Downs, InCall, InCalls
<1>2. ASSUME NEW v \in Users \ miscounted
      PROVE  Cardinality({u \in Users : <<u, v>> \in follows}) = fans[v] + InCalls("follow", v, None)
  <2>1. Cardinality(Fans(v)) = fans[v] + Cardinality(Coming(v))
    BY DEF CountsInv, FollowsInv
  <2> QED BY <2>1, Zenon DEF Fans, Coming, InCall, InCalls
<1> QED BY <1>1, <1>2 DEF CountsAgree

(* Community's CountsAgree: whatever likes, cancellations, messages,       *)
(* flushes, restarts and follows interleave, a count that no failure has   *)
(* disturbed is the number of its rows, less what is on its way.           *)
THEOREM CountsAgreeHolds == Spec => []CountsAgree
<1>1. Init => CountsInv
  BY CountsInit
<1>2. TypeInv /\ TypeInv' /\ CountsInv /\ [Next]_vars => CountsInv'
  BY CountsNext
<1>3. TypeInv /\ CountsInv => CountsAgree
  BY CountsHold
<1> QED BY <1>1, <1>2, <1>3, TypeAlways, PTL DEF Spec

-----------------------------------------------------------------------------
(* FreshAfterWrites.  A step must delete, or be about to delete, or give   *)
(* up, each entry that it changes while the entry is right, and must pass  *)
(* on the deletions it does not do.                                        *)

ViewMoved(k) == View(k)' # View(k) /\ View(k) # None

(* The entries S are the ones a step changes or stops to delete.           *)
LEMMA FreshStep ==
  ASSUME FreshAfterWrites, NEW S,
         \A k \in Keys : \/ k \in stale'
                         \/ cache'[k] = None \/ cache'[k] = View(k)'
                         \/ cache'[k] = cache[k] /\ k \notin stale,
         \A k \in Keys : ViewMoved(k) => k \in S,
         \A q \in Procs : \A k \in Range(proc[q].todo) : k \in S \/ k \in Range(proc'[q].todo),
         \A k \in Keys : k \in S /\ cache'[k] # None =>
                           \/ k \in stale'
                           \/ \E q \in Procs : k \in Range(proc'[q].todo)
  PROVE  FreshAfterWrites'
<1> SUFFICES ASSUME NEW k \in Keys, cache'[k] # None, cache'[k] # View(k)', k \notin stale'
             PROVE  \E q \in Procs : k \in Range(proc'[q].todo)
  BY DEF FreshAfterWrites, Pending
<1>1. cache'[k] = cache[k] /\ k \notin stale
  OBVIOUS
<1>2. CASE k \in S
  BY <1>2
<1>3. CASE k \notin S
  <2>1. cache[k] # View(k)
    BY <1>1, <1>3 DEF ViewMoved
  <2>2. PICK q \in Procs : k \in Range(proc[q].todo)
    BY <1>1, <2>1 DEF FreshAfterWrites, Pending
  <2> QED BY <1>3, <2>2
<1> QED BY <1>2, <1>3

(* What MySQL answers for each entry, before a step and after it.          *)
LEMMA StoreViewIs ==
  /\ View(GameKey) = Present(game) /\ View(GameKey)' = Present(game')
  /\ View(GamesKey) = <<Present(game)>> /\ View(GamesKey)' = <<Present(game')>>
  /\ View(ReviewsKey) = ListReviewsByGameID /\ View(ReviewsKey)' = ListReviewsByGameID'
  /\ \A r \in Reviews :
       /\ View(ReviewKey(r)) = Present(reviews[r]) /\ View(ReviewKey(r))' = Present(reviews'[r])
       /\ View(ThreadKey(r)) = ListReviewComments(r) /\ View(ThreadKey(r))' = ListReviewComments(r)'
  /\ \A u \in Users :
       /\ View(PlaysKey(u)) = ListUserGamePlays(u) /\ View(PlaysKey(u))' = ListUserGamePlays(u)'
       /\ View(OrdersKey(u)) = ListOrdersByUser(u) /\ View(OrdersKey(u))' = ListOrdersByUser(u)'
       /\ View(BalanceKey(u)) = balance[u] /\ View(BalanceKey(u))' = balance'[u]
<1>1. ASSUME NEW k \in StoreKeys
      PROVE  View(k) = StoreView(k) /\ View(k)' = StoreView(k)'
  BY DEF View
<1>2. /\ GameKey \in StoreKeys /\ GamesKey \in StoreKeys /\ ReviewsKey \in StoreKeys
      /\ \A r \in Reviews : ReviewKey(r) \in StoreKeys /\ ThreadKey(r) \in StoreKeys
      /\ \A u \in Users : PlaysKey(u) \in StoreKeys /\ OrdersKey(u) \in StoreKeys /\ BalanceKey(u) \in StoreKeys
  BY DEF StoreKeys
<1>3. View(GameKey) = Present(game) /\ View(GameKey)' = Present(game')
  <2>1. GameKey[1] = "game"
    BY DEF GameKey
  <2> QED BY <1>1, <1>2, <2>1 DEF StoreView, GetGameByID, Present, Live
<1>4. View(GamesKey) = <<Present(game)>> /\ View(GamesKey)' = <<Present(game')>>
  <2>1. GamesKey[1] = "games"
    BY DEF GamesKey
  <2> QED BY <1>1, <1>2, <2>1 DEF StoreView, ListGames, Present, Live
<1>5. View(ReviewsKey) = ListReviewsByGameID /\ View(ReviewsKey)' = ListReviewsByGameID'
  <2>1. ReviewsKey[1] = "reviews"
    BY DEF ReviewsKey
  <2> QED BY <1>1, <1>2, <2>1 DEF StoreView
<1>6. ASSUME NEW r \in Reviews
      PROVE  /\ View(ReviewKey(r)) = Present(reviews[r]) /\ View(ReviewKey(r))' = Present(reviews'[r])
             /\ View(ThreadKey(r)) = ListReviewComments(r) /\ View(ThreadKey(r))' = ListReviewComments(r)'
  <2>1. ReviewKey(r)[1] = "review" /\ ReviewKey(r)[2] = r /\ ThreadKey(r)[1] = "thread" /\ ThreadKey(r)[2] = r
    BY DEF ReviewKey, ThreadKey
  <2>2. View(ReviewKey(r)) = Present(reviews[r]) /\ View(ReviewKey(r))' = Present(reviews'[r])
    BY <1>1, <1>2, <2>1 DEF StoreView, GetReviewByID, Present, Live
  <2>3. View(ThreadKey(r)) = ListReviewComments(r) /\ View(ThreadKey(r))' = ListReviewComments(r)'
    BY <1>1, <1>2, <2>1 DEF StoreView
  <2> QED BY <2>2, <2>3
<1>7. ASSUME NEW u \in Users
      PROVE  /\ View(PlaysKey(u)) = ListUserGamePlays(u) /\ View(PlaysKey(u))' = ListUserGamePlays(u)'
             /\ View(OrdersKey(u)) = ListOrdersByUser(u) /\ View(OrdersKey(u))' = ListOrdersByUser(u)'
             /\ View(BalanceKey(u)) = balance[u] /\ View(BalanceKey(u))' = balance'[u]
  <2>1. /\ PlaysKey(u)[1] = "plays" /\ PlaysKey(u)[2] = u /\ OrdersKey(u)[1] = "orders" /\ OrdersKey(u)[2] = u
        /\ BalanceKey(u)[1] = "balance" /\ BalanceKey(u)[2] = u
    BY DEF PlaysKey, OrdersKey, BalanceKey
  <2>2. View(PlaysKey(u)) = ListUserGamePlays(u) /\ View(PlaysKey(u))' = ListUserGamePlays(u)'
    BY <1>1, <1>2, <2>1 DEF StoreView
  <2>3. View(OrdersKey(u)) = ListOrdersByUser(u) /\ View(OrdersKey(u))' = ListOrdersByUser(u)'
    BY <1>1, <1>2, <2>1 DEF StoreView
  <2>4. View(BalanceKey(u)) = balance[u] /\ View(BalanceKey(u))' = balance'[u]
    BY <1>1, <1>2, <2>1 DEF StoreView
  <2> QED BY <2>2, <2>3, <2>4
<1> QED BY <1>3, <1>4, <1>5, <1>6, <1>7

(* The entries of the community likewise.                                  *)
LEMMA CommunityViewIs ==
  /\ View(CommentsKey) = LoadCommentByArticleID /\ View(CommentsKey)' = LoadCommentByArticleID'
  /\ View(TopicsKey) = GetActiveTopicsPaged /\ View(TopicsKey)' = GetActiveTopicsPaged'
  /\ \A u \in Users :
       /\ View(CYKey(u)) = ListCYByUserID(u) /\ View(CYKey(u))' = ListCYByUserID(u)'
       /\ View(FollowedKey(u)) = ListTopicFollowByUser(u) /\ View(FollowedKey(u))' = ListTopicFollowByUser(u)'
       /\ View(SocialKey(u)) = LoadSocialStatsFromDB(u) /\ View(SocialKey(u))' = LoadSocialStatsFromDB(u)'
       /\ View(UserKey(u)) = name[u] /\ View(UserKey(u))' = name'[u]
<1>1. ASSUME NEW k, k \notin StoreKeys
      PROVE  View(k) = CommunityView(k) /\ View(k)' = CommunityView(k)'
  BY <1>1 DEF View
<1>2. \A x \in StoreKeys : x[1] \in {"game", "games", "review", "reviews", "thread", "plays", "orders", "balance"}
  BY DEF StoreKeys, GameKey, GamesKey, ReviewKey, ReviewsKey, ThreadKey, PlaysKey, OrdersKey, BalanceKey
<1>3. View(CommentsKey) = LoadCommentByArticleID /\ View(CommentsKey)' = LoadCommentByArticleID'
  <2>1. CommentsKey[1] = "comments"
    BY DEF CommentsKey
  <2>2. CommentsKey \notin StoreKeys
    BY <1>2, <2>1
  <2> QED BY <1>1, <2>1, <2>2 DEF CommunityView
<1>4. View(TopicsKey) = GetActiveTopicsPaged /\ View(TopicsKey)' = GetActiveTopicsPaged'
  <2>1. TopicsKey[1] = "topics"
    BY DEF TopicsKey
  <2>2. TopicsKey \notin StoreKeys
    BY <1>2, <2>1
  <2> QED BY <1>1, <2>1, <2>2 DEF CommunityView
<1>5. ASSUME NEW u \in Users
      PROVE  /\ View(CYKey(u)) = ListCYByUserID(u) /\ View(CYKey(u))' = ListCYByUserID(u)'
             /\ View(FollowedKey(u)) = ListTopicFollowByUser(u) /\ View(FollowedKey(u))' = ListTopicFollowByUser(u)'
             /\ View(SocialKey(u)) = LoadSocialStatsFromDB(u) /\ View(SocialKey(u))' = LoadSocialStatsFromDB(u)'
             /\ View(UserKey(u)) = name[u] /\ View(UserKey(u))' = name'[u]
  <2>1. /\ CYKey(u)[1] = "cy" /\ CYKey(u)[2] = u /\ FollowedKey(u)[1] = "followed" /\ FollowedKey(u)[2] = u
        /\ SocialKey(u)[1] = "social" /\ SocialKey(u)[2] = u /\ UserKey(u)[1] = "user" /\ UserKey(u)[2] = u
    BY DEF CYKey, FollowedKey, SocialKey, UserKey
  <2>2. CYKey(u) \notin StoreKeys /\ FollowedKey(u) \notin StoreKeys /\ SocialKey(u) \notin StoreKeys
        /\ UserKey(u) \notin StoreKeys
    BY <1>2, <2>1
  <2>3. View(CYKey(u)) = ListCYByUserID(u) /\ View(CYKey(u))' = ListCYByUserID(u)'
    BY <1>1, <2>1, <2>2 DEF CommunityView
  <2>4. View(FollowedKey(u)) = ListTopicFollowByUser(u) /\ View(FollowedKey(u))' = ListTopicFollowByUser(u)'
    BY <1>1, <2>1, <2>2 DEF CommunityView
  <2>5. View(SocialKey(u)) = LoadSocialStatsFromDB(u) /\ View(SocialKey(u))' = LoadSocialStatsFromDB(u)'
    BY <1>1, <2>1, <2>2 DEF CommunityView
  <2>6. View(UserKey(u)) = name[u] /\ View(UserKey(u))' = name'[u]
    BY <1>1, <2>1, <2>2 DEF CommunityView
  <2> QED BY <2>3, <2>4, <2>5, <2>6
<1> QED BY <1>3, <1>4, <1>5

(* What a step must have changed for an entry's answer to move.            *)
GameMoved(k) ==
  /\ game' # game
  /\ \/ k = GameKey /\ ~Fresh(game)
     \/ k = GamesKey
     \/ \E u \in Users : k = PlaysKey(u)
ReviewMoved(k) ==
  \E r \in Reviews :
    /\ reviews'[r] # reviews[r]
    /\ k = ReviewsKey \/ (k = ReviewKey(r) /\ ~Fresh(reviews[r]))
RemarkMoved(k) ==
  \E c \in Remarks, r \in Reviews :
    /\ k = ThreadKey(r) /\ remarks'[c] # remarks[c]
    /\ \/ Live(remarks[c]) /\ remarks[c].review = r
       \/ Live(remarks'[c]) /\ remarks'[c].review = r
SalesMoved(k) ==
  \E u \in Users :
    \/ k = PlaysKey(u) /\ plays'[u] # plays[u]
    \/ k = OrdersKey(u) /\ ListOrdersByUser(u)' # ListOrdersByUser(u)
    \/ k = BalanceKey(u) /\ balance'[u] # balance[u]
CommentMoved(k) ==
  \/ k \in CommentLists /\ (likeCount' # likeCount \/ name' # name)
  \/ /\ likeCount' = likeCount /\ name' = name
     /\ \E c \in Comments :
          /\ comments'[c] # comments[c]
          /\ \/ k = CommentsKey
             \/ \E u \in Users :
                  /\ k = CYKey(u)
                  /\ \/ Live(comments[c]) /\ comments[c].cy /\ comments[c].user = u
                     \/ Live(comments'[c]) /\ comments'[c].cy /\ comments'[c].user = u
CircleMoved(k) ==
  \E u \in Users :
    \/ k = SocialKey(u) /\ \/ fans'[u] # fans[u]
                           \/ \E v \in Users : ~(<<u, v>> \in follows' <=> <<u, v>> \in follows)
    \/ k = FollowedKey(u) /\ \E t \in Topics : ~(<<u, t>> \in topicFollows' <=> <<u, t>> \in topicFollows)
    \/ k = UserKey(u) /\ name'[u] # name[u]
TopicMoved(k) == k = TopicsKey /\ GetActiveTopicsPaged' # GetActiveTopicsPaged

(* The comments on a review move with a comment of that review.            *)
LEMMA ThreadMoves ==
  ASSUME NEW r, \A c \in Remarks : remarks'[c] = remarks[c] \/
           /\ ~(Live(remarks[c]) /\ remarks[c].review = r)
           /\ ~(Live(remarks'[c]) /\ remarks'[c].review = r)
  PROVE  ListReviewComments(r)' = ListReviewComments(r)
<1> DEFINE S == {d \in Remarks : Live(remarks[d]) /\ remarks[d].review = r}
           T == {d \in Remarks : Live(remarks'[d]) /\ remarks'[d].review = r}
<1>1. S = T /\ \A c \in S : remarks'[c] = remarks[c]
  OBVIOUS
<1>2. ListReviewComments(r) = {<<c, remarks[c]>> : c \in S}
  BY DEF ListReviewComments
<1>3. ListReviewComments(r)' = {<<c, remarks'[c]>> : c \in T}
  BY DEF ListReviewComments, Live
<1> HIDE DEF S, T
<1> QED BY <1>1, <1>2, <1>3

(* A list of comments moves with a comment that is on it.                  *)
LEMMA ListMoves ==
  ASSUME likeCount' = likeCount, name' = name
  PROVE  /\ (\A c \in Comments : comments'[c] = comments[c]) =>
              LoadCommentByArticleID' = LoadCommentByArticleID
         /\ \A u : (\A c \in Comments : comments'[c] = comments[c] \/
                      /\ ~(Live(comments[c]) /\ comments[c].cy /\ comments[c].user = u)
                      /\ ~(Live(comments'[c]) /\ comments'[c].cy /\ comments'[c].user = u)) =>
              ListCYByUserID(u)' = ListCYByUserID(u)
<1>1. ASSUME NEW S, NEW T, S = T, \A c \in S : comments'[c] = comments[c]
      PROVE  {<<c, likeCount'[c], name'[comments'[c].user]>> : c \in T}
               = {<<c, likeCount[c], name[comments[c].user]>> : c \in S}
  BY <1>1
<1>2. ASSUME \A c \in Comments : comments'[c] = comments[c]
      PROVE  LoadCommentByArticleID' = LoadCommentByArticleID
  <2> DEFINE S == {c \in Comments : Live(comments[c])}
             T == {c \in Comments : Live(comments'[c])}
  <2>1. S = T /\ \A c \in S : comments'[c] = comments[c]
    BY <1>2
  <2>2. LoadCommentByArticleID = {<<c, likeCount[c], name[comments[c].user]>> : c \in S}
    BY DEF LoadCommentByArticleID, Listed
  <2>3. LoadCommentByArticleID' = {<<c, likeCount'[c], name'[comments'[c].user]>> : c \in T}
    BY DEF LoadCommentByArticleID, Listed, Live
  <2> HIDE DEF S, T
  <2> QED BY <1>1, <2>1, <2>2, <2>3
<1>3. ASSUME NEW u, \A c \in Comments : comments'[c] = comments[c] \/
               /\ ~(Live(comments[c]) /\ comments[c].cy /\ comments[c].user = u)
               /\ ~(Live(comments'[c]) /\ comments'[c].cy /\ comments'[c].user = u)
      PROVE  ListCYByUserID(u)' = ListCYByUserID(u)
  <2> DEFINE S == {c \in Comments : Live(comments[c]) /\ comments[c].cy /\ comments[c].user = u}
             T == {c \in Comments : Live(comments'[c]) /\ comments'[c].cy /\ comments'[c].user = u}
  <2>1. S = T /\ \A c \in S : comments'[c] = comments[c]
    BY <1>3
  <2>2. ListCYByUserID(u) = {<<c, likeCount[c], name[comments[c].user]>> : c \in S}
    BY DEF ListCYByUserID, Listed
  <2>3. ListCYByUserID(u)' = {<<c, likeCount'[c], name'[comments'[c].user]>> : c \in T}
    BY DEF ListCYByUserID, Listed, Live
  <2> HIDE DEF S, T
  <2> QED BY <1>1, <2>1, <2>2, <2>3
<1> QED BY <1>2, <1>3

(* Every entry that moves, moves with the rows it shows.                   *)
LEMMA ViewMoves ==
  ASSUME NEW k \in Keys, ViewMoved(k)
  PROVE  \/ GameMoved(k) \/ ReviewMoved(k) \/ RemarkMoved(k) \/ SalesMoved(k)
         \/ CommentMoved(k) \/ CircleMoved(k) \/ TopicMoved(k)
<1>1. CASE k = GameKey \/ k = GamesKey
  <2>1. game' # game
    BY <1>1, StoreViewIs DEF ViewMoved
  <2>2. CASE k = GameKey
    <3>1. Present(game) # None
      BY <2>2, StoreViewIs DEF ViewMoved
    <3> QED BY <2>1, <2>2, <3>1 DEF GameMoved, Present, Live, Fresh
  <2> QED BY <1>1, <2>1, <2>2 DEF GameMoved
<1>2. ASSUME NEW r \in Reviews, k = ReviewKey(r) PROVE ReviewMoved(k)
  <2>1. Present(reviews[r]) # None /\ Present(reviews'[r]) # Present(reviews[r])
    BY <1>2, StoreViewIs DEF ViewMoved
  <2> QED BY <1>2, <2>1 DEF ReviewMoved, Present, Live, Fresh
<1>3. CASE k = ReviewsKey
  <2>1. ListReviewsByGameID' # ListReviewsByGameID
    BY <1>3, StoreViewIs DEF ViewMoved
  <2>2. PICK r \in Reviews : reviews'[r] # reviews[r]
    <3> SUFFICES ASSUME \A r \in Reviews : reviews'[r] = reviews[r] PROVE FALSE
      OBVIOUS
    <3> DEFINE S == {s \in Reviews : Live(reviews[s])}
               T == {s \in Reviews : Live(reviews'[s])}
    <3>1. S = T /\ \A s \in S : reviews'[s] = reviews[s]
      OBVIOUS
    <3>2. ListReviewsByGameID = {<<r, reviews[r]>> : r \in S}
      BY DEF ListReviewsByGameID
    <3>3. ListReviewsByGameID' = {<<r, reviews'[r]>> : r \in T}
      BY DEF ListReviewsByGameID, Live
    <3> HIDE DEF S, T
    <3> QED BY <2>1, <3>1, <3>2, <3>3
  <2> QED BY <1>3, <2>2 DEF ReviewMoved
<1>4. ASSUME NEW r \in Reviews, k = ThreadKey(r) PROVE RemarkMoved(k)
  <2>1. ListReviewComments(r)' # ListReviewComments(r)
    BY <1>4, StoreViewIs DEF ViewMoved
  <2> QED BY <1>4, <2>1, ThreadMoves DEF RemarkMoved
<1>5. ASSUME NEW u \in Users, k = PlaysKey(u) PROVE GameMoved(k) \/ SalesMoved(k)
  <2>1. ListUserGamePlays(u)' # ListUserGamePlays(u)
    BY <1>5, StoreViewIs DEF ViewMoved
  <2>2. game' # game \/ plays'[u] # plays[u]
    <3> SUFFICES ASSUME game' = game, plays'[u] = plays[u] PROVE FALSE
      OBVIOUS
    <3>1. Present(game') = Present(game)
      OBVIOUS
    <3>2. ListUserGamePlays(u)' = IF plays'[u] = None THEN <<>> ELSE <<plays'[u], Present(game')>>
      BY DEF ListUserGamePlays, Present, Live
    <3> QED BY <2>1, <3>1, <3>2 DEF ListUserGamePlays
  <2> QED BY <1>5, <2>2 DEF GameMoved, SalesMoved
<1>6. ASSUME NEW u \in Users, k = OrdersKey(u) PROVE SalesMoved(k)
  BY <1>6, StoreViewIs DEF ViewMoved, SalesMoved
<1>7. ASSUME NEW u \in Users, k = BalanceKey(u) PROVE SalesMoved(k)
  BY <1>7, StoreViewIs DEF ViewMoved, SalesMoved
<1>8. CASE k = CommentsKey
  <2>1. LoadCommentByArticleID' # LoadCommentByArticleID
    BY <1>8, CommunityViewIs DEF ViewMoved
  <2> QED BY <1>8, <2>1, ListMoves DEF CommentMoved, CommentLists
<1>9. ASSUME NEW u \in Users, k = CYKey(u) PROVE CommentMoved(k)
  <2>1. ListCYByUserID(u)' # ListCYByUserID(u)
    BY <1>9, CommunityViewIs DEF ViewMoved
  <2> QED BY <1>9, <2>1, ListMoves DEF CommentMoved, CommentLists
<1>10. CASE k = TopicsKey
  BY <1>10, CommunityViewIs DEF ViewMoved, TopicMoved
<1>11. ASSUME NEW u \in Users, k = FollowedKey(u) PROVE CircleMoved(k)
  <2>1. ListTopicFollowByUser(u)' # ListTopicFollowByUser(u)
    BY <1>11, CommunityViewIs DEF ViewMoved
  <2> QED BY <1>11, <2>1 DEF CircleMoved, ListTopicFollowByUser
<1>12. ASSUME NEW u \in Users, k = SocialKey(u) PROVE CircleMoved(k)
  <2>1. LoadSocialStatsFromDB(u)' # LoadSocialStatsFromDB(u)
    BY <1>12, CommunityViewIs DEF ViewMoved
  <2>2. \/ fans'[u] # fans[u]
        \/ {v \in Users : <<u, v>> \in follows'} # {v \in Users : <<u, v>> \in follows}
    BY <2>1 DEF LoadSocialStatsFromDB
  <2> QED BY <1>12, <2>2 DEF CircleMoved
<1>13. ASSUME NEW u \in Users, k = UserKey(u) PROVE CircleMoved(k)
  BY <1>13, CommunityViewIs DEF ViewMoved, CircleMoved
<1>14. \/ k = GameKey \/ k = GamesKey \/ k = ReviewsKey \/ k = CommentsKey \/ k = TopicsKey
       \/ \E r \in Reviews : k = ReviewKey(r) \/ k = ThreadKey(r)
       \/ \E u \in Users : \/ k = PlaysKey(u) \/ k = OrdersKey(u) \/ k = BalanceKey(u) \/ k = CYKey(u)
                           \/ k = FollowedKey(u) \/ k = SocialKey(u) \/ k = UserKey(u)
  BY KeysAssumption DEF StoreKeys, CommunityKeys, CommentLists
<1> QED BY <1>1, <1>2, <1>3, <1>4, <1>5, <1>6, <1>7, <1>8, <1>9, <1>10, <1>11, <1>12, <1>13, <1>14

(* When none of the rows that entries show changes, no entry moves.        *)
LEMMA NothingMoved ==
  ASSUME UNCHANGED <<game, reviews, remarks, plays, orders, balance>>,
         UNCHANGED <<comments, likeCount, follows, fans, topics, topicFollows, name>>
  PROVE  \A k \in Keys : ~ViewMoved(k)
<1>1. /\ \A u : ListOrdersByUser(u)' = ListOrdersByUser(u)
      /\ GetActiveTopicsPaged' = GetActiveTopicsPaged
  BY DEF ListOrdersByUser, GetActiveTopicsPaged, Live
<1> SUFFICES ASSUME NEW k \in Keys, ViewMoved(k) PROVE FALSE
  OBVIOUS
<1> QED BY <1>1, ViewMoves DEF GameMoved, ReviewMoved, RemarkMoved, SalesMoved, CommentMoved, CircleMoved,
             TopicMoved

(* The keys in a short list.                                               *)
LEMMA Ranges ==
  /\ Range(<<>>) = {}
  /\ \A a : Range(<<a>>) = {a}
  /\ \A a, b : Range(<<a, b>>) = {a, b}
  /\ \A a, b, c : Range(<<a, b, c>>) = {a, b, c}
BY DEF Range

(* A call without deletions to come moves on, and no entry moves.          *)
LEMMA FreshQuiet ==
  ASSUME FreshAfterWrites, ProcTyped, NEW p \in Procs, NEW O, Moves(p, O), proc[p].op \notin Deleters,
         UNCHANGED shared, \A k \in Keys : ~ViewMoved(k)
  PROVE  FreshAfterWrites'
<1> DEFINE S == {}
<1>1. proc[p].todo = <<>>
  BY DEF ProcTyped, Fits
<1>2. \A q \in Procs : \A k \in Range(proc[q].todo) : k \in Range(proc'[q].todo)
  <2>1. \A q \in Procs : q # p => proc'[q] = proc[q]
    BY Moved
  <2> QED BY <1>1, <2>1, Ranges
<1>3. \A k \in Keys : k \in stale' \/ (cache'[k] = cache[k] /\ k \notin stale)
  BY DEF shared
<1>4. \A k \in Keys : ViewMoved(k) => k \in S
  OBVIOUS
<1>5. \A k : k \notin S
  OBVIOUS
<1> HIDE DEF S
<1> QED BY <1>2, <1>3, <1>4, <1>5, FreshStep

(* A step gives up what it no longer deletes and does not delete.          *)
LEMMA FreshAbandoned ==
  ASSUME FreshAfterWrites, NEW S, NEW missed, Abandon(missed),
         \A k \in Keys : ViewMoved(k) => k \in S,
         \A q \in Procs : \A k \in Range(proc[q].todo) : k \in S \/ k \in Range(proc'[q].todo),
         \A k \in Keys : k \in S => k \in missed \/ \E q \in Procs : k \in Range(proc'[q].todo)
  PROVE  FreshAfterWrites'
<1>1. cache' = cache /\ \A k \in stale : k \in stale'
  BY DEF Abandon
<1>2. \A k \in missed : cache[k] # None => k \in stale'
  BY DEF Abandon, Cached
<1>3. \A k \in Keys : k \in stale' \/ (cache'[k] = cache[k] /\ k \notin stale)
  BY <1>1
<1>4. \A k \in Keys : k \in S /\ cache'[k] # None =>
                        \/ k \in stale'
                        \/ \E q \in Procs : k \in Range(proc'[q].todo)
  BY <1>1, <1>2
<1> QED BY <1>3, <1>4, FreshStep

(* A call goes on to another record.                                       *)
LEMMA FreshBecome ==
  ASSUME FreshAfterWrites, ProcTyped, NEW p \in Procs, NEW r, Become(p, r), NEW missed, Abandon(missed),
         \A k \in Keys : ViewMoved(k) => k \in missed \/ k \in Range(r.todo),
         \A k \in Range(proc[p].todo) : k \in missed \/ k \in Range(r.todo)
  PROVE  FreshAfterWrites'
<1> DEFINE S == missed \cup Range(r.todo)
<1>1. proc'[p] = r /\ \A q \in Procs : q # p => proc'[q] = proc[q]
  BY DEF Become, ProcTyped
<1>2. \A k \in Keys : ViewMoved(k) => k \in S
  OBVIOUS
<1>3. \A q \in Procs : \A k \in Range(proc[q].todo) : k \in S \/ k \in Range(proc'[q].todo)
  BY <1>1
<1>4. \A k \in Keys : k \in S => k \in missed \/ \E q \in Procs : k \in Range(proc'[q].todo)
  BY <1>1
<1> HIDE DEF S
<1> QED BY <1>2, <1>3, <1>4, FreshAbandoned

(* A write has committed.                                                  *)
LEMMA FreshCommitted ==
  ASSUME FreshAfterWrites, ProcTyped, NEW p \in Procs, NEW todo, NEW missed,
         Answered(p, todo, missed) \/ Unanswered(p, todo, missed) \/ Committed(p, todo, missed),
         \A k \in Keys : ViewMoved(k) => k \in missed \/ k \in Range(todo),
         \A k \in Range(proc[p].todo) : k \in missed \/ k \in Range(todo)
  PROVE  FreshAfterWrites'
<1>1. Idle.todo = <<>> /\ Range(Idle.todo) = {}
  BY PlainFits, Ranges
<1>2. CASE Answered(p, todo, missed)
  <2>1. CASE todo = <<>>
    <3>1. Become(p, Idle) /\ Abandon(missed)
      BY <1>2, <2>1 DEF Answered, End
    <3>2. Range(todo) = Range(Idle.todo)
      BY <1>1, <2>1
    <3> QED BY <3>1, <3>2, FreshBecome
  <2>2. CASE todo # <<>>
    <3> DEFINE r == ToDelete(todo)
    <3>1. r.todo = todo
      BY WriteIs DEF New
    <3>2. Become(p, r) /\ Abandon(missed)
      BY <1>2, <2>2 DEF Answered, ToDelete
    <3> HIDE DEF r
    <3> QED BY <3>1, <3>2, FreshBecome
  <2> QED BY <2>1, <2>2
<1>3. CASE Unanswered(p, todo, missed)
  <2> DEFINE m == missed \cup Range(todo)
  <2>1. Become(p, Idle) /\ Abandon(m)
    BY <1>3 DEF Unanswered, End
  <2>2. /\ \A k \in Keys : ViewMoved(k) => k \in m \/ k \in Range(Idle.todo)
        /\ \A k \in Range(proc[p].todo) : k \in m \/ k \in Range(Idle.todo)
    OBVIOUS
  <2> HIDE DEF m
  <2> QED BY <2>1, <2>2, FreshBecome
<1> QED BY <1>2, <1>3 DEF Committed

(* A fill, a deletion or an expiry changes one entry and no row.           *)
LEMMA FreshEntry ==
  ASSUME FreshAfterWrites, CacheTyped, NEW e \in Keys, NEW v, cache' = [cache EXCEPT ![e] = v],
         \A k \in Keys : ~ViewMoved(k),
         \/ stale' = stale \ {e} /\ (v = None \/ v = View(e)')
         \/ stale' = stale \cup {e},
         \A q \in Procs : \A k \in Range(proc[q].todo) : k = e \/ k \in Range(proc'[q].todo)
  PROVE  FreshAfterWrites'
<1> SUFFICES ASSUME NEW k \in Keys, cache'[k] # None, cache'[k] # View(k)', k \notin stale'
             PROVE  \E q \in Procs : k \in Range(proc'[q].todo)
  BY DEF FreshAfterWrites, Pending
<1>1. cache'[e] = v
  BY DEF CacheTyped
<1>2. k # e
  BY <1>1
<1>3. cache'[k] = cache[k] /\ k \notin stale
  BY <1>2 DEF CacheTyped
<1>4. cache[k] # View(k)
  BY <1>3 DEF ViewMoved
<1>5. PICK q \in Procs : k \in Range(proc[q].todo)
  BY <1>3, <1>4 DEF FreshAfterWrites, Pending
<1> QED BY <1>2, <1>5

(* A write of a call without earlier deletions has committed.              *)
LEMMA FreshWritten ==
  ASSUME FreshAfterWrites, ProcTyped, NEW p \in Procs, NEW todo, NEW missed,
         Answered(p, todo, missed) \/ Unanswered(p, todo, missed) \/ Committed(p, todo, missed),
         \A k \in Keys : ViewMoved(k) => k \in missed \/ k \in Range(todo),
         proc[p].op \notin Deleters
  PROVE  FreshAfterWrites'
<1>1. Range(proc[p].todo) = {}
  BY Ranges DEF ProcTyped, Fits
<1> QED BY <1>1, FreshCommitted

(* A step of the store moves the entries of the rows it changes.           *)
LEMMA StoreMoved ==
  ASSUME UNCHANGED community, NEW k \in Keys, ViewMoved(k)
  PROVE  /\ GameMoved(k) \/ ReviewMoved(k) \/ RemarkMoved(k) \/ SalesMoved(k)
         /\ game' = game => ~GameMoved(k)
         /\ reviews' = reviews => ~ReviewMoved(k)
         /\ remarks' = remarks => ~RemarkMoved(k)
         /\ UNCHANGED <<plays, orders, balance>> => ~SalesMoved(k)
<1>1. UNCHANGED <<comments, likeCount, follows, fans, topics, topicFollows, name>>
  BY DEF community, talk, circle, rest
<1>2. ~CommentMoved(k) /\ ~CircleMoved(k)
  BY <1>1 DEF CommentMoved, CircleMoved
<1>3. ~TopicMoved(k)
  <2>1. GetActiveTopicsPaged' = GetActiveTopicsPaged
    BY <1>1 DEF GetActiveTopicsPaged, Live
  <2> QED BY <2>1 DEF TopicMoved
<1>4. (game' = game => ~GameMoved(k)) /\ (reviews' = reviews => ~ReviewMoved(k)) /\ (remarks' = remarks => ~RemarkMoved(k))
  BY DEF GameMoved, ReviewMoved, RemarkMoved
<1>5. ASSUME UNCHANGED <<plays, orders, balance>> PROVE ~SalesMoved(k)
  <2>1. \A u : ListOrdersByUser(u)' = ListOrdersByUser(u)
    BY <1>5 DEF ListOrdersByUser
  <2> QED BY <1>5, <2>1 DEF SalesMoved
<1> QED BY <1>2, <1>3, <1>4, <1>5, ViewMoves

(* No call has deletions to come when the store takes a step.              *)
LEMMA StoreHasNone ==
  ASSUME NEW p, StoreStep(p)
  PROVE  proc[p].op \notin Deleters
<1> DEFINE Without == proc[p].op \notin Deleters
<1>1. ASSUME NEW op, Request(p, op)
      PROVE  Without
  BY <1>1 DEF Request, IsIdle, Idle, Deleters
<1>2. /\ (SaveGame(p) => Without) /\ (InsertReview(p) => Without) /\ (SaveReview(p) => Without)
      /\ (DropReview(p) => Without) /\ (NotOwn(p) => Without)
  BY DEF SaveGame, InsertReview, SaveReview, DropReview, NotOwn, At, Deleters
<1>3. (SaveReviewComment(p) => Without) /\ (DropReviewComment(p) => Without)
  BY DEF SaveReviewComment, DropReviewComment, At, Deleters
<1>4. /\ ClaimLicense(p) => proc[p].op = "purchase"
      /\ GetUserForUpdate(p) => proc[p].op = "purchase"
      /\ CommitPurchase(p) => proc[p].op = "purchase"
  BY Zenon DEF ClaimLicense, GetUserForUpdate, CommitPurchase, At
<1>5. proc[p].op = "purchase" => Without
  BY DEF Deleters
<1> HIDE DEF Without
<1>6. Without
  BY <1>1, <1>2, <1>3, <1>4, <1>5, StoreBegins DEF StoreGoesOn
<1> QED BY <1>6 DEF Without

(* A step of the store that changes neither a row nor Redis.               *)
LEMMA FreshStoreQuiet ==
  ASSUME FreshAfterWrites, TypeInv, NEW p \in Procs, StoreStep(p), UNCHANGED <<shared, store, community>>,
         proc[p].op \notin Deleters
  PROVE  FreshAfterWrites'
<1> DEFINE O == StoreOps \cup {"purchase"}
<1>1. "none" \in O /\ "write" \in O /\ "purchase" \in O
  BY DEF StoreOps
<1>2. StoreOps \ RemarkOps \subseteq O /\ RemarkOps \subseteq O
  BY DEF StoreOps, RemarkOps
<1> HIDE DEF O
<1>3. Moves(p, O)
  BY <1>1, <1>2, StoreMoves, PurchaseMoves DEF TypeInv
<1>4. \A k \in Keys : ~ViewMoved(k)
  BY NothingMoved DEF store, library, sales, community, talk, circle, rest
<1> QED BY <1>3, <1>4, FreshQuiet DEF TypeInv

(* Games: SaveGame and DeleteGame change what the play lists show, which   *)
(* they do not delete.                                                     *)
LEMMA FreshGames ==
  ASSUME FreshAfterWrites, TypeInv, NEW p \in Procs, UNCHANGED community,
         CreateGame(p) \/ SaveGame(p) \/ DeleteGame(p)
  PROVE  FreshAfterWrites' \/ UNCHANGED <<shared, store>>
<1>0. ProcTyped
  BY DEF TypeInv
<1>1. ASSUME UNCHANGED <<reviews, remarks, plays, sales>>
      PROVE  \A k \in Keys : ViewMoved(k) => k \in AllPlays \/ k = GamesKey \/ (k = GameKey /\ ~Fresh(game))
  BY <1>1, StoreMoved DEF sales, GameMoved, AllPlays
<1>2. CASE CreateGame(p)
  <2>1. CASE Fails(p)
    BY <2>1 DEF Fails
  <2>2. CASE /\ ThenStep(p, Call("game", None, None, FALSE), "topic", <<GamesKey>>)
             /\ Abandon(AllPlays)
             /\ UNCHANGED <<reviews, remarks, plays, sales>>
    <3> DEFINE r == New("game", None, "topic", None, None, FALSE, None, <<GamesKey>>)
    <3>1. Become(p, r)
      BY <2>2, ThenIs
    <3>2. Range(r.todo) = {GamesKey}
      BY Ranges DEF New
    <3>3. Range(proc[p].todo) = {}
      BY <1>2, Ranges DEF CreateGame, Request, IsIdle, Idle
    <3>4. \A k \in Keys : ViewMoved(k) => k \in AllPlays \/ k \in Range(r.todo)
      BY <1>1, <1>2, <2>2, <3>2 DEF CreateGame
    <3> HIDE DEF r
    <3> QED BY <1>0, <2>2, <3>1, <3>3, <3>4, FreshBecome
  <2> QED BY <1>2, <2>1, <2>2 DEF CreateGame
<1>4. CASE SaveGame(p)
  <2> DEFINE t == <<GameKey, GamesKey>>
  <2>1. CASE Fails(p)
    BY <2>1 DEF Fails
  <2>2. CASE Committed(p, t, AllPlays) /\ UNCHANGED <<reviews, remarks, plays, sales>>
    <3>1. Range(t) = {GameKey, GamesKey}
      BY Ranges
    <3>2. \A k \in Keys : ViewMoved(k) => k \in AllPlays \/ k \in Range(t)
      BY <1>1, <2>2, <3>1
    <3>3. proc[p].op \notin Deleters
      BY <1>4 DEF SaveGame, At, Deleters
    <3> HIDE DEF t
    <3> QED BY <1>0, <2>2, <3>2, <3>3, FreshWritten
  <2> QED BY <1>4, <2>1, <2>2 DEF SaveGame
<1>5. CASE DeleteGame(p)
  <2> DEFINE t == <<GameKey, ReviewsKey, GamesKey>>
  <2>1. CASE Fails(p)
    BY <2>1 DEF Fails
  <2>2. CASE Committed(p, t, AllPlays) /\ UNCHANGED <<reviews, remarks, plays, sales>>
    <3>1. Range(t) = {GameKey, ReviewsKey, GamesKey}
      BY Ranges
    <3>2. \A k \in Keys : ViewMoved(k) => k \in AllPlays \/ k \in Range(t)
      BY <1>1, <2>2, <3>1
    <3>3. proc[p].op \notin Deleters
      BY <1>5 DEF DeleteGame, Request, IsIdle, Idle, Deleters
    <3> HIDE DEF t
    <3> QED BY <1>0, <2>2, <3>2, <3>3, FreshWritten
  <2> QED BY <1>5, <2>1, <2>2 DEF DeleteGame
<1> QED BY <1>2, <1>4, <1>5

(* Reviews.                                                                *)
LEMMA FreshReviews ==
  ASSUME FreshAfterWrites, TypeInv, NEW p \in Procs, UNCHANGED community,
         InsertReview(p) \/ SaveReview(p) \/ DropReview(p)
  PROVE  FreshAfterWrites' \/ UNCHANGED <<shared, store>>
<1>0. ProcTyped /\ \E V : reviews \in [Reviews -> V]
  BY DEF TypeInv, StoreTyped
<1>1. ASSUME UNCHANGED <<game, remarks, plays, sales>>, NEW r, NEW row, reviews' = [reviews EXCEPT ![r] = row]
      PROVE  \A k \in Keys : ViewMoved(k) => k = ReviewsKey \/ (k = ReviewKey(r) /\ ~Fresh(reviews[r]))
  <2> SUFFICES ASSUME NEW k \in Keys, ViewMoved(k)
               PROVE  k = ReviewsKey \/ (k = ReviewKey(r) /\ ~Fresh(reviews[r]))
    OBVIOUS
  <2>1. ReviewMoved(k)
    BY <1>1, StoreMoved DEF sales
  <2>2. PICK s \in Reviews : reviews'[s] # reviews[s] /\ (k = ReviewsKey \/ (k = ReviewKey(s) /\ ~Fresh(reviews[s])))
    BY <2>1 DEF ReviewMoved
  <2>3. s = r
    BY <1>0, <1>1, <2>2
  <2> QED BY <2>2, <2>3
<1>2. proc[p].op \notin Deleters
  BY DEF InsertReview, SaveReview, DropReview, At, Deleters
<1>3. CASE InsertReview(p)
  <2>1. CASE Fails(p)
    BY <2>1 DEF Fails
  <2>2. ASSUME NEW r \in Reviews, Fresh(reviews[r]),
               reviews' = [reviews EXCEPT ![r] = Review(proc[p].user, proc[p].arg)],
               Committed(p, <<ReviewsKey>>, {}), UNCHANGED <<game, remarks, plays, sales>>
        PROVE  FreshAfterWrites'
    <3> DEFINE t == <<ReviewsKey>>
               m == {}
    <3>1. \A k \in Keys : ViewMoved(k) => k = ReviewsKey
      BY <1>1, <2>2
    <3>2. Range(t) = {ReviewsKey} /\ Committed(p, t, m)
      BY <2>2, Ranges
    <3> HIDE DEF t, m
    <3> QED BY <1>0, <1>2, <3>1, <3>2, FreshWritten
  <2> QED BY <1>3, <2>1, <2>2 DEF InsertReview
<1>4. ASSUME NEW r, NEW row, reviews' = [reviews EXCEPT ![r] = row],
             Committed(p, ReviewEntries(r), {}), UNCHANGED <<game, remarks, plays, sales>>
      PROVE  FreshAfterWrites'
  <2> DEFINE t == ReviewEntries(r)
             m == {}
  <2>1. \A k \in Keys : ViewMoved(k) => k = ReviewsKey \/ k = ReviewKey(r)
    BY <1>1, <1>4
  <2>2. Range(t) = {ReviewKey(r), ReviewsKey, ThreadKey(r)} /\ Committed(p, t, m)
    BY <1>4, Ranges DEF ReviewEntries
  <2> HIDE DEF t, m
  <2> QED BY <1>0, <1>2, <2>1, <2>2, FreshWritten
<1>5. CASE SaveReview(p)
  BY <1>4, <1>5 DEF SaveReview, Fails
<1>6. CASE DropReview(p)
  BY <1>4, <1>6 DEF DropReview, Fails
<1> QED BY <1>3, <1>5, <1>6

(* What a row that a call has read before tells of the row when the call   *)
(* changes it: a comment on a review stays with its review, one on the     *)
(* article with its author and its kind, until it is deleted.              *)
RemarkInv ==
  \A p \in Procs : proc[p].op = "updateComment" =>
    /\ ~Fresh(remarks[proc[p].key])
    /\ Live(remarks[proc[p].key]) => remarks[proc[p].key].review = proc[p].val.review
    /\ \A q \in Procs : proc[q].op = "updateComment" /\ proc[q].key = proc[p].key =>
                          proc[q].val.review = proc[p].val.review
UncommentInv ==
  \A p \in Procs : proc[p].op = "uncomment" =>
    /\ ~Fresh(comments[proc[p].key])
    /\ Live(comments[proc[p].key]) => /\ comments[proc[p].key].user = proc[p].user
                                      /\ comments[proc[p].key].cy = proc[p].arg

(* No step that begins no update gives a remark another review.            *)
LEMMA RemarkStays ==
  ASSUME ProcTyped, RemarkInv, \A q \in Procs : proc'[q].op = "updateComment" => proc'[q] = proc[q],
         \A c \in Remarks : ~Fresh(remarks[c]) =>
           ~Fresh(remarks'[c]) /\ (Live(remarks'[c]) => Live(remarks[c]) /\ remarks'[c].review = remarks[c].review)
  PROVE  RemarkInv'
<1> SUFFICES ASSUME NEW p \in Procs, proc'[p].op = "updateComment"
             PROVE  /\ ~Fresh(remarks'[proc'[p].key])
                    /\ Live(remarks'[proc'[p].key]) => remarks'[proc'[p].key].review = proc'[p].val.review
                    /\ \A q \in Procs : proc'[q].op = "updateComment" /\ proc'[q].key = proc'[p].key =>
                                          proc'[q].val.review = proc'[p].val.review
  BY DEF RemarkInv, Fresh, Live
<1>1. proc'[p] = proc[p] /\ proc[p].key \in Remarks
  BY DEF ProcTyped, Fits
<1>2. \A q \in Procs : proc'[q].op = "updateComment" => proc'[q] = proc[q]
  OBVIOUS
<1> QED BY <1>1, <1>2 DEF RemarkInv

(* An update that begins has read its remark.                              *)
LEMMA RemarkBegins ==
  ASSUME TypeInv, RemarkInv, NEW p \in Procs, UpdateReviewComment(p) \/ DeleteReviewComment(p)
  PROVE  RemarkInv'
<1>1. PICK op \in {"updateComment", "deleteComment"} : OfComment(p, op)
  BY DEF UpdateReviewComment, DeleteReviewComment
<1>2. PICK c \in Remarks, text \in Texts :
        Live(remarks[c]) /\ Become(p, With(Call(op, remarks[c].user, c, text), "use", remarks[c]))
  BY <1>1 DEF OfComment, With
<1> DEFINE w == remarks[c].user
           v == remarks[c]
           r == With(Call(op, w, c, text), "use", v)
<1>3. r.op = op /\ r.key = c /\ r.val = v
  <2> HIDE DEF w, v
  <2>1. Call(op, w, c, text) = New(op, w, "idle", c, None, text, None, <<>>)
    BY CallIs
  <2> QED BY <2>1 DEF With, New
<1>4. proc'[p] = r /\ \A q \in Procs : q # p => proc'[q] = proc[q]
  BY <1>2 DEF Become, TypeInv, ProcTyped
<1>5. UNCHANGED remarks
  BY <1>1 DEF OfComment, store, library
<1>6. Live(v) /\ ~Fresh(v)
  BY <1>2 DEF Live, Fresh
<1> HIDE DEF r
<1> SUFFICES ASSUME NEW q \in Procs, proc'[q].op = "updateComment"
             PROVE  /\ ~Fresh(remarks[proc'[q].key])
                    /\ Live(remarks[proc'[q].key]) => remarks[proc'[q].key].review = proc'[q].val.review
                    /\ \A s \in Procs : proc'[s].op = "updateComment" /\ proc'[s].key = proc'[q].key =>
                                          proc'[s].val.review = proc'[q].val.review
  BY <1>5 DEF RemarkInv, Fresh, Live
<1> QED BY <1>3, <1>4, <1>6 DEF RemarkInv

(* The rows of the remarks, by the steps that change them.                 *)
LEMMA RemarkRows ==
  ASSUME TypeInv, RemarkInv, NEW p \in Procs, StoreStep(p), ~UpdateReviewComment(p), ~DeleteReviewComment(p),
         ~SaveReviewComment(p)
  PROVE  RemarkInv'
<1> DEFINE O == (StoreOps \ RemarkOps) \cup {"purchase"}
<1>1. "none" \in O /\ "write" \in O /\ "purchase" \in O /\ "updateComment" \notin O
  BY DEF StoreOps, RemarkOps
<1>2. StoreOps \ RemarkOps \subseteq O
  OBVIOUS
<1> HIDE DEF O
<1>3. Moves(p, O)
  BY <1>1, <1>2, StoreMoves, PurchaseMoves DEF TypeInv
<1>4. \A q \in Procs : proc'[q].op = "updateComment" => proc'[q] = proc[q]
  BY <1>1, <1>3, Moved DEF TypeInv
<1>5. \E V : remarks \in [Remarks -> V]
  BY DEF TypeInv, StoreTyped
<1>6. \A c \in Remarks : ~Fresh(remarks[c]) =>
        ~Fresh(remarks'[c]) /\ (Live(remarks'[c]) => Live(remarks[c]) /\ remarks'[c].review = remarks[c].review)
  <2>1. CASE CreateReviewComment(p)
    <3>1. UNCHANGED remarks \/ \E c, row : Fresh(remarks[c]) /\ remarks' = [remarks EXCEPT ![c] = row]
      BY <2>1 DEF CreateReviewComment, Fails, store, library
    <3> QED BY <1>5, <3>1
  <2>2. CASE DropReviewComment(p)
    <3>1. UNCHANGED remarks \/ \E c : remarks' = [remarks EXCEPT ![c] = Gone]
      BY <2>2 DEF DropReviewComment, Fails, store, library
    <3>2. ~Fresh(Gone) /\ ~Live(Gone)
      BY ReadThroughAssumption DEF Fresh, Live
    <3> QED BY <1>5, <3>1, <3>2
  <2>3. CASE ~CreateReviewComment(p) /\ ~DropReviewComment(p)
    <3>1. /\ \A what, u, k : ReadOf(p, what, u, k) => UNCHANGED remarks
          /\ \A u, row : WritePlay(p, u, row) => UNCHANGED remarks
          /\ \A op : OfReview(p, op) => UNCHANGED remarks
      BY DEF ReadOf, WritePlay, OfReview, Fails, store, library
    <3>2. /\ (GetGame(p) => UNCHANGED remarks) /\ (ListGamesPage(p) => UNCHANGED remarks)
          /\ (GetReview(p) => UNCHANGED remarks) /\ (ListReviews(p) => UNCHANGED remarks)
          /\ (ListThread(p) => UNCHANGED remarks) /\ (GetMyGamePlays(p) => UNCHANGED remarks)
          /\ (ListMyGameOrders(p) => UNCHANGED remarks) /\ (GetAccountBalance(p) => UNCHANGED remarks)
      BY <3>1 DEF GetGame, ListGamesPage, GetReview, ListReviews, ListThread, GetMyGamePlays, ListMyGameOrders,
                  GetAccountBalance
    <3>3. /\ (UpsertMyGamePlay(p) => UNCHANGED remarks) /\ (DeleteMyGamePlay(p) => UNCHANGED remarks)
          /\ (UpdateReview(p) => UNCHANGED remarks) /\ (DeleteReview(p) => UNCHANGED remarks)
      BY <3>1 DEF UpsertMyGamePlay, DeleteMyGamePlay, UpdateReview, DeleteReview
    <3>4. /\ (CreateGame(p) => UNCHANGED remarks) /\ (UpdateGame(p) => UNCHANGED remarks)
          /\ (SaveGame(p) => UNCHANGED remarks) /\ (DeleteGame(p) => UNCHANGED remarks)
      BY DEF CreateGame, UpdateGame, SaveGame, DeleteGame, Fails, store, library
    <3>5. /\ (CreateReview(p) => UNCHANGED remarks) /\ (InsertReview(p) => UNCHANGED remarks)
          /\ (SaveReview(p) => UNCHANGED remarks) /\ (DropReview(p) => UNCHANGED remarks)
          /\ (NotOwn(p) => UNCHANGED remarks)
      BY DEF CreateReview, InsertReview, SaveReview, DropReview, NotOwn, Fails, store, library
    <3>6. UNCHANGED <<shared, store>> \/ UNCHANGED store \/ UNCHANGED <<game, reviews, remarks>> => UNCHANGED remarks
      BY DEF store, library
    <3>7. /\ (PurchaseGame(p) => UNCHANGED store) /\ (GetUserForUpdate(p) => UNCHANGED <<shared, store>>)
          /\ (Fails(p) => UNCHANGED <<shared, store>>)
      BY Zenon DEF PurchaseGame, GetUserForUpdate, Fails
    <3>8. /\ (ClaimLicense(p) => UNCHANGED <<shared, store>>)
          /\ (CommitPurchase(p) => UNCHANGED <<shared, store>> \/ UNCHANGED <<game, reviews, remarks>>)
      BY <3>7, Zenon DEF ClaimLicense, CommitPurchase
    <3>9. UNCHANGED remarks
      BY <2>3, <3>2, <3>3, <3>4, <3>5, <3>6, <3>7, <3>8 DEF StoreStep
    <3> QED BY <3>9
  <2> QED BY <2>1, <2>2, <2>3
<1> QED BY <1>4, <1>6, RemarkStays DEF TypeInv

(* An update saves its remark under the review it has read with it.        *)
LEMMA RemarkSaved ==
  ASSUME TypeInv, RemarkInv, NEW p \in Procs, SaveReviewComment(p)
  PROVE  RemarkInv'
<1> DEFINE O == {"none", "write"}
<1>1. "none" \in O /\ "write" \in O /\ "updateComment" \notin O
  OBVIOUS
<1> HIDE DEF O
<1>2. Moves(p, O)
  <2>1. End(p) \/ \E t, m : Committed(p, t, m)
    BY DEF SaveReviewComment, Fails
  <2> QED BY <1>1, <2>1, EndMoves, WriteMoves
<1>3. \A q \in Procs : proc'[q].op = "updateComment" => proc'[q] = proc[q] /\ q # p
  <2>1. proc[p].op = "updateComment" /\ proc[p].step = "use"
    BY DEF SaveReviewComment, At
  <2>2. proc'[p].op # "updateComment"
    <3>1. PICK r : proc' = [proc EXCEPT ![p] = r] /\ r.op \in O
      <4>1. End(p) \/ \E t, m : Committed(p, t, m)
        BY DEF SaveReviewComment, Fails
      <4>2. \E r : Become(p, r) /\ r.op \in O
        <5>1. Idle.op = "none"
          BY DEF Idle
        <5>2. \A t : ToDelete(t).op = "write"
          BY WriteIs DEF New
        <5>3. Become(p, Idle) \/ \E t : Become(p, ToDelete(t))
          BY <4>1, Zenon DEF End, Committed, Answered, Unanswered, ToDelete
        <5> QED BY <1>1, <5>1, <5>2, <5>3
      <4> QED BY <4>2 DEF Become
    <3> QED BY <1>1, <3>1 DEF TypeInv, ProcTyped
  <2> QED BY <1>1, <1>2, <2>2, Moved DEF TypeInv
<1>4. CASE UNCHANGED remarks
  BY <1>3, <1>4, RemarkStays DEF TypeInv
<1>5. CASE remarks' = [remarks EXCEPT ![proc[p].key] = Remark(proc[p].val.user, proc[p].val.review, proc[p].arg)]
  <2> DEFINE c == proc[p].key
  <2>1. proc[p].op = "updateComment" /\ c \in Remarks /\ proc[p].val \in RemarkRecs /\ proc[p].arg \in Texts
    BY DEF SaveReviewComment, At, TypeInv, ProcTyped, Fits
  <2>2. remarks'[c].review = proc[p].val.review /\ ~Fresh(remarks'[c])
    <3>1. remarks'[c] = Remark(proc[p].val.user, proc[p].val.review, proc[p].arg)
      BY <1>5, <2>1 DEF TypeInv, StoreTyped
    <3>2. remarks'[c] \in RemarkRecs
      BY <2>1, <3>1 DEF RemarkRecs, Remark
    <3> QED BY <3>1, <3>2, RowsAssumption DEF Remark, Fresh, RemarkRecs
  <2>3. \A d \in Remarks : d # c => remarks'[d] = remarks[d]
    BY <1>5 DEF TypeInv, StoreTyped
  <2> SUFFICES ASSUME NEW q \in Procs, proc'[q].op = "updateComment"
               PROVE  /\ ~Fresh(remarks'[proc'[q].key])
                      /\ Live(remarks'[proc'[q].key]) => remarks'[proc'[q].key].review = proc'[q].val.review
                      /\ \A s \in Procs : proc'[s].op = "updateComment" /\ proc'[s].key = proc'[q].key =>
                                            proc'[s].val.review = proc'[q].val.review
    BY DEF RemarkInv, Fresh, Live
  <2>4. proc'[q] = proc[q] /\ proc[q].key \in Remarks
    BY <1>3 DEF TypeInv, ProcTyped, Fits
  <2>5. \A s \in Procs : proc[s].op = "updateComment" /\ proc[s].key = proc[q].key =>
                           proc[s].val.review = proc[q].val.review
    BY <2>4 DEF RemarkInv
  <2> HIDE DEF c
  <2>6. CASE proc[q].key = c
    <3>1. proc[p].val.review = proc[q].val.review
      BY <2>1, <2>5, <2>6 DEF c
    <3> QED BY <1>3, <2>2, <2>4, <2>5, <2>6, <3>1
  <2>7. CASE proc[q].key # c
    BY <1>3, <2>3, <2>4, <2>5, <2>7 DEF RemarkInv
  <2> QED BY <2>6, <2>7
<1> QED BY <1>4, <1>5 DEF SaveReviewComment, Fails, store, library

(* What a call says of a comment stays so until the comment is deleted.    *)
LEMMA UncommentStays ==
  ASSUME ProcTyped, UncommentInv, \A q \in Procs : proc'[q].op = "uncomment" => proc'[q] = proc[q],
         \A c \in Comments : \/ comments'[c] = comments[c]
                             \/ ~Fresh(comments'[c]) /\ (Live(comments'[c]) => Fresh(comments[c]))
  PROVE  UncommentInv'
<1> SUFFICES ASSUME NEW p \in Procs, proc'[p].op = "uncomment"
             PROVE  /\ ~Fresh(comments'[proc'[p].key])
                    /\ Live(comments'[proc'[p].key]) => /\ comments'[proc'[p].key].user = proc'[p].user
                                                        /\ comments'[proc'[p].key].cy = proc'[p].arg
  BY DEF UncommentInv, Fresh, Live
<1>1. proc'[p] = proc[p] /\ proc[p].key \in Comments
  BY DEF ProcTyped, Fits
<1> QED BY <1>1 DEF UncommentInv

(* A deletion that begins has read its comment.                            *)
LEMMA UncommentBegins ==
  ASSUME TypeInv, UncommentInv, NEW p \in Procs, DeleteComment(p)
  PROVE  UncommentInv'
<1>1. PICK c \in Comments :
        Live(comments[c]) /\ Become(p, [Call("uncomment", comments[c].user, c, comments[c].cy) EXCEPT !.step = "use"])
  BY DEF DeleteComment
<1> DEFINE w == comments[c].user
           a == comments[c].cy
           r == New("uncomment", w, "use", c, None, a, None, <<>>)
<1>2. Become(p, r)
  <2> HIDE DEF w, a
  <2> QED BY <1>1, UseIs DEF w, a
<1>3. r.key = c /\ r.user = w /\ r.arg = a
  BY DEF New
<1>4. proc'[p] = r /\ \A q \in Procs : q # p => proc'[q] = proc[q]
  BY <1>2 DEF Become, TypeInv, ProcTyped
<1>5. UNCHANGED comments
  BY DEF DeleteComment, community, talk
<1>6. ~Fresh(comments[c])
  BY <1>1 DEF Live, Fresh
<1> HIDE DEF r
<1> SUFFICES ASSUME NEW q \in Procs, proc'[q].op = "uncomment"
             PROVE  /\ ~Fresh(comments[proc'[q].key])
                    /\ Live(comments[proc'[q].key]) => /\ comments[proc'[q].key].user = proc'[q].user
                                                       /\ comments[proc'[q].key].cy = proc'[q].arg
  BY <1>5 DEF UncommentInv, Fresh, Live
<1> QED BY <1>3, <1>4, <1>6 DEF UncommentInv

(* The steps of the community, of which only DeleteComment begins one.     *)
LEMMA UncommentCommunity ==
  ASSUME TypeInv, UncommentInv, NEW p \in Procs, CommunityStep(p)
  PROVE  UncommentInv'
<1> DEFINE O == SocialOps \ {"uncomment"}
<1>1. /\ "none" \in O /\ "write" \in O /\ "like" \in O /\ "follow" \in O /\ "uncomment" \notin O
      /\ TalkOps \ {"uncomment"} \subseteq O
  BY DEF SocialOps, TalkOps
<1> HIDE DEF O
<1>2. ASSUME Moves(p, O) PROVE \A q \in Procs : proc'[q].op = "uncomment" => proc'[q] = proc[q]
  BY <1>1, <1>2, Moved DEF TypeInv
<1>3. CASE LikeComment(p) \/ IncrStats(p) \/ PublishCommentAction(p)
  <2>1. UNCHANGED comments
    BY <1>3 DEF LikeComment, IncrStats, PublishCommentAction, talk
  <2>2. Moves(p, O)
    BY <1>1, <1>3, LikeMoves DEF TypeInv
  <2> QED BY <1>2, <2>1, <2>2, UncommentStays DEF TypeInv
<1>4. CASE CreateFollow(p) \/ IncrementFollowingCount(p)
  <2>1. UNCHANGED comments
    BY <1>4 DEF CreateFollow, IncrementFollowingCount, talk
  <2>2. Moves(p, O)
    BY <1>1, <1>4, FollowMoves
  <2> QED BY <1>2, <2>1, <2>2, UncommentStays DEF TypeInv
<1>5. CASE ~(LikeComment(p) \/ IncrStats(p) \/ PublishCommentAction(p) \/ CreateFollow(p)
             \/ IncrementFollowingCount(p) \/ DeleteComment(p))
  <2>1. \A c \in Comments : \/ comments'[c] = comments[c]
                            \/ ~Fresh(comments'[c]) /\ (Live(comments'[c]) => Fresh(comments[c]))
    BY <1>5, CountsNothing
  <2>2. Moves(p, O)
    BY <1>1, <1>5, CommunityMoves DEF TypeInv
  <2> QED BY <1>2, <2>1, <2>2, UncommentStays DEF TypeInv
<1> QED BY <1>3, <1>4, <1>5, UncommentBegins

(* Every step keeps what calls have in hand.                               *)
LEMMA HandsNext ==
  TypeInv /\ RemarkInv /\ UncommentInv /\ [Next]_vars => RemarkInv' /\ UncommentInv'
<1> SUFFICES ASSUME TypeInv, RemarkInv, UncommentInv, [Next]_vars PROVE RemarkInv' /\ UncommentInv'
  OBVIOUS
<1>1. ASSUME \A q \in Procs : proc'[q].op = "updateComment" => proc'[q] = proc[q], UNCHANGED remarks
      PROVE  RemarkInv'
  BY <1>1, RemarkStays DEF TypeInv
<1>2. ASSUME \A q \in Procs : proc'[q].op = "uncomment" => proc'[q] = proc[q], UNCHANGED comments
      PROVE  UncommentInv'
  BY <1>2, UncommentStays DEF TypeInv
<1>3. ASSUME NEW p \in Procs, StoreStep(p), UNCHANGED community
      PROVE  RemarkInv' /\ UncommentInv'
  <2>1. RemarkInv'
    BY <1>3, RemarkRows, RemarkSaved, RemarkBegins
  <2> DEFINE O == StoreOps \cup {"purchase"}
  <2>2. "none" \in O /\ "write" \in O /\ "purchase" \in O /\ "uncomment" \notin O
    BY DEF StoreOps
  <2>3. StoreOps \ RemarkOps \subseteq O /\ RemarkOps \subseteq O
    BY DEF StoreOps, RemarkOps
  <2> HIDE DEF O
  <2>4. Moves(p, O)
    BY <1>3, <2>2, <2>3, StoreMoves, PurchaseMoves DEF TypeInv
  <2>5. \A q \in Procs : proc'[q].op = "uncomment" => proc'[q] = proc[q]
    BY <2>2, <2>4, Moved DEF TypeInv
  <2> QED BY <1>2, <1>3, <2>1, <2>5 DEF community, talk
<1>4. ASSUME NEW p \in Procs, CommunityStep(p), UNCHANGED store
      PROVE  RemarkInv' /\ UncommentInv'
  <2>1. UncommentInv'
    BY <1>4, UncommentCommunity
  <2> DEFINE O == SocialOps
  <2>2. /\ "none" \in O /\ "write" \in O /\ "like" \in O /\ "follow" \in O /\ "uncomment" \in O
        /\ "updateComment" \notin O /\ TalkOps \ {"uncomment"} \subseteq O
    BY DEF SocialOps, TalkOps
  <2> HIDE DEF O
  <2>3. Moves(p, O)
    BY <1>4, <2>2, LikeMoves, FollowMoves, CommunityMoves DEF TypeInv
  <2>4. \A q \in Procs : proc'[q].op = "updateComment" => proc'[q] = proc[q]
    BY <2>2, <2>3, Moved DEF TypeInv
  <2> QED BY <1>1, <1>4, <2>1, <2>4 DEF store, library
<1>5. ASSUME NEW p \in Procs, Data(p), UNCHANGED <<store, community>>
      PROVE  RemarkInv' /\ UncommentInv'
  <2>1. proc[p].step \in {"load", "fill", "del"}
    BY <1>5 DEF Data, Load, Fill, Del
  <2>2. proc[p].op \notin {"updateComment", "uncomment"}
    BY <2>1 DEF TypeInv, ProcTyped, Fits
  <2>3. /\ \A q \in Procs : q # p => proc'[q] = proc[q]
        /\ proc'[p].op = proc[p].op \/ proc'[p].op = "none"
    BY <1>5, DataMoves DEF TypeInv, Idle
  <2>4. \A q \in Procs : proc'[q].op \in {"updateComment", "uncomment"} => proc'[q] = proc[q]
    BY <2>2, <2>3
  <2>5. UNCHANGED <<remarks, comments>>
    BY <1>5 DEF store, library, community, talk
  <2> QED BY <1>1, <1>2, <2>4, <2>5
<1>6. CASE Worker /\ UNCHANGED store
  <2>1. UNCHANGED <<proc, remarks>>
    BY <1>6 DEF Worker, HandleMessage, Flush, BatchIncrementCommentStats, EndFlush, TopicExpires,
           CleanupExpiredTemporaryTopics, served, store, library
  <2>2. CASE UNCHANGED comments
    BY <1>1, <1>2, <2>1, <2>2
  <2>3. ASSUME NEW t, DeleteTopicCascade(t)
        PROVE  UncommentInv'
    BY <2>1, <2>3, CascadeComments, UncommentStays DEF TypeInv
  <2>4. (\E t : DeleteTopicCascade(t)) \/ UNCHANGED comments
    BY <1>6, Zenon DEF Worker, HandleMessage, Flush, BatchIncrementCommentStats, EndFlush, TopicExpires,
           CleanupExpiredTemporaryTopics, talk
  <2> QED BY <1>1, <2>1, <2>2, <2>3, <2>4
<1>7. ASSUME NEW k \in Keys, Expire(k), UNCHANGED <<store, community>>
      PROVE  RemarkInv' /\ UncommentInv'
  BY <1>1, <1>2, <1>7 DEF Expire, store, library, community, talk
<1>8. CASE Restart
  <2>1. UNCHANGED <<remarks, comments>> /\ \A q \in Procs : proc'[q] = Idle
    BY <1>8 DEF Restart, Crash, LoseCounts, library, talk
  <2>2. Idle.op = "none"
    BY DEF Idle
  <2> QED BY <1>1, <1>2, <2>1, <2>2
<1>9. CASE UNCHANGED vars
  BY <1>1, <1>2, <1>9 DEF vars, served, store, library, community, talk
<1> QED BY <1>3, <1>4, <1>5, <1>6, <1>7, <1>8, <1>9 DEF Next

(* Comments on reviews.                                                    *)
LEMMA FreshRemarks ==
  ASSUME FreshAfterWrites, TypeInv, RemarkInv, NEW p \in Procs, UNCHANGED community,
         CreateReviewComment(p) \/ SaveReviewComment(p) \/ DropReviewComment(p)
  PROVE  FreshAfterWrites' \/ UNCHANGED <<shared, store>>
<1>0. ProcTyped /\ \E V : remarks \in [Remarks -> V]
  BY DEF TypeInv, StoreTyped
<1>1. ASSUME NEW c, NEW row, NEW r, remarks' = [remarks EXCEPT ![c] = row],
             Live(remarks[c]) => remarks[c].review = r, Live(row) => row.review = r,
             Committed(p, <<ThreadKey(r)>>, {}), UNCHANGED <<game, reviews, plays, sales>>,
             proc[p].op \notin Deleters
      PROVE  FreshAfterWrites'
  <2>1. ASSUME NEW k \in Keys, ViewMoved(k) PROVE k = ThreadKey(r)
    <3>1. RemarkMoved(k)
      BY <1>1, <2>1, StoreMoved DEF sales
    <3>2. PICK d \in Remarks, s \in Reviews :
            /\ k = ThreadKey(s) /\ remarks'[d] # remarks[d]
            /\ \/ Live(remarks[d]) /\ remarks[d].review = s
               \/ Live(remarks'[d]) /\ remarks'[d].review = s
      BY <3>1 DEF RemarkMoved
    <3>3. d = c /\ remarks'[c] = row
      BY <1>0, <1>1, <3>2
    <3> QED BY <1>1, <3>2, <3>3
  <2> DEFINE t == <<ThreadKey(r)>>
             m == {}
  <2>2. Range(t) = {ThreadKey(r)} /\ Committed(p, t, m)
    BY <1>1, Ranges
  <2> HIDE DEF t, m
  <2> QED BY <1>0, <1>1, <2>1, <2>2, FreshWritten
<1>2. CASE CreateReviewComment(p)
  <2>1. CASE Fails(p)
    BY <2>1 DEF Fails
  <2>2. ASSUME NEW u \in Users, NEW r \in Reviews, NEW text \in Texts, NEW c \in Remarks, Fresh(remarks[c]),
               remarks' = [remarks EXCEPT ![c] = Remark(u, r, text)],
               Committed(p, <<ThreadKey(r)>>, {}), UNCHANGED <<game, reviews, plays, sales>>
        PROVE  FreshAfterWrites'
    <3>1. ~Live(remarks[c]) /\ Remark(u, r, text).review = r
      BY <2>2 DEF Live, Fresh, Remark
    <3>2. proc[p].op \notin Deleters
      BY <1>2 DEF CreateReviewComment, Request, IsIdle, Idle, Deleters
    <3> QED BY <1>1, <2>2, <3>1, <3>2
  <2> QED BY <1>2, <2>1, <2>2 DEF CreateReviewComment
<1>3. CASE SaveReviewComment(p)
  <2> DEFINE old == proc[p].val
             c == proc[p].key
             row == Remark(old.user, old.review, proc[p].arg)
  <2>1. proc[p].op = "updateComment"
    BY <1>3 DEF SaveReviewComment, At
  <2>2. Live(remarks[c]) => remarks[c].review = old.review
    BY <2>1 DEF RemarkInv
  <2>3. row.review = old.review
    BY DEF Remark
  <2>4. proc[p].op \notin Deleters
    BY <2>1 DEF Deleters
  <2>5. \/ /\ remarks' = [remarks EXCEPT ![c] = row] /\ Committed(p, <<ThreadKey(old.review)>>, {})
           /\ UNCHANGED <<game, reviews, plays, sales>>
        \/ Fails(p)
    BY <1>3 DEF SaveReviewComment
  <2> HIDE DEF old, c, row
  <2> QED BY <1>1, <2>2, <2>3, <2>4, <2>5 DEF Fails
<1>4. CASE DropReviewComment(p)
  <2> DEFINE c == proc[p].key
  <2>1. proc[p].op \notin Deleters
    BY <1>4 DEF DropReviewComment, At, Deleters
  <2>2. \/ /\ remarks' = [remarks EXCEPT ![c] = Gone] /\ Committed(p, <<ThreadKey(remarks[c].review)>>, {})
           /\ UNCHANGED <<game, reviews, plays, sales>>
        \/ UNCHANGED <<shared, store>>
    BY <1>4 DEF DropReviewComment, Fails
  <2>3. ~Live(Gone)
    BY DEF Live
  <2> HIDE DEF c
  <2> QED BY <1>1, <2>1, <2>2, <2>3
<1> QED BY <1>2, <1>3, <1>4

(* What a user has played, and purchases.                                  *)
LEMMA FreshSales ==
  ASSUME FreshAfterWrites, TypeInv, NEW p \in Procs, UNCHANGED community,
         UpsertMyGamePlay(p) \/ DeleteMyGamePlay(p) \/ CommitPurchase(p)
  PROVE  FreshAfterWrites' \/ UNCHANGED <<shared, store>>
<1>0. ProcTyped /\ (\E V : plays \in [Users -> V]) /\ (\E V : balance \in [Users -> V])
  BY DEF TypeInv, StoreTyped
<1>1. CASE UpsertMyGamePlay(p) \/ DeleteMyGamePlay(p)
  <2>1. PICK u, row : WritePlay(p, u, row)
    BY <1>1 DEF UpsertMyGamePlay, DeleteMyGamePlay
  <2>2. CASE Fails(p)
    BY <2>2 DEF Fails
  <2>3. CASE /\ plays' = [plays EXCEPT ![u] = row] /\ Committed(p, <<PlaysKey(u)>>, {})
             /\ UNCHANGED <<game, reviews, remarks, sales>>
    <3>1. ASSUME NEW k \in Keys, ViewMoved(k) PROVE k = PlaysKey(u)
      <4>1. SalesMoved(k)
        BY <2>3, <3>1, StoreMoved
      <4>2. UNCHANGED <<orders, balance>> /\ \A v : ListOrdersByUser(v)' = ListOrdersByUser(v)
        BY <2>3 DEF sales, ListOrdersByUser
      <4>3. PICK v \in Users : k = PlaysKey(v) /\ plays'[v] # plays[v]
        BY <4>1, <4>2 DEF SalesMoved
      <4> QED BY <1>0, <2>3, <4>3
    <3> DEFINE t == <<PlaysKey(u)>>
               m == {}
    <3>2. Range(t) = {PlaysKey(u)} /\ Committed(p, t, m)
      BY <2>3, Ranges
    <3>3. proc[p].op \notin Deleters
      BY <1>1 DEF UpsertMyGamePlay, DeleteMyGamePlay, Request, IsIdle, Idle, Deleters
    <3> HIDE DEF t, m
    <3> QED BY <1>0, <3>1, <3>2, <3>3, FreshWritten
  <2> QED BY <2>1, <2>2, <2>3 DEF WritePlay
<1>2. CASE CommitPurchase(p)
  <2> DEFINE u == proc[p].user
  <2>1. CASE UNCHANGED <<shared, store>>
    BY <2>1
  <2>2. CASE Book(p) /\ Committed(p, PurchaseEntries(u), {}) /\ UNCHANGED <<game, reviews, remarks>>
    <3> DEFINE o == [id |-> proc[p].arg, user |-> u, price |-> proc[p].val, code |-> proc[p].held]
    <3>1. /\ \A v \in Users : v # u => plays'[v] = plays[v] /\ balance'[v] = balance[v]
          /\ orders' = orders \/ orders' = orders \cup {o}
      BY <1>0, <2>2 DEF Book
    <3>2. \A v : v # u => ListOrdersByUser(v)' = ListOrdersByUser(v)
      <4>1. o.user = u
        OBVIOUS
      <4> HIDE DEF o, u
      <4> QED BY <3>1, <4>1 DEF ListOrdersByUser
    <3> DEFINE t == PurchaseEntries(u)
               m == {}
    <3>3. Range(t) = {PlaysKey(u), OrdersKey(u), BalanceKey(u)} /\ Committed(p, t, m)
      BY <2>2, Ranges DEF PurchaseEntries
    <3>4. proc[p].op \notin Deleters
      BY <1>2 DEF CommitPurchase, Deleters
    <3> HIDE DEF o, u
    <3>5. ASSUME NEW k \in Keys, ViewMoved(k) PROVE k \in Range(t)
      <4>1. SalesMoved(k)
        BY <2>2, <3>5, StoreMoved
      <4>2. PICK v \in Users : \/ k = PlaysKey(v) /\ plays'[v] # plays[v]
                               \/ k = OrdersKey(v) /\ ListOrdersByUser(v)' # ListOrdersByUser(v)
                               \/ k = BalanceKey(v) /\ balance'[v] # balance[v]
        BY <4>1 DEF SalesMoved
      <4>3. v = u
        BY <3>1, <3>2, <4>2
      <4> QED BY <3>3, <4>2, <4>3
    <3> HIDE DEF t, m
    <3> QED BY <1>0, <3>3, <3>4, <3>5, FreshWritten
  <2> QED BY <1>2, <2>1, <2>2 DEF CommitPurchase, Fails
<1> QED BY <1>1, <1>2

(* Every step of the store deletes, or leaves to be deleted, what it       *)
(* changes.                                                                *)
LEMMA FreshStore ==
  ASSUME FreshAfterWrites, TypeInv, RemarkInv, NEW p \in Procs, StoreStep(p), UNCHANGED community
  PROVE  FreshAfterWrites'
<1>1. proc[p].op \notin Deleters
  BY StoreHasNone
<1>2. UNCHANGED <<shared, store>> => FreshAfterWrites'
  BY <1>1, FreshStoreQuiet
<1>3. CASE CreateGame(p) \/ SaveGame(p) \/ DeleteGame(p)
  BY <1>2, <1>3, FreshGames
<1>4. CASE InsertReview(p) \/ SaveReview(p) \/ DropReview(p)
  BY <1>2, <1>4, FreshReviews
<1>5. CASE CreateReviewComment(p) \/ SaveReviewComment(p) \/ DropReviewComment(p)
  BY <1>2, <1>5, FreshRemarks
<1>6. CASE UpsertMyGamePlay(p) \/ DeleteMyGamePlay(p) \/ CommitPurchase(p)
  BY <1>2, <1>6, FreshSales
<1>7. CASE \/ GetGame(p) \/ ListGamesPage(p) \/ GetReview(p) \/ ListReviews(p) \/ ListThread(p)
           \/ GetMyGamePlays(p) \/ ListMyGameOrders(p) \/ GetAccountBalance(p)
  BY <1>2, <1>7 DEF GetGame, ListGamesPage, GetReview, ListReviews, ListThread, GetMyGamePlays,
                    ListMyGameOrders, GetAccountBalance, ReadOf, Read
<1>8. CASE UpdateGame(p) \/ UpdateReview(p) \/ DeleteReview(p) \/ PurchaseGame(p)
  BY <1>2, <1>8 DEF UpdateGame, UpdateReview, DeleteReview, OfReview, PurchaseGame, ReadThen
<1>9. CASE CreateReview(p) \/ NotOwn(p) \/ UpdateReviewComment(p) \/ DeleteReviewComment(p)
  BY <1>2, <1>9 DEF CreateReview, NotOwn, UpdateReviewComment, DeleteReviewComment, OfComment
<1>10. CASE ClaimLicense(p) \/ GetUserForUpdate(p)
  BY <1>2, <1>10 DEF ClaimLicense, GetUserForUpdate, Fails
<1> QED BY <1>3, <1>4, <1>5, <1>6, <1>7, <1>8, <1>9, <1>10 DEF StoreStep

(* A step of the community moves the entries of the rows it changes.       *)
LEMMA CommunityMoved ==
  ASSUME UNCHANGED <<game, reviews, remarks, plays, orders, balance>>, NEW k \in Keys, ViewMoved(k)
  PROVE  /\ CommentMoved(k) \/ CircleMoved(k) \/ TopicMoved(k)
         /\ UNCHANGED <<comments, likeCount, name>> => ~CommentMoved(k)
         /\ UNCHANGED <<follows, fans, topicFollows, name>> => ~CircleMoved(k)
         /\ UNCHANGED topics => ~TopicMoved(k)
<1>1. ~GameMoved(k) /\ ~ReviewMoved(k) /\ ~RemarkMoved(k)
  BY DEF GameMoved, ReviewMoved, RemarkMoved
<1>2. ~SalesMoved(k)
  <2>1. \A u : ListOrdersByUser(u)' = ListOrdersByUser(u)
    BY DEF ListOrdersByUser
  <2> QED BY <2>1 DEF SalesMoved
<1>3. UNCHANGED topics => ~TopicMoved(k)
  <2>1. UNCHANGED topics => GetActiveTopicsPaged' = GetActiveTopicsPaged
    BY DEF GetActiveTopicsPaged, Live
  <2> QED BY <2>1 DEF TopicMoved
<1>4. UNCHANGED <<comments, likeCount, name>> => ~CommentMoved(k)
  BY DEF CommentMoved
<1>5. UNCHANGED <<follows, fans, topicFollows, name>> => ~CircleMoved(k)
  BY DEF CircleMoved
<1> QED BY <1>1, <1>2, <1>3, <1>4, <1>5, ViewMoves

(* Only a follow that is to be counted and a topic that is to be made      *)
(* have deletions to come when the community takes a step.                 *)
LEMMA CommunityHasNone ==
  ASSUME NEW p, CommunityStep(p)
  PROVE  IncrementFollowingCount(p) \/ EnsureGameTopic(p) \/ InsertTopic(p) \/ proc[p].op \notin Deleters
<1> DEFINE Without == proc[p].op \notin Deleters
<1>1. ASSUME NEW op, Request(p, op)
      PROVE  Without
  BY <1>1 DEF Request, IsIdle, Idle, Deleters
<1>2. /\ (DeleteCommentByID(p) => Without) /\ (IncrStats(p) => Without) /\ (PublishCommentAction(p) => Without)
      /\ (DropTopic(p) => Without) /\ (CreateTopicFollow(p) => Without) /\ (SaveUser(p) => Without)
  BY DEF DeleteCommentByID, IncrStats, PublishCommentAction, DropTopic, CreateTopicFollow, SaveUser, At, Deleters
<1>3. \A what, u, k : Ask(p, what, u, k) => Without
  BY <1>1 DEF Ask
<1> HIDE DEF Without
<1>4. /\ (GetArticleComment(p) => Without) /\ (GetMyCYList(p) => Without) /\ (ListActiveTopics(p) => Without)
      /\ (ListFollowedTopics(p) => Without) /\ (GetSocialStats(p) => Without) /\ (GetUserBase(p) => Without)
  BY <1>3 DEF GetArticleComment, GetMyCYList, ListActiveTopics, ListFollowedTopics, GetSocialStats, GetUserBase
<1>5. (CreateComment(p) => Without) /\ (DeleteComment(p) => Without) /\ (LikeComment(p) => Without)
  BY <1>1 DEF CreateComment, DeleteComment, LikeComment
<1>6. (CreateFollow(p) => Without) /\ (CreateTopic(p) => Without) /\ (DeleteTemporaryTopic(p) => Without)
  BY <1>1 DEF CreateFollow, CreateTopic, DeleteTemporaryTopic
<1>7. (FollowTopic(p) => Without) /\ (UnfollowTopic(p) => Without) /\ (UpdateUser(p) => Without) /\ (Login(p) => Without)
  BY <1>1 DEF FollowTopic, UnfollowTopic, UpdateUser, Login
<1>8. IncrementFollowingCount(p) \/ EnsureGameTopic(p) \/ InsertTopic(p) \/ Without
  BY <1>2, <1>4, <1>5, <1>6, <1>7 DEF CommunityStep
<1> QED BY <1>8 DEF Without

(* The rows that the entries of the community show.                        *)
Shown == <<comments, likeCount, name, follows, fans, topicFollows, topics>>

(* A step of the community that changes neither such a row nor Redis.      *)
LEMMA FreshCommunityQuiet ==
  ASSUME FreshAfterWrites, TypeInv, NEW p \in Procs, CommunityStep(p), UNCHANGED <<shared, store, Shown>>,
         proc[p].op \notin Deleters
  PROVE  FreshAfterWrites'
<1> DEFINE O == SocialOps
<1>1. /\ "none" \in O /\ "write" \in O /\ "like" \in O /\ "follow" \in O /\ "uncomment" \in O
      /\ TalkOps \ {"uncomment"} \subseteq O
  BY DEF SocialOps, TalkOps
<1> HIDE DEF O
<1>2. Moves(p, O)
  BY <1>1, LikeMoves, FollowMoves, CommunityMoves DEF TypeInv
<1>3. \A k \in Keys : ~ViewMoved(k)
  BY NothingMoved DEF store, library, sales, Shown
<1> QED BY <1>2, <1>3, FreshQuiet DEF TypeInv

(* Comments: the lists of the article keep a deleted one, without a        *)
(* promise.                                                                *)
LEMMA FreshComments ==
  ASSUME FreshAfterWrites, TypeInv, UncommentInv, NEW p \in Procs, UNCHANGED store,
         CreateComment(p) \/ DeleteCommentByID(p)
  PROVE  FreshAfterWrites' \/ UNCHANGED <<shared, community>>
<1>0. ProcTyped /\ \E V : comments \in [Comments -> V]
  BY DEF TypeInv, CommunityTypeOK
<1> DEFINE Of(row, u) == Live(row) /\ row.cy /\ row.user = u
<1>1. ASSUME NEW c, NEW row, comments' = [comments EXCEPT ![c] = row],
             UNCHANGED <<likeCount, likes, worker, circle, rest, miscounted>>
      PROVE  \A k \in Keys : ViewMoved(k) =>
               k = CommentsKey \/ \E u \in Users : k = CYKey(u) /\ (Of(comments[c], u) \/ Of(row, u))
  <2> SUFFICES ASSUME NEW k \in Keys, ViewMoved(k)
               PROVE  k = CommentsKey \/ \E u \in Users : k = CYKey(u) /\ (Of(comments[c], u) \/ Of(row, u))
    OBVIOUS
  <2>1. CommentMoved(k)
    BY <1>1, CommunityMoved DEF store, library, sales, circle, rest
  <2>2. UNCHANGED <<likeCount, name>>
    BY <1>1 DEF rest
  <2>3. PICK d \in Comments :
          /\ comments'[d] # comments[d]
          /\ \/ k = CommentsKey
             \/ \E u \in Users :
                  /\ k = CYKey(u)
                  /\ \/ Live(comments[d]) /\ comments[d].cy /\ comments[d].user = u
                     \/ Live(comments'[d]) /\ comments'[d].cy /\ comments'[d].user = u
    BY <2>1, <2>2 DEF CommentMoved
  <2>4. d = c /\ comments'[d] = row
    BY <1>0, <1>1, <2>3
  <2> QED BY <2>3, <2>4
<1>2. CASE CreateComment(p)
  <2>1. CASE Refused(p)
    BY <2>1 DEF Refused
  <2>2. ASSUME NEW c \in Comments, NEW u \in Users, NEW cy \in BOOLEAN, Fresh(comments[c]),
               comments' = [comments EXCEPT ![c] = [user |-> u, cy |-> cy]],
               Committed(p, IF cy THEN <<CYKey(u), CommentsKey>> ELSE <<CommentsKey>>, {}),
               UNCHANGED <<likeCount, likes, worker, circle, rest, miscounted>>
        PROVE  FreshAfterWrites'
    <3> DEFINE t == IF cy THEN <<CYKey(u), CommentsKey>> ELSE <<CommentsKey>>
               m == {}
               row == [user |-> u, cy |-> cy]
    <3>1. CommentsKey \in Range(t) /\ (cy => CYKey(u) \in Range(t))
      <4>1. CASE cy
        BY <4>1, Ranges
      <4>2. CASE ~cy
        BY <4>2, Ranges
      <4> QED BY <4>1, <4>2
    <3>2. row.cy = cy /\ row.user = u
      OBVIOUS
    <3>3. Committed(p, t, m) /\ proc[p].op \notin Deleters
      BY <1>2, <2>2 DEF CreateComment, Request, IsIdle, Idle, Deleters
    <3>4. ~Live(comments[c])
      BY <2>2 DEF Fresh, Live
    <3>5. \A k \in Keys : ViewMoved(k) =>
            k = CommentsKey \/ \E v \in Users : k = CYKey(v) /\ (Of(comments[c], v) \/ Of(row, v))
      <4>1. /\ comments' = [comments EXCEPT ![c] = row]
            /\ UNCHANGED <<likeCount, likes, worker, circle, rest, miscounted>>
        BY <2>2
      <4> HIDE DEF row, Of
      <4> QED BY <1>1, <4>1
    <3> HIDE DEF t, m, row
    <3>6. \A k \in Keys : ViewMoved(k) => k \in Range(t)
      BY <3>1, <3>2, <3>4, <3>5
    <3> QED BY <1>0, <3>3, <3>6, FreshWritten
  <2> QED BY <1>2, <2>1, <2>2 DEF CreateComment
<1>3. CASE DeleteCommentByID(p)
  <2>1. CASE Refused(p)
    BY <2>1 DEF Refused
  <2>2. CASE /\ comments' = [comments EXCEPT ![proc[p].key] = Gone]
             /\ Committed(p, IF proc[p].arg THEN <<CYKey(proc[p].user)>> ELSE <<>>, {CommentsKey})
             /\ UNCHANGED <<likeCount, likes, worker, circle, rest, miscounted>>
    <3> DEFINE c == proc[p].key
               u == proc[p].user
               cy == proc[p].arg
               t == IF cy THEN <<CYKey(u)>> ELSE <<>>
               m == {CommentsKey}
    <3>1. /\ Live(comments[c]) => comments[c].user = u /\ comments[c].cy = cy
          /\ ~Live(Gone)
      BY <1>3 DEF DeleteCommentByID, At, UncommentInv, Live
    <3>2. cy => CYKey(u) \in Range(t)
      <4>1. CASE cy
        BY <4>1, Ranges
      <4> QED BY <4>1
    <3>3. Committed(p, t, m) /\ proc[p].op \notin Deleters /\ CommentsKey \in m
      BY <1>3, <2>2 DEF DeleteCommentByID, At, Deleters
    <3>4. \A k \in Keys : ViewMoved(k) =>
            k = CommentsKey \/ \E v \in Users : k = CYKey(v) /\ (Of(comments[c], v) \/ Of(Gone, v))
      <4>1. /\ comments' = [comments EXCEPT ![c] = Gone]
            /\ UNCHANGED <<likeCount, likes, worker, circle, rest, miscounted>>
        BY <2>2
      <4> HIDE DEF c, Of
      <4> QED BY <1>1, <4>1
    <3> HIDE DEF t, m, c, u, cy
    <3>5. \A k \in Keys : ViewMoved(k) => k \in m \/ k \in Range(t)
      BY <3>1, <3>2, <3>3, <3>4
    <3> QED BY <1>0, <3>3, <3>5, FreshWritten
  <2> QED BY <1>3, <2>1, <2>2 DEF DeleteCommentByID
<1> QED BY <1>2, <1>3

(* Abandoning nothing.                                                     *)
LEMMA NoneAbandoned ==
  ASSUME UNCHANGED shared, NEW m, m = {}
  PROVE  Abandon(m)
BY DEF Abandon, Cached, shared

(* Follows.                                                                *)
LEMMA FreshFollows ==
  ASSUME FreshAfterWrites, TypeInv, NEW p \in Procs, UNCHANGED store,
         CreateFollow(p) \/ IncrementFollowingCount(p)
  PROVE  FreshAfterWrites' \/ (UNCHANGED <<shared, Shown>> /\ proc[p].op \notin Deleters)
<1>0. ProcTyped /\ \E V : fans \in [Users -> V]
  BY DEF TypeInv, CommunityTypeOK
<1>1. ASSUME UNCHANGED <<talk, worker, rest>>, NEW k \in Keys, ViewMoved(k)
      PROVE  \E u \in Users :
               /\ k = SocialKey(u)
               /\ \/ fans'[u] # fans[u]
                  \/ \E v \in Users : ~(<<u, v>> \in follows' <=> <<u, v>> \in follows)
  <2>1. CircleMoved(k) /\ UNCHANGED <<topicFollows, name>>
    BY <1>1, CommunityMoved DEF store, library, sales, talk, rest
  <2> QED BY <2>1 DEF CircleMoved
<1>2. CASE CreateFollow(p)
  <2>1. proc[p].op \notin Deleters /\ Range(proc[p].todo) = {}
    BY <1>2, Ranges DEF CreateFollow, Request, IsIdle, Idle, Deleters
  <2>2. UNCHANGED <<talk, worker, rest, fans>>
    BY <1>2 DEF CreateFollow
  <2>3. ASSUME NEW u \in Users, NEW v \in Users, follows' = follows \cup {<<u, v>>},
               \/ ThenStep(p, Call("follow", u, v, None), "count", <<SocialKey(u), SocialKey(v)>>) /\ UNCHANGED shared
               \/ Unanswered(p, <<>>, {SocialKey(u)})
        PROVE  FreshAfterWrites'
    <3>1. ASSUME NEW k \in Keys, ViewMoved(k) PROVE k = SocialKey(u)
      BY <1>1, <2>2, <2>3, <3>1
    <3>2. CASE Unanswered(p, <<>>, {SocialKey(u)})
      <4> DEFINE t == <<>>
                 m == {SocialKey(u)}
      <4>1. Unanswered(p, t, m) /\ SocialKey(u) \in m
        BY <3>2
      <4> HIDE DEF t, m
      <4> QED BY <1>0, <2>1, <3>1, <4>1, FreshWritten
    <3>3. CASE ThenStep(p, Call("follow", u, v, None), "count", <<SocialKey(u), SocialKey(v)>>) /\ UNCHANGED shared
      <4> DEFINE r == New("follow", u, "count", v, None, None, None, <<SocialKey(u), SocialKey(v)>>)
                 m == {}
      <4>1. Become(p, r)
        BY <3>3, ThenIs
      <4>2. SocialKey(u) \in Range(r.todo)
        BY Ranges DEF New
      <4>3. Abandon(m)
        BY <3>3, NoneAbandoned
      <4> HIDE DEF r, m
      <4> QED BY <1>0, <2>1, <3>1, <4>1, <4>2, <4>3, FreshBecome
    <3> QED BY <2>3, <3>2, <3>3
  <2>4. UNCHANGED <<shared, follows>> => UNCHANGED <<shared, Shown>>
    BY <2>2 DEF Shown, talk, rest
  <2> QED BY <1>2, <2>1, <2>3, <2>4 DEF CreateFollow
<1>3. CASE IncrementFollowingCount(p)
  <2> DEFINE v == proc[p].key
             t == proc[p].todo
             m == {}
  <2>1. UNCHANGED <<talk, worker, follows, rest>> /\ (fans' = fans \/ fans' = [fans EXCEPT ![v] = @ + 1])
    BY <1>3 DEF IncrementFollowingCount
  <2>2. SocialKey(v) \in Range(t)
    <3>1. t = <<SocialKey(proc[p].user), SocialKey(v)>>
      BY <1>3 DEF IncrementFollowingCount, At, TypeInv, ProcTyped, Fits
    <3> QED BY <3>1, Ranges
  <2>3. Committed(p, t, m) \/ Unanswered(p, t, m)
    BY <1>3 DEF IncrementFollowingCount
  <2> HIDE DEF v
  <2>4. ASSUME NEW k \in Keys, ViewMoved(k) PROVE k = SocialKey(v)
    BY <1>0, <1>1, <2>1, <2>4
  <2> HIDE DEF t, m
  <2> QED BY <1>0, <2>2, <2>3, <2>4, FreshCommitted DEF t
<1> QED BY <1>2, <1>3

(* The entries that move when a topic goes with its comments.              *)
LEMMA CascadeMoves ==
  ASSUME TypeInv, UNCHANGED store, NEW t, DeleteTopicCascade(t),
         UNCHANGED <<likeCount, circle, topicFollows, name>>, NEW k \in Keys, ViewMoved(k)
  PROVE  k = TopicsKey \/ k \in Discussed(t)
<1>1. CommentMoved(k) \/ TopicMoved(k)
  BY CommunityMoved DEF store, library, sales, circle
<1>2. CASE CommentMoved(k)
  <2>1. PICK c \in Comments :
          /\ comments'[c] # comments[c]
          /\ k = CommentsKey \/ \E u \in Users : k = CYKey(u)
    BY <1>2 DEF CommentMoved
  <2>2. Houses(t)
    BY <2>1, CascadeComments
  <2> QED BY <2>1, <2>2 DEF Discussed, CommentLists
<1> QED BY <1>1, <1>2 DEF TopicMoved

(* What a call that makes a topic deletes, gives up, or has deleted so far.*)
LEMMA Deletions ==
  ASSUME NEW c, c.op = "game" \/ (c.op = "topic" /\ c.todo \in {<<>>, <<TopicsKey>>})
  PROVE  /\ TopicsKey \in Unlisted(c) \/ TopicsKey \in Range(Deletes(c))
         /\ \A k \in Range(c.todo) : k \in Range(Deletes(c))
BY Ranges DEF Unlisted, Deletes

(* Looking for a topic of the name.                                        *)
LEMMA FreshFinds ==
  ASSUME FreshAfterWrites, TypeInv, NEW p \in Procs, UNCHANGED store,
         NEW op, NEW u, NEW x, NEW y, NEW v, NEW a, NEW t,
         op = "game" \/ (op = "topic" /\ t = <<>>), \A k \in Range(proc[p].todo) : k \in Range(t),
         FindTopic(p, New(op, u, x, y, v, a, None, t))
  PROVE  FreshAfterWrites'
<1> DEFINE c == New(op, u, x, y, v, a, None, t)
           d == Deletes(c)
           U == Unlisted(c)
           m == {}
<1>1. c.op = op /\ c.todo = t
  BY DEF New
<1>2. (TopicsKey \in U \/ TopicsKey \in Range(d)) /\ \A k \in Range(t) : k \in Range(d)
  <2>1. c.op = "game" \/ (c.op = "topic" /\ c.todo \in {<<>>, <<TopicsKey>>})
    BY <1>1
  <2> HIDE DEF c
  <2> QED BY <1>1, <2>1, Deletions
<1>3. ASSUME NEW s, ThenStep(p, c, "insert", s)
      PROVE  \E r : Become(p, r) /\ r.todo = s
  <2> DEFINE r == New(op, u, "insert", y, v, a, None, s)
  <2>1. Become(p, r)
    BY <1>3, GoesOnIs
  <2>2. r.todo = s
    BY DEF New
  <2> HIDE DEF r
  <2> QED BY <2>1, <2>2
<1>4. FindTopic(p, c)
  OBVIOUS
<1>5. ProcTyped
  BY DEF TypeInv
<1> HIDE DEF c, d, U, m
<1>6. UNCHANGED <<likeCount, likes, worker, circle, topicFollows, name, miscounted>>
  BY <1>4 DEF FindTopic
<1>7. ASSUME UNCHANGED <<comments, topics>>
      PROVE  \A k \in Keys : ~ViewMoved(k)
  BY <1>6, <1>7, NothingMoved DEF store, library, sales, circle
<1>8. CASE ThenStep(p, c, "insert", t) /\ UNCHANGED <<shared, comments, topics>>
  <2>1. PICK r : Become(p, r) /\ r.todo = t
    BY <1>3, <1>8
  <2>2. Abandon(m)
    BY <1>8, NoneAbandoned DEF m
  <2> QED BY <1>5, <1>7, <1>8, <2>1, <2>2, FreshBecome
<1>9. CASE (Answered(p, d, m) \/ Unanswered(p, t, m)) /\ UNCHANGED <<comments, topics>>
  BY <1>2, <1>5, <1>7, <1>9, FreshCommitted
<1>10. ASSUME NEW s, DeleteTopicCascade(s), ThenStep(p, c, "insert", d), Abandon(Discussed(s) \cup U)
       PROVE  FreshAfterWrites'
  <2> DEFINE n == Discussed(s) \cup U
  <2>1. PICK r : Become(p, r) /\ r.todo = d
    BY <1>3, <1>10
  <2>2. \A k \in Keys : ViewMoved(k) => k = TopicsKey \/ k \in Discussed(s)
    BY <1>6, <1>10, CascadeMoves
  <2>3. \A k \in Keys : ViewMoved(k) => k \in n \/ k \in Range(r.todo)
    BY <1>2, <2>1, <2>2
  <2>4. \A k \in Range(proc[p].todo) : k \in n \/ k \in Range(r.todo)
    BY <1>2, <2>1
  <2>5. Abandon(n)
    BY <1>10
  <2> HIDE DEF n
  <2> QED BY <1>5, <2>1, <2>3, <2>4, <2>5, FreshBecome
<1>11. \/ ThenStep(p, c, "insert", t) /\ UNCHANGED <<shared, comments, topics>>
       \/ Answered(p, d, m) /\ UNCHANGED <<comments, topics>>
       \/ \E s \in Topics :
            DeleteTopicCascade(s) /\ ThenStep(p, c, "insert", d) /\ Abandon(Discussed(s) \cup U)
       \/ Unanswered(p, t, m) /\ UNCHANGED <<comments, topics>>
  BY <1>1, <1>4 DEF FindTopic, d, U, m
<1> QED BY <1>8, <1>9, <1>10, <1>11

(* Topics, of the topic service and of games.                              *)
LEMMA FreshTopics ==
  ASSUME FreshAfterWrites, TypeInv, NEW p \in Procs, UNCHANGED store,
         CreateTopic(p) \/ EnsureGameTopic(p) \/ InsertTopic(p) \/ DropTopic(p)
  PROVE  FreshAfterWrites' \/ (UNCHANGED <<shared, community>> /\ proc[p].op \notin Deleters)
<1>0. ProcTyped /\ Fits(proc[p])
  BY DEF TypeInv, ProcTyped
<1>1. CASE CreateTopic(p)
  <2>1. PICK a : FindTopic(p, Call("topic", None, None, a))
    BY <1>1 DEF CreateTopic
  <2> DEFINE t == <<>>
             op == "topic"
  <2>2. FindTopic(p, New(op, None, "idle", None, None, a, None, t))
    BY <2>1, CallIs
  <2>3. \A k \in Range(proc[p].todo) : k \in Range(t)
    BY <1>1 DEF CreateTopic, Request, IsIdle, Idle
  <2>4. op = "topic" /\ t = <<>>
    OBVIOUS
  <2> HIDE DEF t, op
  <2> QED BY <2>2, <2>3, <2>4, FreshFinds
<1>2. CASE EnsureGameTopic(p)
  <2>1. At(p, "game", "topic") /\ FindTopic(p, proc[p])
    BY <1>2 DEF EnsureGameTopic
  <2>2. proc[p].held = None /\ proc[p].op = "game"
    BY <1>0, <2>1 DEF Fits, At
  <2>3. PICK V : proc[p] \in Rec(V)
    BY <1>0, ProcIs
  <2>4. proc[p] = New(proc[p].op, proc[p].user, proc[p].step, proc[p].key, proc[p].val, proc[p].arg,
                      proc[p].held, proc[p].todo)
    BY <2>3, RecordIs
  <2>5. FindTopic(p, New(proc[p].op, proc[p].user, proc[p].step, proc[p].key, proc[p].val, proc[p].arg, None,
                         proc[p].todo))
    BY <2>1, <2>2, <2>4
  <2> QED BY <2>2, <2>5, FreshFinds
<1>3. CASE InsertTopic(p)
  <2> DEFINE t == Deletes(proc[p])
             d == proc[p].todo
             U == Unlisted(proc[p])
             m == {}
  <2>1. /\ UNCHANGED <<talk, circle, topicFollows, name>>
        /\ Committed(p, t, U) \/ (Unanswered(p, d, m) /\ UNCHANGED topics)
    BY <1>3 DEF InsertTopic
  <2>2. (TopicsKey \in U \/ TopicsKey \in Range(t)) /\ \A k \in Range(d) : k \in Range(t)
    <3>1. proc[p].op = "game" \/ (proc[p].op = "topic" /\ proc[p].todo \in {<<>>, <<TopicsKey>>})
      BY <1>0, <1>3 DEF InsertTopic, At, Fits
    <3> QED BY <3>1, Deletions
  <2>3. ASSUME NEW k \in Keys, ViewMoved(k)
        PROVE  k = TopicsKey
    <3>1. UNCHANGED <<comments, likeCount, name>> /\ UNCHANGED <<follows, fans, topicFollows, name>>
      BY <2>1 DEF talk, circle
    <3>2. TopicMoved(k)
      BY <2>3, <3>1, CommunityMoved DEF store, library, sales
    <3> QED BY <3>2 DEF TopicMoved
  <2>4. CASE Unanswered(p, d, m) /\ UNCHANGED topics
    <3>1. \A k \in Keys : ~ViewMoved(k)
      BY <2>1, <2>4, NothingMoved DEF store, library, sales, talk, circle
    <3> HIDE DEF m
    <3> QED BY <1>0, <2>4, <3>1, FreshCommitted
  <2> HIDE DEF t, d, U, m
  <2>5. CASE Committed(p, t, U)
    <3>1. \A k \in Keys : ViewMoved(k) => k \in U \/ k \in Range(t)
      BY <2>2, <2>3
    <3>2. \A k \in Range(proc[p].todo) : k \in Range(t)
      BY <2>2 DEF d
    <3> QED BY <1>0, <2>5, <3>1, <3>2, FreshCommitted
  <2> QED BY <2>1, <2>4, <2>5
<1>4. CASE DropTopic(p)
  <2> DEFINE t == <<TopicsKey>>
             s == proc[p].key
             m == Discussed(s)
  <2>1. proc[p].op \notin Deleters
    BY <1>4 DEF DropTopic, At, Deleters
  <2>2. CASE Refused(p)
    BY <2>1, <2>2 DEF Refused
  <2>3. CASE /\ DeleteTopicCascade(s) /\ Committed(p, t, m)
             /\ UNCHANGED <<likeCount, likes, worker, circle, topicFollows, name, miscounted>>
    <3>1. \A k \in Keys : ViewMoved(k) => k = TopicsKey \/ k \in m
      BY <2>3, CascadeMoves
    <3>2. Range(t) = {TopicsKey}
      BY Ranges
    <3> HIDE DEF t, m
    <3> QED BY <1>0, <2>1, <2>3, <3>1, <3>2, FreshWritten
  <2> QED BY <1>4, <2>2, <2>3 DEF DropTopic
<1> QED BY <1>1, <1>2, <1>3, <1>4

(* The topics that a user follows, and the name of a user.                 *)
LEMMA FreshOwn ==
  ASSUME FreshAfterWrites, TypeInv, NEW p \in Procs, UNCHANGED store,
         CreateTopicFollow(p) \/ UnfollowTopic(p) \/ SaveUser(p)
  PROVE  FreshAfterWrites' \/ UNCHANGED <<shared, community>>
<1>0. ProcTyped /\ \E V : name \in [Users -> V]
  BY DEF TypeInv, CommunityTypeOK
<1>1. proc[p].op \notin Deleters
  BY DEF CreateTopicFollow, UnfollowTopic, SaveUser, Request, IsIdle, Idle, At, Deleters
<1>2. ASSUME NEW u, NEW T, \A v : v # u => \A x : <<v, x>> \in T <=> <<v, x>> \in topicFollows, SetTopicFollow(p, u, T)
      PROVE  FreshAfterWrites' \/ UNCHANGED <<shared, community>>
  <2>1. CASE Refused(p)
    BY <2>1 DEF Refused
  <2>2. CASE /\ topicFollows' = T /\ Committed(p, <<FollowedKey(u)>>, {})
             /\ UNCHANGED <<talk, worker, circle, topics, name, miscounted>>
    <3>1. ASSUME NEW k \in Keys, ViewMoved(k) PROVE k = FollowedKey(u)
      <4>1. CircleMoved(k)
        BY <2>2, <3>1, CommunityMoved DEF store, library, sales, talk
      <4>2. UNCHANGED <<follows, fans, name>>
        BY <2>2 DEF circle
      <4>3. PICK v \in Users : k = FollowedKey(v) /\ \E x \in Topics : ~(<<v, x>> \in T <=> <<v, x>> \in topicFollows)
        BY <2>2, <4>1, <4>2 DEF CircleMoved
      <4> QED BY <1>2, <4>3
    <3> DEFINE t == <<FollowedKey(u)>>
               m == {}
    <3>2. Range(t) = {FollowedKey(u)} /\ Committed(p, t, m)
      BY <2>2, Ranges
    <3> HIDE DEF t, m
    <3> QED BY <1>0, <1>1, <3>1, <3>2, FreshWritten
  <2> QED BY <1>2, <2>1, <2>2 DEF SetTopicFollow
<1>3. CASE CreateTopicFollow(p)
  <2> DEFINE u == proc[p].user
             T == topicFollows \cup {<<u, proc[p].key>>}
  <2>1. SetTopicFollow(p, u, T)
    BY <1>3 DEF CreateTopicFollow
  <2>2. \A v : v # u => \A x : <<v, x>> \in T <=> <<v, x>> \in topicFollows
    OBVIOUS
  <2> HIDE DEF u, T
  <2> QED BY <1>2, <2>1, <2>2
<1>4. CASE UnfollowTopic(p)
  <2>1. PICK u \in Users, x \in Topics : SetTopicFollow(p, u, topicFollows \ {<<u, x>>})
    BY <1>4 DEF UnfollowTopic
  <2> DEFINE T == topicFollows \ {<<u, x>>}
  <2>2. \A v : v # u => \A y : <<v, y>> \in T <=> <<v, y>> \in topicFollows
    OBVIOUS
  <2>3. SetTopicFollow(p, u, T)
    BY <2>1
  <2> HIDE DEF T
  <2> QED BY <1>2, <2>2, <2>3
<1>5. CASE SaveUser(p)
  <2> DEFINE u == proc[p].user
             t == <<>>
             m == {UserKey(u)} \cup CommentLists
  <2>1. CASE Refused(p)
    BY <2>1 DEF Refused
  <2>2. CASE /\ name' = [name EXCEPT ![u] = proc[p].arg] /\ Answered(p, t, m)
             /\ UNCHANGED <<talk, worker, circle, topics, topicFollows, miscounted>>
    <3>1. \A v \in Users : v # u => name'[v] = name[v]
      BY <1>0, <2>2
    <3>2. ASSUME NEW k \in Keys, ViewMoved(k) PROVE k \in m
      <4>1. CommentMoved(k) \/ CircleMoved(k)
        BY <2>2, <3>2, CommunityMoved DEF store, library, sales
      <4>2. UNCHANGED <<comments, likeCount, follows, fans, topicFollows>>
        BY <2>2 DEF talk, circle
      <4>3. k \in CommentLists \/ \E v \in Users : k = UserKey(v) /\ name'[v] # name[v]
        BY <4>1, <4>2 DEF CommentMoved, CircleMoved
      <4> QED BY <3>1, <4>3
    <3>3. Answered(p, t, m)
      BY <2>2
    <3> HIDE DEF t, m
    <3> QED BY <1>0, <1>1, <3>2, <3>3, FreshWritten
  <2> QED BY <1>5, <2>1, <2>2 DEF SaveUser
<1> QED BY <1>3, <1>4, <1>5

(* A change of the user deletes the entry before it begins.                *)
LEMMA FreshUser ==
  ASSUME FreshAfterWrites, TypeInv, NEW p \in Procs, UNCHANGED store, UpdateUser(p)
  PROVE  FreshAfterWrites' \/ UNCHANGED <<shared, community>>
<1>1. PICK u \in Users : \/ cache' = [cache EXCEPT ![UserKey(u)] = None] /\ stale' = stale \ {UserKey(u)}
                         \/ UNCHANGED shared
  BY Zenon DEF UpdateUser
<1>2. UNCHANGED community
  BY DEF UpdateUser
<1>3. CASE cache' = [cache EXCEPT ![UserKey(u)] = None] /\ stale' = stale \ {UserKey(u)}
  <2> DEFINE e == UserKey(u)
             v == None
  <2>1. e \in Keys
    BY KeyFacts
  <2>2. \A k \in Keys : ~ViewMoved(k)
    BY <1>2, NothingMoved DEF store, library, sales, community, talk, circle, rest
  <2>3. \A q \in Procs : \A k \in Range(proc[q].todo) : k \in Range(proc'[q].todo)
    <3>1. \E r : Become(p, r)
      BY Zenon DEF UpdateUser
    <3>2. \A q \in Procs : q # p => proc'[q] = proc[q]
      BY <3>1 DEF Become, TypeInv, ProcTyped
    <3>3. Range(proc[p].todo) = {}
      BY Ranges DEF UpdateUser, Request, IsIdle, Idle
    <3> QED BY <3>2, <3>3
  <2>4. cache' = [cache EXCEPT ![e] = v] /\ stale' = stale \ {e} /\ v = None
    BY <1>3
  <2> HIDE DEF e, v
  <2> QED BY <2>1, <2>2, <2>3, <2>4, FreshEntry DEF TypeInv
<1> QED BY <1>1, <1>2, <1>3

(* Every step of the community.                                            *)
LEMMA FreshCommunity ==
  ASSUME FreshAfterWrites, TypeInv, UncommentInv, NEW p \in Procs, CommunityStep(p), UNCHANGED store
  PROVE  FreshAfterWrites'
<1>1. CASE proc[p].op \notin Deleters /\ UNCHANGED <<shared, Shown>>
  BY <1>1, FreshCommunityQuiet
<1>2. CASE proc[p].op \notin Deleters /\ UNCHANGED <<shared, community>>
  BY <1>1, <1>2 DEF Shown, community, talk, circle, rest
<1>3. CASE CreateFollow(p) \/ IncrementFollowingCount(p)
  BY <1>1, <1>3, FreshFollows
<1>4. CASE CreateTopic(p) \/ EnsureGameTopic(p) \/ InsertTopic(p) \/ DropTopic(p)
  BY <1>2, <1>4, FreshTopics
<1>5. CASE ~(IncrementFollowingCount(p) \/ EnsureGameTopic(p) \/ InsertTopic(p))
  <2>1. proc[p].op \notin Deleters
    BY <1>5, CommunityHasNone
  <2>2. CASE CreateComment(p) \/ DeleteCommentByID(p)
    BY <1>2, <2>1, <2>2, FreshComments
  <2>3. CASE CreateTopicFollow(p) \/ UnfollowTopic(p) \/ SaveUser(p)
    BY <1>2, <2>1, <2>3, FreshOwn
  <2>4. CASE UpdateUser(p)
    BY <1>2, <2>1, <2>4, FreshUser
  <2>5. CASE LikeComment(p) \/ IncrStats(p) \/ PublishCommentAction(p)
    BY <1>1, <2>1, <2>5 DEF LikeComment, IncrStats, PublishCommentAction, Shown, talk, circle, rest
  <2>6. CASE \/ GetArticleComment(p) \/ GetMyCYList(p) \/ ListActiveTopics(p)
             \/ ListFollowedTopics(p) \/ GetSocialStats(p) \/ GetUserBase(p)
    BY <1>2, <2>1, <2>6 DEF GetArticleComment, GetMyCYList, ListActiveTopics, ListFollowedTopics, GetSocialStats,
                            GetUserBase, Ask, Read
  <2>7. CASE DeleteComment(p) \/ DeleteTemporaryTopic(p) \/ FollowTopic(p) \/ Login(p)
    BY <1>2, <2>1, <2>7 DEF DeleteComment, DeleteTemporaryTopic, FollowTopic, Login
  <2> QED BY <1>3, <1>4, <2>2, <2>3, <2>4, <2>5, <2>6, <2>7 DEF CommunityStep
<1> QED BY <1>3, <1>4, <1>5

(* The deletions to come are kept, and nothing else changes.               *)
LEMMA FreshKept ==
  ASSUME FreshAfterWrites, UNCHANGED shared, \A k \in Keys : ~ViewMoved(k),
         \A q \in Procs : \A k \in Range(proc[q].todo) : k \in Range(proc'[q].todo)
  PROVE  FreshAfterWrites'
<1> DEFINE m == {}
<1>1. Abandon(m)
  BY NoneAbandoned
<1>2. \A k : k \notin m
  OBVIOUS
<1> HIDE DEF m
<1> QED BY <1>1, <1>2, FreshAbandoned

(* The entries of a list are its head and those of its tail.               *)
LEMMA HeadOrRest ==
  ASSUME NEW t \in Seq(Keys), t # <<>>
  PROVE  /\ Head(t) \in Keys /\ \A k \in Range(t) : k \in Keys
         /\ \A k \in Range(t) : k = Head(t) \/ (Len(t) # 1 /\ k \in Range(Tail(t)))
<1> SUFFICES ASSUME NEW k \in Range(t)
             PROVE  /\ Head(t) \in Keys /\ k \in Keys
                    /\ k = Head(t) \/ (Len(t) # 1 /\ k \in Range(Tail(t)))
  BY RestOf
<1>1. PICK i \in 1..Len(t) : k = t[i]
  BY DEF Range
<1>2. CASE i = 1
  BY <1>1, <1>2
<1>3. CASE i # 1
  <2>1. i - 1 \in 1..Len(Tail(t)) /\ Tail(t)[i - 1] = t[i]
    BY <1>1, <1>3
  <2>2. DOMAIN Tail(t) = 1..Len(Tail(t))
    BY RestOf
  <2>3. k \in Range(Tail(t))
    BY <1>1, <2>1, <2>2 DEF Range
  <2> QED BY <1>1, <1>3, <2>3
<1> QED BY <1>2, <1>3

(* What carries the data: a fill is right or stale, a deletion is done or  *)
(* given up.                                                               *)
LEMMA FreshData ==
  ASSUME FreshAfterWrites, TypeInv, NEW p \in Procs, Data(p), UNCHANGED <<store, community>>
  PROVE  FreshAfterWrites'
<1>0. ProcTyped /\ CacheTyped /\ Fits(proc[p])
  BY DEF TypeInv, ProcTyped
<1>1. \A k \in Keys : ~ViewMoved(k)
  BY NothingMoved DEF store, library, sales, community, talk, circle, rest
<1>2. \A q \in Procs : q # p => proc'[q] = proc[q]
  BY <1>0, DataMoves
<1>3. ASSUME proc[p].step \in {"load", "fill"}
      PROVE  \A q \in Procs : \A k \in Range(proc[q].todo) : k \in Range(proc'[q].todo)
  <2>1. Range(proc[p].todo) = {}
    BY <1>0, <1>3, Ranges DEF Fits
  <2> QED BY <1>2, <2>1
<1> DEFINE now == View(proc[p].key)
<1>4. CASE Load(p, now)
  <2>1. UNCHANGED shared /\ proc[p].step = "load"
    BY <1>4 DEF Load
  <2> QED BY <1>1, <1>3, <2>1, FreshKept
<1>5. CASE Fill(p, now)
  <2>1. proc[p].step = "fill"
    BY <1>5 DEF Fill
  <2>2. PICK e, v : e \in Keys /\ e = proc[p].key /\ v = proc[p].val /\ v # None /\ now = View(e)
    BY <1>0, <2>1 DEF Fits, Right
  <2>3. CASE UNCHANGED shared
    BY <1>1, <1>3, <2>1, <2>3, FreshKept
  <2> HIDE DEF now
  <2>4. CASE /\ cache' = [cache EXCEPT ![e] = v]
             /\ stale' = IF v = now THEN stale \ {e} ELSE stale \cup {e}
    <3>1. v = now => v = View(e)'
      BY <1>1, <2>2 DEF ViewMoved
    <3>2. \/ stale' = stale \ {e} /\ (v = None \/ v = View(e)')
          \/ stale' = stale \cup {e}
      BY <2>4, <3>1
    <3>3. cache' = [cache EXCEPT ![e] = v]
      BY <2>4
    <3>4. \A q \in Procs : \A k \in Range(proc[q].todo) : k = e \/ k \in Range(proc'[q].todo)
      BY <1>3, <2>1
    <3>5. e \in Keys
      BY <2>2
    <3> QED BY <1>0, <1>1, <3>2, <3>3, <3>4, <3>5, FreshEntry
  <2> QED BY <1>5, <2>2, <2>3, <2>4 DEF Fill
<1>6. CASE Del(p)
  <2> DEFINE t == proc[p].todo
             e == Head(t)
  <2>1. t \in Seq(Keys) /\ t # <<>>
    BY <1>0, <1>6 DEF Del, Fits
  <2>2. /\ e \in Keys
        /\ \A k \in Range(t) : k = e \/ (Len(t) # 1 /\ k \in Range(Tail(t)))
    BY <2>1, HeadOrRest
  <2>3. \A k \in Range(t) : k = e \/ k \in Range(proc'[p].todo)
    <3>1. CASE Len(t) = 1
      BY <2>2, <3>1
    <3>2. CASE Len(t) # 1
      <4>1. PICK V : proc[p] \in Rec(V) /\ proc \in [Procs -> Rec(V)]
        BY <1>0, ProcIs
      <4>2. proc' = [proc EXCEPT ![p].todo = Tail(t)]
        BY <1>6, <3>2 DEF Del
      <4>3. proc'[p].todo = Tail(t)
        BY <4>1, <4>2 DEF Rec
      <4> QED BY <2>2, <4>3
    <3> QED BY <3>1, <3>2
  <2>4. \A q \in Procs : \A k \in Range(proc[q].todo) : k = e \/ k \in Range(proc'[q].todo)
    BY <1>2, <2>3
  <2>5. \/ cache' = [cache EXCEPT ![e] = None] /\ stale' = stale \ {e}
        \/ Abandon({e})
    BY <1>6 DEF Del
  <2> HIDE DEF t, e
  <2>6. CASE cache' = [cache EXCEPT ![e] = None] /\ stale' = stale \ {e}
    <3> DEFINE v == None
    <3>1. cache' = [cache EXCEPT ![e] = v] /\ stale' = stale \ {e} /\ v = None
      BY <2>6
    <3> HIDE DEF v
    <3> QED BY <1>0, <1>1, <2>2, <2>4, <3>1, FreshEntry
  <2>7. CASE Abandon({e})
    <3> DEFINE m == {e}
    <3>1. Abandon(m) /\ \A k : k \in m <=> k = e
      BY <2>7
    <3> HIDE DEF m
    <3> QED BY <1>1, <2>4, <3>1, FreshAbandoned
  <2> QED BY <2>5, <2>6, <2>7
<1> QED BY <1>4, <1>5, <1>6 DEF Data

(* An entry that expires is gone.                                          *)
LEMMA FreshExpired ==
  ASSUME FreshAfterWrites, TypeInv, NEW e \in Keys, Expire(e), UNCHANGED <<store, community>>
  PROVE  FreshAfterWrites'
<1> DEFINE v == None
<1>1. cache' = [cache EXCEPT ![e] = v] /\ stale' = stale \ {e} /\ v = None /\ UNCHANGED proc
  BY DEF Expire
<1>2. \A k \in Keys : ~ViewMoved(k)
  BY NothingMoved DEF store, library, sales, community, talk, circle, rest
<1> HIDE DEF v
<1> QED BY <1>1, <1>2, FreshEntry DEF TypeInv

(* A topic is listed until it is cleaned up, whether it has expired or not.*)
LEMMA ExpiredListed ==
  ASSUME TypeInv, TopicExpires
  PROVE  GetActiveTopicsPaged' = GetActiveTopicsPaged
<1>1. PICK t \in Topics : Active(t) /\ topics' = [topics EXCEPT ![t].expired = TRUE]
  BY DEF TopicExpires
<1> DEFINE T == [temporary : BOOLEAN, expired : BOOLEAN]
<1>2. topics[t] \in T /\ topics \in [Topics -> {None, Gone} \cup T]
  BY <1>1 DEF Active, Live, TypeInv, CommunityTypeOK
<1>3. topics'[t] \in T /\ topics'[t].temporary = topics[t].temporary
  BY <1>1, <1>2
<1>4. Live(topics[t]) /\ Live(topics'[t])
  BY <1>2, <1>3, CommunityAssumption DEF Live
<1>5. \A s \in Topics : s # t => topics'[s] = topics[s]
  BY <1>1, <1>2
<1> DEFINE A == {s \in Topics : Live(topics[s])}
           B == {s \in Topics : Live(topics'[s])}
<1>6. A = B /\ \A s \in A : topics'[s].temporary = topics[s].temporary
  BY <1>3, <1>4, <1>5
<1>7. GetActiveTopicsPaged = {<<s, topics[s].temporary>> : s \in A}
  BY DEF GetActiveTopicsPaged
<1>8. GetActiveTopicsPaged' = {<<s, topics'[s].temporary>> : s \in B}
  BY DEF GetActiveTopicsPaged, Live
<1> HIDE DEF A, B
<1> QED BY <1>6, <1>7, <1>8

(* The workers delete nothing: what a flush or a cleanup changes carries   *)
(* no promise.                                                             *)
LEMMA FreshWorker ==
  ASSUME FreshAfterWrites, TypeInv, Worker, UNCHANGED store
  PROVE  FreshAfterWrites'
<1>0. UNCHANGED <<proc, circle, topicFollows, name>>
  BY DEF Worker, HandleMessage, Flush, BatchIncrementCommentStats, EndFlush, TopicExpires,
         CleanupExpiredTemporaryTopics, served, rest
<1>1. CASE UNCHANGED <<shared, comments, likeCount, topics>>
  <2>1. \A k \in Keys : ~ViewMoved(k)
    BY <1>0, <1>1, NothingMoved DEF store, library, sales, circle
  <2> QED BY <1>0, <1>1, <2>1, FreshKept
<1>2. CASE HandleMessage \/ Flush \/ EndFlush
  BY <1>1, <1>2 DEF HandleMessage, Flush, EndFlush, served, talk, rest
<1>3. CASE BatchIncrementCommentStats
  <2>0. UNCHANGED <<comments, topics>>
    BY <1>3 DEF BatchIncrementCommentStats, rest
  <2>1. CASE Abandon(CommentLists)
    <3>1. ASSUME NEW k \in Keys, ViewMoved(k) PROVE k \in CommentLists
      <4>1. CommentMoved(k)
        BY <1>0, <2>0, <3>1, CommunityMoved DEF store, library, sales, circle
      <4> QED BY <1>0, <2>0, <4>1 DEF CommentMoved
    <3> QED BY <1>0, <2>1, <3>1, FreshAbandoned
  <2>2. Abandon(CommentLists) \/ UNCHANGED <<shared, likeCount>>
    BY <1>3, Zenon DEF BatchIncrementCommentStats
  <2> QED BY <1>1, <2>0, <2>1, <2>2
<1>4. CASE TopicExpires
  <2>1. UNCHANGED <<shared, comments, likeCount>>
    BY <1>4 DEF TopicExpires, served, talk
  <2>2. \A k \in Keys : ~ViewMoved(k)
    BY <1>0, <1>4, <2>1, CommunityMoved, ExpiredListed DEF store, library, sales, circle, TopicMoved
  <2> QED BY <1>0, <2>1, <2>2, FreshKept
<1>5. CASE CleanupExpiredTemporaryTopics
  <2>1. PICK t : DeleteTopicCascade(t) /\ Abandon({TopicsKey} \cup Discussed(t)) /\ UNCHANGED likeCount
    BY <1>5 DEF CleanupExpiredTemporaryTopics
  <2> DEFINE m == {TopicsKey} \cup Discussed(t)
  <2>2. ASSUME NEW k \in Keys, ViewMoved(k) PROVE k \in m
    BY <1>0, <2>1, <2>2, CascadeMoves
  <2>3. Abandon(m)
    BY <2>1
  <2> HIDE DEF m
  <2> QED BY <1>0, <2>2, <2>3, FreshAbandoned
<1> QED BY <1>2, <1>3, <1>4, <1>5 DEF Worker

(* A restart gives up what the calls were still to delete.                 *)
LEMMA FreshRestart ==
  ASSUME FreshAfterWrites, TypeInv, Restart
  PROVE  FreshAfterWrites'
<1> DEFINE S == {k \in Keys : Pending(k)}
<1>1. Abandon(S)
  BY DEF Restart, Crash
<1>2. \A k \in Keys : ~ViewMoved(k)
  BY NothingMoved DEF Restart, LoseCounts, library, talk, circle, rest
<1>3. \A q \in Procs : \A k \in Range(proc[q].todo) : k \in S
  <2> SUFFICES ASSUME NEW q \in Procs, NEW k \in Range(proc[q].todo) PROVE k \in S
    OBVIOUS
  <2>1. proc[q].todo \in Seq(Keys)
    BY DEF TypeInv, ProcTyped, Fits
  <2>2. k \in Keys
    BY <2>1 DEF Range
  <2> QED BY <2>2 DEF Pending
<1> HIDE DEF S
<1> QED BY <1>1, <1>2, <1>3, FreshAbandoned

(* FreshAfterWrites with what its writes rely on.                          *)
FreshInv == FreshAfterWrites /\ RemarkInv /\ UncommentInv

(* Redis is empty when the process starts.                                 *)
LEMMA FreshInit == Init => FreshInv
<1> SUFFICES ASSUME Init PROVE FreshInv
  OBVIOUS
<1>1. \A k \in Keys : cache[k] = None
  BY DEF Init
<1>2. \A p \in Procs : proc[p].op = "none"
  BY DEF Init, Idle
<1> QED BY <1>1, <1>2 DEF FreshInv, FreshAfterWrites, RemarkInv, UncommentInv

(* Every step.                                                             *)
LEMMA FreshNext == TypeInv /\ FreshInv /\ [Next]_vars => FreshInv'
<1> SUFFICES ASSUME TypeInv, FreshInv, [Next]_vars PROVE FreshInv'
  OBVIOUS
<1>1. RemarkInv' /\ UncommentInv'
  BY HandsNext DEF FreshInv
<1>2. FreshAfterWrites /\ RemarkInv /\ UncommentInv
  BY DEF FreshInv
<1>3. ASSUME NEW p \in Procs, StoreStep(p), UNCHANGED community
      PROVE  FreshAfterWrites'
  BY <1>2, <1>3, FreshStore
<1>4. ASSUME NEW p \in Procs, CommunityStep(p), UNCHANGED store
      PROVE  FreshAfterWrites'
  BY <1>2, <1>4, FreshCommunity
<1>5. ASSUME NEW p \in Procs, Data(p), UNCHANGED <<store, community>>
      PROVE  FreshAfterWrites'
  BY <1>2, <1>5, FreshData
<1>6. ASSUME NEW k \in Keys, Expire(k), UNCHANGED <<store, community>>
      PROVE  FreshAfterWrites'
  BY <1>2, <1>6, FreshExpired
<1>7. ASSUME Worker, UNCHANGED store PROVE FreshAfterWrites'
  BY <1>2, <1>7, FreshWorker
<1>8. ASSUME Restart PROVE FreshAfterWrites'
  BY <1>2, <1>8, FreshRestart
<1>9. ASSUME UNCHANGED vars PROVE FreshAfterWrites'
  <2>1. \A k \in Keys : ~ViewMoved(k)
    BY <1>9, NothingMoved DEF vars, store, library, sales, community, talk, circle, rest
  <2> QED BY <1>2, <1>9, <2>1, FreshKept DEF vars, served
<1> QED BY <1>1, <1>3, <1>4, <1>5, <1>6, <1>7, <1>8, <1>9 DEF Next, FreshInv

(* Site's FreshAfterWrites: in every interleaving of reads, writes,        *)
(* workers, expiries, failures and restarts, an entry that differs from    *)
(* what MySQL answers is still to be deleted or is one of those for which  *)
(* the code makes no promise.                                              *)
THEOREM FreshAfterWritesHolds == Spec => []FreshAfterWrites
<1>1. FreshInv => FreshAfterWrites
  BY DEF FreshInv
<1> QED BY <1>1, FreshInit, FreshNext, TypeAlways, PTL DEF Spec

=============================================================================
