----------------------------- MODULE Community ------------------------------
(***************************************************************************)
(* Comments on an article and the places its readers mark (CY comments),   *)
(* with their likes; follows between users; topics and who follows them;   *)
(* the name of a user.  Reads and the entries in Redis follow ReadThrough. *)
(*                                                                         *)
(* A like is counted in three places: its row, a message in NSQ, and the   *)
(* buffer of CommentStatsWorker, which adds its sums to like_count.  A     *)
(* follow is counted in the row of the follower's target.  All topics of   *)
(* the model have the one name, which is unique, the topic of a game too.  *)
(***************************************************************************)
EXTENDS ReadThrough

CONSTANTS
  Comments, Topics, Names,
  Home,             \* the topic the article lies in where a behaviour offers to delete it
  NsqFaults         \* a publish may fail, a message may come twice

ASSUME CommunityAssumption ==
  /\ Comments \subseteq Nat /\ Topics \subseteq Nat /\ NsqFaults \in BOOLEAN
  /\ None \notin [sums : [Comments -> Int], stored : BOOLEAN]
  /\ None \notin [temporary : BOOLEAN, expired : BOOLEAN] /\ Gone \notin [temporary : BOOLEAN, expired : BOOLEAN]

VARIABLES
  comments,         \* table comments: author, whether it is a CY
  likeCount,        \* its column like_count, unsigned
  likes,            \* table comment_likes: <<user, comment>>
  sent,             \* NSQ topic comment_stats: messages by comment and direction
  likeBuffer, flushing,   \* CommentStatsWorker, and the copy a flush has taken
  follows,          \* table follows: <<follower, following>>
  fans,             \* users.following_count: the followers of the user
  topics, topicFollows, name,
  miscounted        \* history: comments and users a failure or a repeated message gave another count

talk   == <<comments, likeCount, likes>>
worker == <<sent, likeBuffer, flushing>>
circle == <<follows, fans>>
rest   == <<topics, topicFollows, name>>
community == <<talk, worker, circle, rest, miscounted>>

-----------------------------------------------------------------------------
CommentsKey    == <<"comments", Everyone>>
CYKey(u)       == <<"cy", u>>
TopicsKey      == <<"topics", Everyone>>
FollowedKey(u) == <<"followed", u>>
SocialKey(u)   == <<"social", u>>
UserKey(u)     == <<"user", u>>
CommentLists   == {CommentsKey} \cup {CYKey(u) : u \in Users}
CommunityKeys  == CommentLists \cup {TopicsKey} \cup {FollowedKey(u) : u \in Users}
                  \cup {SocialKey(u) : u \in Users} \cup {UserKey(u) : u \in Users}

(* A comment is listed with its likes and its author's name; a topic until *)
(* it is cleaned up, expired or not.                                       *)
Listed(S) == {<<c, likeCount[c], name[comments[c].user]>> : c \in S}
LoadCommentByArticleID == Listed({c \in Comments : Live(comments[c])})
ListCYByUserID(u) == Listed({c \in Comments : Live(comments[c]) /\ comments[c].cy /\ comments[c].user = u})
GetActiveTopicsPaged == {<<t, topics[t].temporary>> : t \in {s \in Topics : Live(topics[s])}}
ListTopicFollowByUser(u) == {t \in Topics : <<u, t>> \in topicFollows}
LoadSocialStatsFromDB(u) == <<Cardinality({v \in Users : <<u, v>> \in follows}), fans[u]>>

CommunityView(k) ==
  CASE k[1] = "comments" -> LoadCommentByArticleID
    [] k[1] = "cy"       -> ListCYByUserID(k[2])
    [] k[1] = "topics"   -> GetActiveTopicsPaged
    [] k[1] = "followed" -> ListTopicFollowByUser(k[2])
    [] k[1] = "social"   -> LoadSocialStatsFromDB(k[2])
    [] k[1] = "user"     -> name[k[2]]

CommunityTypeOK ==
  /\ comments \in [Comments -> {None, Gone} \cup [user : Users, cy : BOOLEAN]]
  /\ likeCount \in [Comments -> Nat] /\ likes \subseteq Users \X Comments
  /\ sent \in [Comments \X {1, -1} -> Nat] /\ likeBuffer \in [Comments -> Int]
  /\ flushing = None \/ flushing \in [sums : [Comments -> Int], stored : BOOLEAN]
  /\ follows \subseteq Users \X Users /\ fans \in [Users -> Nat]
  /\ topics \in [Topics -> {None, Gone} \cup [temporary : BOOLEAN, expired : BOOLEAN]]
  /\ topicFollows \subseteq Users \X Topics /\ name \in [Users -> Names]
  /\ miscounted \subseteq Comments \cup Users

(* The article lies in a topic that is not deleted, but for the behaviours *)
(* that comment on it and delete topics: there it is Home, a temporary one.*)
Houses(t) == t = Home /\ {"comment", "untopic"} \subseteq offer

(* The first comment, a CY, is there already in behaviours that like it.   *)
CommunityInit ==
  /\ \E u \in Users :
       comments = [c \in Comments |-> IF "like" \in offer /\ c = 1 THEN [user |-> u, cy |-> TRUE] ELSE None]
  /\ likeCount = [c \in Comments |-> 0] /\ likes = {}
  /\ sent = [m \in Comments \X {1, -1} |-> 0]
  /\ likeBuffer = [c \in Comments |-> 0] /\ flushing = None
  /\ follows = {} /\ fans = [u \in Users |-> 0]
  /\ topics = [t \in Topics |-> IF Houses(t) THEN [temporary |-> TRUE, expired |-> FALSE] ELSE None]
  /\ topicFollows = {}
  /\ \E n \in Names : name = [u \in Users |-> n]
  /\ miscounted = {}

Refused(p) == DbFaults /\ End(p) /\ UNCHANGED <<shared, community>>
Ask(p, what, u, k) == Request(p, what) /\ Read(p, u, k) /\ UNCHANGED community

GetArticleComment(p)    == Ask(p, "readComments", None, CommentsKey)
GetMyCYList(p)          == \E u \in Users : Ask(p, "readComments", u, CYKey(u))
ListActiveTopics(p)     == Ask(p, "readTopics", None, TopicsKey)
ListFollowedTopics(p)   == \E u \in Users : Ask(p, "readTopics", u, FollowedKey(u))
GetSocialStats(p)       == \E u \in Users : Ask(p, "readUsers", u, SocialKey(u))
GetUserBase(p)          == \E u \in Users : Ask(p, "readUsers", u, UserKey(u))

-----------------------------------------------------------------------------
(* Comments.                                                               *)

CreateComment(p) ==
  /\ Request(p, "comment")
  /\ \/ \E c \in Comments, u \in Users, cy \in BOOLEAN :
          /\ Fresh(comments[c]) /\ \A d \in Comments : Fresh(comments[d]) => c <= d
          /\ comments' = [comments EXCEPT ![c] = [user |-> u, cy |-> cy]]
          /\ Committed(p, IF cy THEN <<CYKey(u), CommentsKey>> ELSE <<CommentsKey>>, {})
          /\ UNCHANGED <<likeCount, likes, worker, circle, rest, miscounted>>
     \/ Refused(p)

(* The author is read first; the article of the comment is not read with   *)
(* it, so the lists of the article keep the comment.                       *)
DeleteComment(p) ==
  /\ Request(p, "uncomment")
  /\ \E c \in Comments :
       /\ Live(comments[c])
       /\ Become(p, [Call("uncomment", comments[c].user, c, comments[c].cy) EXCEPT !.step = "use"])
  /\ UNCHANGED <<shared, community>>

DeleteCommentByID(p) ==
  /\ At(p, "uncomment", "use")
  /\ \/ /\ comments' = [comments EXCEPT ![proc[p].key] = Gone]
        /\ Committed(p, IF proc[p].arg THEN <<CYKey(proc[p].user)>> ELSE <<>>, {CommentsKey})
        /\ UNCHANGED <<likeCount, likes, worker, circle, rest, miscounted>>
     \/ Refused(p)
  /\ Going

-----------------------------------------------------------------------------
(* Likes.  The row decides whether anything changes.  What fails after it  *)
(* is answered with an error, and a second try finds the row and does      *)
(* nothing.  The count kept in Redis in between is read by nobody, so only *)
(* its failure is modelled.                                                *)

Miscount(S) == miscounted' = miscounted \cup S

LikeComment(p) ==
  /\ Request(p, "like")
  /\ \E u \in Users, c \in Comments, cancel \in BOOLEAN :
       /\ ~Fresh(comments[c])
       /\ IF cancel <=> <<u, c>> \in likes
          THEN /\ likes' = IF cancel THEN likes \ {<<u, c>>} ELSE likes \cup {<<u, c>>}
               /\ \/ /\ Become(p, [Call("like", u, c, cancel) EXCEPT !.step = "count"])
                     /\ UNCHANGED miscounted
                  \/ DbFaults /\ UNCHANGED proc /\ Miscount({c})
          ELSE UNCHANGED <<proc, likes, miscounted>>
  /\ UNCHANGED <<shared, comments, likeCount, worker, circle, rest>>

IncrStats(p) ==
  /\ At(p, "like", "count")
  /\ \/ Step(p, "publish") /\ UNCHANGED miscounted
     \/ RedisFaults /\ End(p) /\ Miscount({proc[p].key})
  /\ Going /\ UNCHANGED <<shared, talk, worker, circle, rest>>

PublishCommentAction(p) ==
  LET c == proc[p].key IN
  /\ At(p, "like", "publish") /\ End(p)
  /\ \/ /\ sent' = [sent EXCEPT ![<<c, IF proc[p].arg THEN -1 ELSE 1>>] = @ + 1]
        /\ UNCHANGED miscounted
     \/ NsqFaults /\ Miscount({c}) /\ UNCHANGED sent
  /\ Going /\ UNCHANGED <<shared, talk, likeBuffer, flushing, circle, rest>>

(* Messages come in any order; one comes again when its acknowledgement is *)
(* lost (bound: for a comment that counts right).                          *)
HandleMessage ==
  \E c \in Comments, d \in {1, -1} :
    /\ sent[<<c, d>>] > 0
    /\ likeBuffer' = [likeBuffer EXCEPT ![c] = @ + d]
    /\ \/ sent' = [sent EXCEPT ![<<c, d>>] = @ - 1] /\ UNCHANGED miscounted
       \/ NsqFaults /\ c \notin miscounted /\ Miscount({c}) /\ UNCHANGED sent
    /\ UNCHANGED <<served, talk, flushing, circle, rest>>

(* A flush copies the buffer, adds it up in one transaction, and subtracts *)
(* what it added from what is in the buffer by then.                       *)
Flush ==
  /\ flushing = None /\ \E c \in Comments : likeBuffer[c] # 0
  /\ flushing' = [sums |-> likeBuffer, stored |-> FALSE]
  /\ UNCHANGED <<served, talk, sent, likeBuffer, circle, rest, miscounted>>

(* A sum that takes one like_count below zero fails them all, and they are *)
(* kept for the next flush.  The lists that show the counts stay.  A       *)
(* commit that is not answered is repeated (bound: once a comment).        *)
BatchIncrementCommentStats ==
  LET sums == flushing.sums
      added == [c \in Comments |-> IF Live(comments[c]) THEN likeCount[c] + sums[c] ELSE likeCount[c]]
      unsure == {c \in Comments : sums[c] # 0}
  IN
  /\ flushing # None /\ ~flushing.stored
  /\ \/ /\ \A c \in Comments : added[c] >= 0
        /\ likeCount' = added /\ Abandon(CommentLists)
        /\ \/ flushing' = [flushing EXCEPT !.stored = TRUE] /\ UNCHANGED miscounted
           \/ /\ DbFaults /\ unsure \cap miscounted = {}
              /\ Miscount(unsure) /\ flushing' = None
     \/ /\ DbFaults \/ \E c \in Comments : added[c] < 0
        /\ flushing' = None /\ UNCHANGED <<shared, likeCount, miscounted>>
  /\ UNCHANGED <<proc, offer, calls, comments, likes, sent, likeBuffer, circle, rest>>

Cleared(c) == 0
Remaining(c) == likeBuffer[c] - flushing.sums[c]
EndFlush ==
  /\ flushing # None /\ flushing.stored
  /\ likeBuffer' = [c \in Comments |-> Remaining(c)]
  /\ flushing' = None
  /\ UNCHANGED <<served, talk, sent, circle, rest, miscounted>>

(* What the buffer holds that like_count does not.                         *)
Unflushed(c) ==
  likeBuffer[c] - (IF flushing # None /\ flushing.stored THEN flushing.sums[c] ELSE 0)
Sent(c) == sent[<<c, 1>>] - sent[<<c, -1>>]

(* A restart empties the buffer and ends the calls between two counts.     *)
LoseCounts ==
  /\ likeBuffer' = [c \in Comments |-> 0] /\ flushing' = None
  /\ Miscount({c \in Comments : Unflushed(c) # 0} \cup
              {proc[p].key : p \in {q \in Procs : proc[q].op = "like"}} \cup
              {proc[p].key : p \in {q \in Procs : proc[q].op = "follow"}})
  /\ UNCHANGED <<talk, sent, circle, rest>>

-----------------------------------------------------------------------------
(* Follows: a second one is refused by the unique index, whatever became   *)
(* of the count of the first.                                              *)

CreateFollow(p) ==
  /\ Request(p, "follow")
  /\ \E u \in Users : \E v \in Users \ {u} :
       \/ /\ <<u, v>> \notin follows
          /\ follows' = follows \cup {<<u, v>>}
          /\ \/ /\ ThenStep(p, Call("follow", u, v, None), "count", <<SocialKey(u), SocialKey(v)>>)
                /\ UNCHANGED <<shared, miscounted>>
             \/ DbFaults /\ Unanswered(p, <<>>, {SocialKey(u)}) /\ Miscount({v})
       \/ <<u, v>> \in follows /\ UNCHANGED <<proc, shared, follows, miscounted>>
  /\ UNCHANGED <<talk, worker, fans, rest>>

IncrementFollowingCount(p) ==
  LET v == proc[p].key IN
  /\ At(p, "follow", "count")
  /\ \/ /\ fans' = [fans EXCEPT ![v] = @ + 1]
        /\ Committed(p, proc[p].todo, {}) /\ UNCHANGED miscounted
     \/ /\ DbFaults /\ Unanswered(p, proc[p].todo, {})
        /\ Miscount({v}) /\ UNCHANGED fans
  /\ Going /\ UNCHANGED <<talk, worker, follows, rest>>

-----------------------------------------------------------------------------
(* Topics.                                                                 *)

Active(t) == Live(topics[t]) /\ ~topics[t].expired
Expired(t) == Live(topics[t]) /\ topics[t].expired

(* A topic is deleted with the comments of its articles.  No call deletes  *)
(* the cached lists of the comments.                                       *)
DeleteTopicCascade(t) ==
  /\ topics' = [topics EXCEPT ![t] = Gone]
  /\ comments' = IF Houses(t) /\ Live(topics[t])
                 THEN [c \in Comments |-> IF Live(comments[c]) THEN Gone ELSE comments[c]] ELSE comments
Discussed(t) == IF Houses(t) THEN CommentLists ELSE {}

(* Only the topic service deletes the list of topics when it has made one; *)
(* a game deletes what its call has left to delete, the lists of games.    *)
Deletes(call) == IF call.op = "game" THEN call.todo ELSE <<TopicsKey>>
Unlisted(call) == {TopicsKey} \ Range(Deletes(call))

(* A topic of the name that is there is returned; one that has expired is  *)
(* deleted first.                                                          *)
FindTopic(p, call) ==
  /\ \/ /\ \A t \in Topics : ~Live(topics[t])
        /\ ThenStep(p, call, "insert", call.todo) /\ UNCHANGED <<shared, comments, topics>>
     \/ /\ \E t \in Topics : Active(t)
        /\ Answered(p, Deletes(call), {}) /\ UNCHANGED <<comments, topics>>
     \/ \E t \in Topics :
          /\ Expired(t) /\ DeleteTopicCascade(t)
          /\ ThenStep(p, call, "insert", Deletes(call)) /\ Abandon(Discussed(t) \cup Unlisted(call))
     \/ DbFaults /\ Unanswered(p, call.todo, {}) /\ UNCHANGED <<comments, topics>>
  /\ UNCHANGED <<likeCount, likes, worker, circle, topicFollows, name, miscounted>>

CreateTopic(p) ==
  /\ Request(p, "topic")
  /\ \E temporary \in BOOLEAN : FindTopic(p, Call("topic", None, None, temporary))

EnsureGameTopic(p) == At(p, "game", "topic") /\ FindTopic(p, proc[p]) /\ Going

InsertTopic(p) ==
  /\ At(p, "topic", "insert") \/ At(p, "game", "insert")
  /\ \/ /\ \A t \in Topics : ~Live(topics[t])
        /\ \E t \in Topics :
             /\ Fresh(topics[t]) /\ \A s \in Topics : Fresh(topics[s]) => t <= s
             /\ topics' = [topics EXCEPT ![t] = [temporary |-> proc[p].arg, expired |-> FALSE]]
        /\ Committed(p, Deletes(proc[p]), Unlisted(proc[p]))
     \/ /\ DbFaults \/ \E t \in Topics : Live(topics[t])
        /\ Unanswered(p, proc[p].todo, {}) /\ UNCHANGED topics
  /\ Going /\ UNCHANGED <<talk, worker, circle, topicFollows, name, miscounted>>

(* Only a temporary topic that has not expired may be deleted.             *)
DeleteTemporaryTopic(p) ==
  /\ Request(p, "untopic")
  /\ \E t \in Topics :
       /\ Active(t) /\ topics[t].temporary
       /\ Become(p, [Call("untopic", None, t, None) EXCEPT !.step = "use"])
  /\ UNCHANGED <<shared, community>>

DropTopic(p) ==
  /\ At(p, "untopic", "use")
  /\ \/ /\ DeleteTopicCascade(proc[p].key)
        /\ Committed(p, <<TopicsKey>>, Discussed(proc[p].key))
        /\ UNCHANGED <<likeCount, likes, worker, circle, topicFollows, name, miscounted>>
     \/ Refused(p)
  /\ Going

TopicExpires ==
  \E t \in Topics :
    /\ Active(t) /\ topics[t].temporary
    /\ topics' = [topics EXCEPT ![t].expired = TRUE]
    /\ UNCHANGED <<served, talk, worker, circle, topicFollows, name, miscounted>>

(* The cleanup deletes no cached list.                                     *)
CleanupExpiredTemporaryTopics ==
  \E t \in Topics :
    /\ Expired(t) /\ DeleteTopicCascade(t)
    /\ Abandon({TopicsKey} \cup Discussed(t))
    /\ UNCHANGED <<proc, offer, calls, likeCount, likes, worker, circle, topicFollows, name, miscounted>>

FollowTopic(p) ==
  /\ Request(p, "followTopic")
  /\ \E u \in Users, t \in Topics :
       Active(t) /\ Become(p, [Call("followTopic", u, t, None) EXCEPT !.step = "use"])
  /\ UNCHANGED <<shared, community>>

SetTopicFollow(p, u, S) ==
  \/ /\ topicFollows' = S
     /\ Committed(p, <<FollowedKey(u)>>, {})
     /\ UNCHANGED <<talk, worker, circle, topics, name, miscounted>>
  \/ Refused(p)
CreateTopicFollow(p) ==
  /\ At(p, "followTopic", "use") /\ Going
  /\ SetTopicFollow(p, proc[p].user, topicFollows \cup {<<proc[p].user, proc[p].key>>})
UnfollowTopic(p) ==
  /\ Request(p, "unfollowTopic")
  /\ \E u \in Users, t \in Topics : SetTopicFollow(p, u, topicFollows \ {<<u, t>>})

-----------------------------------------------------------------------------
(* Users.  The entry is deleted before the row changes, so a reader in     *)
(* between puts the old one back; a login fills it without asking for it.  *)

UpdateUser(p) ==
  /\ Request(p, "updateUser")
  /\ \E u \in Users, n \in Names :
       /\ Become(p, [Call("updateUser", u, None, n) EXCEPT !.step = "use"])
       /\ \/ /\ cache' = [cache EXCEPT ![UserKey(u)] = None]
             /\ stale' = stale \ {UserKey(u)}
          \/ RedisFaults /\ UNCHANGED shared
  /\ UNCHANGED community

SaveUser(p) ==
  /\ At(p, "updateUser", "use")
  /\ \/ /\ name' = [name EXCEPT ![proc[p].user] = proc[p].arg]
        /\ Answered(p, <<>>, {UserKey(proc[p].user)} \cup CommentLists)
        /\ UNCHANGED <<talk, worker, circle, topics, topicFollows, miscounted>>
     \/ Refused(p)
  /\ Going

Login(p) ==
  /\ Request(p, "login")
  /\ \E u \in Users : Become(p, [Call("read", u, UserKey(u), None) EXCEPT !.step = "load"])
  /\ UNCHANGED <<shared, community>>

-----------------------------------------------------------------------------
CommunityStep(p) ==
  \/ GetArticleComment(p) \/ GetMyCYList(p) \/ ListActiveTopics(p)
  \/ ListFollowedTopics(p) \/ GetSocialStats(p) \/ GetUserBase(p)
  \/ CreateComment(p) \/ DeleteComment(p) \/ DeleteCommentByID(p)
  \/ LikeComment(p) \/ IncrStats(p) \/ PublishCommentAction(p)
  \/ CreateFollow(p) \/ IncrementFollowingCount(p)
  \/ CreateTopic(p) \/ EnsureGameTopic(p) \/ InsertTopic(p) \/ DeleteTemporaryTopic(p) \/ DropTopic(p)
  \/ FollowTopic(p) \/ CreateTopicFollow(p) \/ UnfollowTopic(p)
  \/ UpdateUser(p) \/ SaveUser(p) \/ Login(p)
Worker == HandleMessage \/ Flush \/ BatchIncrementCommentStats \/ EndFlush
          \/ TopicExpires \/ CleanupExpiredTemporaryTopics

-----------------------------------------------------------------------------
(* The likes of a comment that is there are what like_count says and what  *)
(* is on its way to it, in a call, in NSQ or in the buffer, whatever a     *)
(* flush has copied and the queue brings meanwhile; the followers of a     *)
(* user likewise.  Only the failures that miscounted names break this.     *)
InCalls(op, key, cancel) ==
  Cardinality({p \in Procs : proc[p].op = op /\ proc[p].key = key /\ proc[p].arg = cancel})
CountsAgree ==
  /\ \A c \in Comments \ miscounted : Live(comments[c]) =>
       Cardinality({u \in Users : <<u, c>> \in likes}) =
         likeCount[c] + Unflushed(c) + Sent(c) + InCalls("like", c, FALSE) - InCalls("like", c, TRUE)
  /\ \A v \in Users \ miscounted :
       Cardinality({u \in Users : <<u, v>> \in follows}) = fans[v] + InCalls("follow", v, None)
=============================================================================
