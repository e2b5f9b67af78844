------------------------------- MODULE MCSite -------------------------------
(* Instances of Site for TLC: each behaviour mixes some operations.        *)
EXTENDS Site, TLC

MCKeys == StoreKeys \cup CommunityKeys
StoreOffers == {
  {"purchase", "updateGame"}, {"purchase", "readMine"}, {"purchase", "restart", "createGame"},
  {"purchase", "play", "unplay", "readMine"}, {"createGame", "play", "readMine"},
  {"updateGame", "deleteGame", "createGame", "readGames"}, {"play", "updateGame", "readMine"},
  {"createReview", "updateReview", "deleteReview", "deleteGame", "readReviews"},
  {"createReview", "createComment", "updateComment", "deleteComment", "readReviews"},
  {"purchase", "updateGame", "retry"}}
CommunityOffers == {
  {"like", "comment", "restart"}, {"like", "uncomment"}, {"like", "readComments"},
  {"comment", "uncomment", "readComments"}, {"follow", "readUsers", "restart"},
  {"topic", "untopic", "readTopics"}, {"followTopic", "unfollowTopic", "topic", "readTopics"},
  {"comment", "untopic", "readComments"}, {"createGame", "topic", "readTopics"},
  {"updateUser", "login", "readUsers"}, {"updateUser", "comment", "readComments"}}
MCOffers == StoreOffers \cup CommunityOffers
RetryOffers == {{"purchase", "updateGame", "retry"}}
Symmetry == Permutations(Users)
=============================================================================
