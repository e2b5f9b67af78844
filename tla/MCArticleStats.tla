---------------------------- MODULE MCArticleStats ----------------------------
(* Instances of ArticleStats for TLC: one shard holds every article.       *)
EXTENDS ArticleStats, TLC

CONSTANTS s1

MCShardOf  == [a \in Articles |-> s1]
MCSymmetry == Permutations(Clients) \cup Permutations(Users)

=============================================================================
