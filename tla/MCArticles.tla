----------------------------- MODULE MCArticles -----------------------------
(* Instances of Articles for TLC; the model values are in the cfg.         *)
EXTENDS Articles
=============================================================================
