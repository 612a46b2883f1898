---------------------------- MODULE MCArticleOrder ----------------------------
(* ArticleOrder on a section of three articles.                               *)
EXTENDS ArticleOrder

CONSTANTS a, b, c

MCAutoOrder == <<c, a, b>>
=============================================================================
