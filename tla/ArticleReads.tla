---------------------------- MODULE ArticleReads ----------------------------
(***************************************************************************)
(* How articles are read: one by one through the caches, as lists through  *)
(* the caches, and page by page.  They share neither keys nor calls, and   *)
(* what they read of the articles is told apart by version, by age and by  *)
(* row: a behaviour shows one of them at work.                             *)
(***************************************************************************)
EXTENDS ArticleCache, ListCache, ArticleListing

VARIABLE part

Parts == {"articles", "lists", "pages"}

readVars == <<vars, listVars, scanVars, part>>

ReadInit == Init /\ ListInit /\ ScanInit /\ part \in Parts

ReadNext ==
    /\ UNCHANGED part
    /\ \/ part = "articles" /\ Next /\ UNCHANGED <<listVars, scanVars>>
       \/ part = "lists" /\ ListNext /\ UNCHANGED <<vars, scanVars>>
       \/ part = "pages" /\ ScanNext /\ UNCHANGED <<vars, listVars>>

ReadSpec == ReadInit /\ [][ReadNext]_readVars
=============================================================================
