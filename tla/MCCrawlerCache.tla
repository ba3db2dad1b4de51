--------------------------- MODULE MCCrawlerCache ---------------------------
(***************************************************************************)
(* Small instances of CrawlerCache for TLC.                                *)
(***************************************************************************)
EXTENDS CrawlerCache, TLC

CONSTANTS job1, job2

\* A unit is a third of a day; the container's clock is nine hours behind.
Ttls == [client \in Clients |-> CASE client = "lunch"       -> 21
                                  [] client = "restaurants" -> 3
                                  [] OTHER                  -> 2]

Symmetry == Permutations(Callers)
=============================================================================
