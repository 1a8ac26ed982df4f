--------------------------- MODULE MCCachedTarget ---------------------------
(* Small instance of CachedTarget for TLC. *)
EXTENDS CachedTarget

CONSTANTS c1, c2

CacheBudget ==
  [k \in Kinds |-> CASE k = "store" -> 2 [] k = "annotation" -> 1 [] OTHER -> 1]
=============================================================================
