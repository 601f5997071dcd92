--------------------------- MODULE MCTaskExchange ---------------------------
(* Model values and symmetry for the runs of TaskExchange.                 *)
EXTENDS TaskExchange, TLC

CONSTANTS c1, c2, l1, l2

MCClient == {c1, c2}
MCLock == {l1, l2}
MCOneLock == {l1}
Symmetry == Permutations(MCClient) \cup Permutations(MCLock)
=============================================================================
