----------------------------- MODULE MCLockTable -----------------------------
(* A root, a document and room for one new object, which becomes a folder  *)
(* or, once its upload is committed, an exact file.                        *)
EXTENDS LockTable, TLC

CONSTANTS root, doc, new, l1, l2, l3, h1, h2

MCObject == {root, doc, new}
MCRemote == (doc :> "document")
MCLock == {l1, l2, l3}
MCHandle == {h1, h2}
Symmetry == Permutations(MCLock) \cup Permutations(MCHandle)
=============================================================================
