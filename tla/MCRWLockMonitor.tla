--------------------------- MODULE MCRWLockMonitor ---------------------------
(* Small instances of RWLockMonitor.                                       *)
EXTENDS RWLockMonitor, TLC

MCSymmetry == Permutations(Thread)
=============================================================================
