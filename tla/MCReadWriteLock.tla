--------------------------- MODULE MCReadWriteLock ---------------------------
(***************************************************************************)
(* Three threads, who use all operations of the lock: the least number for *)
(* which an upgrading weak writer, a plain writer and a reader meet.  The  *)
(* runs check liveness, so symmetry is not used.                           *)
(***************************************************************************)
EXTENDS ReadWriteLock

CONSTANTS t1, t2, t3

MCThreads == {t1, t2, t3}

MCOps == {"read", "weak", "write"}
=============================================================================
