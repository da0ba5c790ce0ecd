----------------------------- MODULE RWLockSpec -----------------------------
(***************************************************************************)
(* What multithreading::ReadWriteLock promises its users, with no mutex,   *)
(* no counters and no condition variables: threads read together, a weak   *)
(* writer tolerates readers but no other weak or strong writer, a strong   *)
(* writer tolerates nobody, and a weak writer can become a strong one      *)
(* without letting go in between.                                          *)
(***************************************************************************)
CONSTANT Threads

VARIABLE mode   \* what each thread holds

Modes == {"free", "read", "weak", "write"}

NobodyIs(m)  == \A t \in Threads : mode[t] # m

LockTypeOK == mode \in [Threads -> Modes]

LockInit == mode = [t \in Threads |-> "free"]

\* Mutant: a weak writer is let in although there is one.
AcquireShared(t, m) ==
  /\ mode[t] = "free"
  /\ NobodyIs("write")
  /\ m = "write" => NobodyIs("weak") /\ NobodyIs("read")
  /\ mode' = [mode EXCEPT ![t] = m]

Acquire(t, m) ==
  /\ mode[t] = "free"
  /\ NobodyIs("write")
  /\ m \in {"weak", "write"} => NobodyIs("weak")
  /\ m = "write" => NobodyIs("read")
  /\ mode' = [mode EXCEPT ![t] = m]

UpgradeWeak(t) ==
  /\ mode[t] = "weak"
  /\ NobodyIs("write")
  /\ NobodyIs("read")
  /\ mode' = [mode EXCEPT ![t] = "write"]

Release(t) ==
  /\ mode[t] # "free"
  /\ mode' = [mode EXCEPT ![t] = "free"]

LockNext == \E t \in Threads :
  \/ \E m \in Modes \ {"free"} : Acquire(t, m)
  \/ UpgradeWeak(t)
  \/ Release(t)

LockSpec == LockInit /\ [][LockNext]_mode

(***************************************************************************)
(* A strong writer is alone, and there is at most one weak writer.         *)
(***************************************************************************)
Exclusive == \A s, t \in Threads : s # t =>
  /\ mode[s] = "write" => mode[t] = "free"
  /\ mode[s] = "weak"  => mode[t] # "weak"
=============================================================================
