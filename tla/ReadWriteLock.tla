---------------------------- MODULE ReadWriteLock ----------------------------
(***************************************************************************)
(* multithreading::ReadWriteLock (include/multithreading/ReadWriteLock.hpp)*)
(* at the granularity at which threads can interfere.                      *)
(*                                                                         *)
(* Every lock operation evaluates its predicate under mtx_, every unlock   *)
(* operation changes its flag or counter and notifies WITHOUT mtx_.  Hence *)
(* the steps of a thread:                                                  *)
(*    Request      ++num_waiting_... (for writers), before mtx_ is taken   *)
(*    Check        take mtx_, evaluate the predicate; true: acquire and    *)
(*                 leave; false: still hold mtx_, about to block           *)
(*    Block        condition_variable::wait releases mtx_ and sleeps       *)
(*    Expire, TimeOut                                                      *)
(*                 the deadline of a timed wait passes, and the sleeper    *)
(*                 notices; the predicate is looked at once more           *)
(*                 (LastCheck), and the operation throws if it is false    *)
(*    Clear, ReadWaitingWriters, ReadWaitingWeakWriters, Notify            *)
(*                 the four reads and writes of an unlock operation        *)
(* The flags a predicate reads are only ever set under mtx_ and only ever  *)
(* cleared outside of it, so evaluating it in one step loses no behaviour. *)
(***************************************************************************)
EXTENDS Naturals, FiniteSets

CONSTANTS Threads,       \* threads that use the lock
          Ops,           \* the lock operations they use
          NoThread,      \* mtx_ is free
          MaxTimed       \* bound: requests with a timeout in one behaviour

ASSUME ThreadsAssumption ==
  /\ IsFiniteSet(Threads)
  /\ NoThread \notin Threads
  /\ Ops \subseteq {"read", "weak", "write"}
  /\ MaxTimed \in Nat

VARIABLES
  active_weak_writer_exists_, active_writer_exists_, num_active_readers_,
  num_waiting_weak_writers_, num_waiting_writers_, mtx_,
  pc,              \* where each thread is
  op,              \* its operation: "upgrade" while it asks for the upgrade
  timer,           \* of the pending request: none, running or expired
  timed_requests   \* how many requests had one

flags == <<active_weak_writer_exists_, active_writer_exists_,
           num_active_readers_>>
waiting == <<num_waiting_weak_writers_, num_waiting_writers_>>
vars == <<flags, waiting, mtx_, pc, op, timer, timed_requests>>

PCs == {"idle", "check", "blocking", "sleeping", "last_check", "held",
        "cleared", "no_writer_waits",
        "notify_writer", "notify_weak", "notify_readers"}

Goto(t, l) == pc' = [pc EXCEPT ![t] = l]

SetOp(t, o) == op' = [op EXCEPT ![t] = o]

SetTimer(t, x) == timer' = [timer EXCEPT ![t] = x]

Init ==
  /\ active_weak_writer_exists_ = FALSE
  /\ active_writer_exists_ = FALSE
  /\ num_active_readers_ = 0
  /\ num_waiting_weak_writers_ = 0
  /\ num_waiting_writers_ = 0
  /\ mtx_ = NoThread
  /\ pc = [t \in Threads |-> "idle"]
  /\ op = [t \in Threads |-> "none"]
  /\ timer = [t \in Threads |-> "none"]
  /\ timed_requests = 0

-----------------------------------------------------------------------------
(* Locking *)

\* Mutant: upgrade_weak_write_lock does not count itself as a waiting writer.
UpgradeUncounted(o) ==
  /\ num_waiting_weak_writers_' =
       num_waiting_weak_writers_ + IF o = "weak" THEN 1 ELSE 0
  /\ num_waiting_writers_' =
       num_waiting_writers_ + IF o = "write" THEN 1 ELSE 0

\* The counter a request of kind o adds itself to before it takes mtx_.
StartWaiting(o) ==
  /\ num_waiting_weak_writers_' =
       num_waiting_weak_writers_ + IF o = "weak" THEN 1 ELSE 0
  /\ num_waiting_writers_' =
       num_waiting_writers_ + IF o \in {"write", "upgrade"} THEN 1 ELSE 0

Request(t, o, has_timeout) ==
  /\ pc[t] = "idle"
  /\ has_timeout => timed_requests < MaxTimed
  /\ timed_requests' = timed_requests + IF has_timeout THEN 1 ELSE 0
  /\ SetTimer(t, IF has_timeout THEN "running" ELSE "none")
  /\ SetOp(t, o)
  /\ StartWaiting(o)
  /\ Goto(t, "check")
  /\ UNCHANGED <<flags, mtx_>>

\* Mutant: the weak writer lets go of its flag before it waits.
UpgradeLetsGo(t) ==
  /\ pc[t] = "held" /\ op[t] = "weak"
  /\ active_weak_writer_exists_' = FALSE
  /\ SetOp(t, "upgrade")
  /\ StartWaiting("upgrade")
  /\ Goto(t, "check")
  /\ UNCHANGED <<active_writer_exists_, num_active_readers_, mtx_, timer,
                 timed_requests>>

\* A weak writer that holds the lock asks to become a strong writer.
Upgrade(t) ==
  /\ pc[t] = "held" /\ op[t] = "weak"
  /\ SetOp(t, "upgrade")
  /\ StartWaiting("upgrade")
  /\ Goto(t, "check")
  /\ UNCHANGED <<flags, mtx_, timer, timed_requests>>

\* Mutant: the predicate of upgrade_weak_write_lock forgets the readers.
UpgradeIgnoresReaders(o) ==
  /\ ~active_writer_exists_
  /\ o \in {"weak", "write"} => ~active_weak_writer_exists_
  /\ o = "write" => num_active_readers_ = 0

\* Mutant: the predicate of write_lock forgets the weak writer.
WriteIgnoresWeakWriter(o) ==
  /\ ~active_writer_exists_
  /\ o = "weak" => ~active_weak_writer_exists_
  /\ o \in {"write", "upgrade"} => num_active_readers_ = 0

\* The predicate the operation waits for.
Acquirable(o) ==
  /\ ~active_writer_exists_
  /\ o \in {"weak", "write"} => ~active_weak_writer_exists_
  /\ o \in {"write", "upgrade"} => num_active_readers_ = 0

\* What it does when the predicate holds.
Take(t) ==
  /\ num_active_readers_' =
       num_active_readers_ + IF op[t] = "read" THEN 1 ELSE 0
  /\ num_waiting_weak_writers_' =
       num_waiting_weak_writers_ - IF op[t] = "weak" THEN 1 ELSE 0
  /\ num_waiting_writers_' =
       num_waiting_writers_ - IF op[t] \in {"write", "upgrade"} THEN 1 ELSE 0
  /\ active_weak_writer_exists_' =
       (op[t] = "weak" \/ (active_weak_writer_exists_ /\ op[t] # "upgrade"))
  /\ active_writer_exists_' =
       (active_writer_exists_ \/ op[t] \in {"write", "upgrade"})
  /\ SetOp(t, IF op[t] = "upgrade" THEN "write" ELSE op[t])
  /\ SetTimer(t, "none")
  /\ Goto(t, "held")
  /\ UNCHANGED <<mtx_, timed_requests>>

Check(t) ==
  /\ pc[t] = "check"
  /\ mtx_ = NoThread
  /\ \/ Acquirable(op[t]) /\ Take(t)
     \/ /\ ~Acquirable(op[t])
        /\ mtx_' = t
        /\ Goto(t, "blocking")
        /\ UNCHANGED <<flags, waiting, op, timer, timed_requests>>

Block(t) ==
  /\ pc[t] = "blocking"
  /\ mtx_' = NoThread
  /\ Goto(t, "sleeping")
  /\ UNCHANGED <<flags, waiting, op, timer, timed_requests>>

\* Mutant: any wake-up of a timed wait is taken for a timeout.
AnyWakeupIsATimeout(t) == IF timer[t] = "none" THEN "check" ELSE "last_check"

\* Mutant: a timed wait starts all over again when its deadline has passed.
DeadlineForgotten(t) == "check"

\* Where a thread that wakes up continues: the timed wait reports a timeout
\* whenever the deadline has passed, whatever woke the thread.
AwakeAt(t) == IF timer[t] = "expired" THEN "last_check" ELSE "check"

\* The C++ standard lets a sleeping thread wake up unasked.
SpuriousWakeup(t) ==
  /\ pc[t] = "sleeping"
  /\ Goto(t, AwakeAt(t))
  /\ UNCHANGED <<flags, waiting, mtx_, op, timer, timed_requests>>

Pending(t) == pc[t] \in {"check", "blocking", "sleeping", "last_check"}

Expire(t) ==
  /\ Pending(t) /\ timer[t] = "running"
  /\ SetTimer(t, "expired")
  /\ UNCHANGED <<flags, waiting, mtx_, pc, op, timed_requests>>

TimeOut(t) ==
  /\ pc[t] = "sleeping" /\ timer[t] = "expired"
  /\ Goto(t, AwakeAt(t))
  /\ UNCHANGED <<flags, waiting, mtx_, op, timer, timed_requests>>

\* wait_for returns the predicate.  When it is false the operation throws:
\* its increment of num_waiting_... stays.
LastCheck(t) ==
  /\ pc[t] = "last_check"
  /\ mtx_ = NoThread
  /\ \/ Acquirable(op[t]) /\ Take(t)
     \/ /\ ~Acquirable(op[t])
        /\ Goto(t, "idle") /\ SetOp(t, "none") /\ SetTimer(t, "none")
        /\ UNCHANGED <<flags, waiting, mtx_, timed_requests>>

-----------------------------------------------------------------------------
(* Unlocking: read_unlock, weak_write_unlock and write_unlock *)

Clear(t) ==
  /\ pc[t] = "held"
  /\ num_active_readers_' =
       num_active_readers_ - IF op[t] = "read" THEN 1 ELSE 0
  /\ active_weak_writer_exists_' =
       (active_weak_writer_exists_ /\ op[t] # "weak")
  /\ active_writer_exists_' = (active_writer_exists_ /\ op[t] # "write")
  /\ Goto(t, "cleared")
  /\ UNCHANGED <<waiting, mtx_, op, timer, timed_requests>>

ReadWaitingWriters(t) ==
  /\ pc[t] = "cleared"
  /\ Goto(t, IF num_waiting_writers_ > 0
             THEN "notify_writer" ELSE "no_writer_waits")
  /\ UNCHANGED <<flags, waiting, mtx_, op, timer, timed_requests>>

ReadWaitingWeakWriters(t) ==
  /\ pc[t] = "no_writer_waits"
  /\ Goto(t, IF num_waiting_weak_writers_ > 0
             THEN "notify_weak" ELSE "notify_readers")
  /\ UNCHANGED <<flags, waiting, mtx_, op, timer, timed_requests>>

\* The threads asleep on the condition variable that serves the operations os.
Asleep(os) == {s \in Threads : pc[s] = "sleeping" /\ op[s] \in os}

\* The unlocking thread t is done, and wakes the threads in woken.
Wake(t, woken) ==
  /\ pc' = [s \in Threads |-> IF s = t THEN "idle"
                              ELSE IF s \in woken THEN AwakeAt(s) ELSE pc[s]]
  /\ SetOp(t, "none")
  /\ UNCHANGED <<flags, waiting, mtx_, timer, timed_requests>>

NotifyOne(t, os) ==
  IF Asleep(os) = {} THEN Wake(t, {}) ELSE \E s \in Asleep(os) : Wake(t, {s})

\* writer_cond_ serves plain writers and upgrading weak writers alike.
NotifyWriter(t) ==
  pc[t] = "notify_writer" /\ NotifyOne(t, {"write", "upgrade"})

NotifyWeakWriter(t) == pc[t] = "notify_weak" /\ NotifyOne(t, {"weak"})

\* read_unlock has no such branch: it ends without waking anybody.
NotifyReaders(t) ==
  /\ pc[t] = "notify_readers"
  /\ Wake(t, IF op[t] = "read" THEN {} ELSE Asleep({"read"}))

-----------------------------------------------------------------------------
Unlocking(t) ==
  \/ ReadWaitingWriters(t) \/ ReadWaitingWeakWriters(t)
  \/ NotifyWriter(t) \/ NotifyWeakWriter(t) \/ NotifyReaders(t)

Next == \E t \in Threads :
  \/ \E o \in Ops, has_timeout \in BOOLEAN : Request(t, o, has_timeout)
  \/ Upgrade(t)
  \/ Check(t) \/ Block(t) \/ SpuriousWakeup(t)
  \/ Expire(t) \/ TimeOut(t) \/ LastCheck(t)
  \/ Clear(t) \/ Unlocking(t)

\* A thread that can run does run: mtx_ is handed out fairly, a timeout that
\* was set expires, and whoever holds the lock lets go of it at some point.
\* Nobody has to ask for the lock, and nobody has to wake up unasked.
Fairness == \A t \in Threads :
  /\ SF_vars(Check(t) \/ LastCheck(t))
  /\ WF_vars(Block(t) \/ TimeOut(t) \/ Clear(t) \/ Unlocking(t))
  /\ WF_vars(Expire(t))

Spec == Init /\ [][Next]_vars

FairSpec == Spec /\ Fairness

-----------------------------------------------------------------------------
(* Properties *)

\* A thread has an operation exactly while it is at one, an upgrade is over
\* once the lock is held and never times out, a timer runs only while its
\* request is pending, and mtx_ is kept only by a thread about to block.
TypeOK ==
  /\ active_weak_writer_exists_ \in BOOLEAN
  /\ active_writer_exists_ \in BOOLEAN
  /\ num_active_readers_ \in Nat
  /\ num_waiting_weak_writers_ \in Nat
  /\ num_waiting_writers_ \in Nat
  /\ mtx_ \in Threads \cup {NoThread}
  /\ pc \in [Threads -> PCs]
  /\ op \in [Threads -> {"none", "read", "weak", "write", "upgrade"}]
  /\ timer \in [Threads -> {"none", "running", "expired"}]
  /\ timed_requests \in 0..MaxTimed
  /\ \A t \in Threads : /\ op[t] = "none" <=> pc[t] = "idle"
                        /\ op[t] = "upgrade" => Pending(t) /\ timer[t] = "none"
                        /\ pc[t] = "last_check" => timer[t] = "expired"
                        /\ ~Pending(t) => timer[t] = "none"
                        /\ mtx_ = t <=> pc[t] = "blocking"

\* What a thread holds: a weak writer that waits for its upgrade is still a
\* weak writer, and an unlock takes effect when it clears its flag.
Mode(t) == IF op[t] = "upgrade" THEN "weak"
           ELSE IF pc[t] = "held" THEN op[t] ELSE "free"

modes == [t \in Threads |-> Mode(t)]

Lock == INSTANCE RWLockSpec WITH mode <- modes

\* The promise of the class comment (ReadWriteLock.hpp:20-23): every
\* behaviour of the code is a behaviour of the abstract lock.
ImplementsLock == Lock!LockSpec

\* A strong writer is alone, there is one weak writer at most: although the
\* unlock operations change the flags outside of mtx_.
MutualExclusion == Lock!Exclusive

\* "Whether there is a (weak) writer that is currently active", "Number of
\* readers currently active" (ReadWriteLock.hpp:170-180): the flags and the
\* counter of readers say what the threads hold, at every moment.
FlagsMatchHolders ==
  /\ active_writer_exists_ <=> \E t \in Threads : Mode(t) = "write"
  /\ active_weak_writer_exists_ <=> \E t \in Threads : Mode(t) = "weak"
  /\ num_active_readers_ = Cardinality({t \in Threads : Mode(t) = "read"})

Waiting(os) == {t \in Threads : Pending(t) /\ op[t] \in os}

\* Every thread that waits for a strong or weak write lock is counted, so
\* that an unlock (ReadWriteLock.hpp:65,116,158) never takes the branch that
\* ignores it.  The counters may be larger: a request that timed out stays in.
WaitersAreCounted ==
  /\ num_waiting_writers_ >= Cardinality(Waiting({"write", "upgrade"}))
  /\ num_waiting_weak_writers_ >= Cardinality(Waiting({"weak"}))

\* The inductive invariant.
IInv == TypeOK /\ FlagsMatchHolders /\ MutualExclusion /\ WaitersAreCounted

\* "Tries to acquire a ... lock, but with a timeout" (ReadWriteLock.hpp:49,97,
\* 138): requests with a timeout come to an end, with or without the lock.
TimedRequestsEnd ==
  LET TimedPending == \E t \in Threads : timer[t] # "none"
  IN  TimedPending ~> ~TimedPending

\* "a weak writer can be upgraded to a strong writer" (ReadWriteLock.hpp:22-23):
\* nobody who asks for the upgrade waits forever while nothing stands in the
\* way.  (Readers who keep coming may stand in the way forever.)
UpgradeSucceeds ==
  \A t \in Threads : ~<>[](op[t] = "upgrade" /\ Acquirable("upgrade"))
=============================================================================
