------------------------ MODULE ReadWriteLock_proofs ------------------------
(***************************************************************************)
(* The lock of ReadWriteLock.tla excludes, for any finite set of threads   *)
(* and any number of requests with a timeout, and it implements the        *)
(* abstract lock of RWLockSpec.tla.                                        *)
(***************************************************************************)
EXTENDS ReadWriteLock, FiniteSetTheorems, TLAPS

-----------------------------------------------------------------------------
(* Counting *)

\* The sets of threads that are counted are finite, and counting an element
\* gives at least one.
LEMMA CardOfPart ==
  ASSUME NEW S \in SUBSET Threads
  PROVE  /\ IsFiniteSet(S)
         /\ Cardinality(S) \in Nat
         /\ \A t \in S : Cardinality(S) >= 1
<1>1. IsFiniteSet(S) /\ Cardinality(S) \in Nat
  BY ThreadsAssumption, FS_Subset, FS_CardinalityType DEF ThreadsAssumption
<1>2. ASSUME NEW t \in S PROVE Cardinality(S) >= 1
  <2>1. Cardinality(S) # 0
    BY <1>1, FS_EmptySet
  <2>2. QED  BY <1>1, <2>1
<1>3. QED  BY <1>1, <1>2

\* One thread more, one thread less.
LEMMA CardAdd ==
  ASSUME NEW S \in SUBSET Threads, NEW t \in Threads, t \notin S
  PROVE  Cardinality(S \cup {t}) = Cardinality(S) + 1
BY CardOfPart, FS_AddElement

\* The counterpart of CardAdd: what a decrement of a counter does.
LEMMA CardRemove ==
  ASSUME NEW S \in SUBSET Threads, NEW t \in S
  PROVE  Cardinality(S \ {t}) = Cardinality(S) - 1
BY CardOfPart, FS_RemoveElement

-----------------------------------------------------------------------------
(* The type invariant *)

\* The constructor of ReadWriteLock makes a lock that nobody holds, and the
\* inductive invariant holds of it.
LEMMA InitIInv == Init => IInv
<1> SUFFICES ASSUME Init PROVE IInv
  OBVIOUS
<1>1. TypeOK
  <2>1. timed_requests \in 0..MaxTimed
    BY ThreadsAssumption DEF Init, ThreadsAssumption
  <2>2. \A t \in Threads : mtx_ # t
    BY ThreadsAssumption DEF Init, ThreadsAssumption
  <2>3. QED  BY <2>1, <2>2 DEF Init, TypeOK, PCs, Pending
<1>2. \A t \in Threads : Mode(t) = "free" /\ ~Pending(t)
  BY DEF Init, Mode, Pending
<1>3. /\ {t \in Threads : Mode(t) = "read"} = {}
      /\ \A os : Waiting(os) = {}
  BY <1>2 DEF Waiting
<1>4. FlagsMatchHolders
  BY <1>2, <1>3, FS_EmptySet DEF Init, FlagsMatchHolders
<1>5. MutualExclusion
  BY <1>2 DEF MutualExclusion, Lock!Exclusive, modes
<1>6. WaitersAreCounted
  BY <1>3, FS_EmptySet DEF Init, WaitersAreCounted
<1>7. QED  BY <1>1, <1>4, <1>5, <1>6 DEF IInv

\* A thread that waits was counted, so taking it out again leaves a number.
LEMMA WaiterCounted ==
  ASSUME IInv, NEW t \in Threads, Pending(t)
  PROVE  /\ op[t] = "weak" => num_waiting_weak_writers_ >= 1
         /\ op[t] \in {"write", "upgrade"} => num_waiting_writers_ >= 1
<1>1. /\ op[t] = "weak" => t \in Waiting({"weak"})
      /\ op[t] \in {"write", "upgrade"} => t \in Waiting({"write", "upgrade"})
  BY DEF Waiting
<1>2. \A os : Waiting(os) \in SUBSET Threads
  BY DEF Waiting
<1>3. QED
  BY <1>1, <1>2, CardOfPart DEF IInv, WaitersAreCounted, TypeOK

\* A thread that reads was counted too.
LEMMA ReaderCounted ==
  ASSUME IInv, NEW t \in Threads, Mode(t) = "read"
  PROVE  num_active_readers_ >= 1
BY CardOfPart DEF IInv, FlagsMatchHolders

\* What read_lock, weak_write_lock, write_lock and the upgrade do once their
\* predicate holds leaves a state of the expected type: no counter goes below 0.
LEMMA TakeType ==
  ASSUME IInv, NEW t \in Threads, Pending(t), mtx_ = NoThread, Take(t)
  PROVE  TypeOK'
<1>1. /\ num_waiting_weak_writers_' \in Nat
      /\ num_waiting_writers_' \in Nat
      /\ num_active_readers_' \in Nat
  BY WaiterCounted DEF Take, IInv, TypeOK
<1>2. op[t] # "none" /\ pc[t] # "idle" /\ pc[t] # "blocking"
  BY ThreadsAssumption DEF IInv, TypeOK, Pending, ThreadsAssumption
<1>3. QED
  BY <1>1, <1>2, ThreadsAssumption
     DEF Take, IInv, TypeOK, Goto, SetOp, SetTimer, PCs, Pending,
         ThreadsAssumption

\* Every step of every thread keeps the type invariant.
LEMMA StepType == IInv /\ [Next]_vars => TypeOK'
<1> SUFFICES ASSUME IInv, [Next]_vars PROVE TypeOK'
  OBVIOUS
<1> USE ThreadsAssumption DEF ThreadsAssumption
<1>1. ASSUME NEW t \in Threads, NEW o \in Ops, NEW has_timeout \in BOOLEAN,
             Request(t, o, has_timeout)
      PROVE  TypeOK'
  <2>1. /\ num_waiting_weak_writers_' \in Nat
        /\ num_waiting_writers_' \in Nat
        /\ timed_requests' \in 0..MaxTimed
    BY <1>1 DEF Request, StartWaiting, IInv, TypeOK
  <2>2. QED
    BY <1>1, <2>1 DEF Request, IInv, TypeOK, flags, Goto, SetOp, SetTimer,
                      PCs, Pending
<1>2. ASSUME NEW t \in Threads, Upgrade(t) PROVE TypeOK'
  <2>1. num_waiting_weak_writers_' \in Nat /\ num_waiting_writers_' \in Nat
    BY <1>2 DEF Upgrade, StartWaiting, IInv, TypeOK
  <2>2. QED
    BY <1>2, <2>1 DEF Upgrade, IInv, TypeOK, flags, Goto, SetOp, PCs, Pending
<1>3. ASSUME NEW t \in Threads, Check(t) PROVE TypeOK'
  <2>1. CASE Take(t)
    BY <1>3, <2>1, TakeType DEF Check, Pending
  <2>2. CASE ~Take(t)
    BY <1>3, <2>2 DEF Check, IInv, TypeOK, flags, waiting, Goto, PCs, Pending
  <2>3. QED  BY <2>1, <2>2
<1>4. ASSUME NEW t \in Threads, Block(t) PROVE TypeOK'
  BY <1>4 DEF Block, IInv, TypeOK, flags, waiting, Goto, PCs, Pending
<1>5. ASSUME NEW t \in Threads, SpuriousWakeup(t) \/ TimeOut(t) PROVE TypeOK'
  BY <1>5 DEF SpuriousWakeup, TimeOut, AwakeAt, IInv, TypeOK, flags, waiting,
              Goto, PCs, Pending
<1>6. ASSUME NEW t \in Threads, Expire(t) PROVE TypeOK'
  BY <1>6 DEF Expire, IInv, TypeOK, flags, waiting, SetTimer, PCs, Pending
<1>7. ASSUME NEW t \in Threads, LastCheck(t) PROVE TypeOK'
  <2>1. CASE Take(t)
    BY <1>7, <2>1, TakeType DEF LastCheck, Pending
  <2>2. CASE ~Take(t)
    BY <1>7, <2>2 DEF LastCheck, IInv, TypeOK, flags, waiting, Goto, SetOp,
                      SetTimer, PCs, Pending
  <2>3. QED  BY <2>1, <2>2
<1>8. ASSUME NEW t \in Threads, Clear(t) PROVE TypeOK'
  <2>1. num_active_readers_' \in Nat
    BY <1>8, ReaderCounted DEF Clear, Mode, IInv, TypeOK
  <2>2. QED
    BY <1>8, <2>1 DEF Clear, IInv, TypeOK, waiting, Goto, PCs, Pending
<1>9. ASSUME NEW t \in Threads, ReadWaitingWriters(t) \/ ReadWaitingWeakWriters(t)
      PROVE  TypeOK'
  BY <1>9 DEF ReadWaitingWriters, ReadWaitingWeakWriters, IInv, TypeOK, flags,
              waiting, Goto, PCs, Pending
<1>10. ASSUME NEW t \in Threads, NEW woken,
              pc[t] \in {"notify_writer", "notify_weak", "notify_readers"},
              \A s \in woken : pc[s] = "sleeping",
              Wake(t, woken)
       PROVE  TypeOK'
  BY <1>10 DEF Wake, AwakeAt, IInv, TypeOK, flags, waiting, SetOp, PCs, Pending
<1>11. ASSUME NEW t \in Threads,
              NotifyWriter(t) \/ NotifyWeakWriter(t) \/ NotifyReaders(t)
       PROVE  TypeOK'
  <2>1. PICK woken : /\ \A s \in woken : pc[s] = "sleeping"
                     /\ Wake(t, woken)
    BY <1>11 DEF NotifyWriter, NotifyWeakWriter, NotifyReaders, NotifyOne, Asleep
  <2>2. pc[t] \in {"notify_writer", "notify_weak", "notify_readers"}
    BY <1>11 DEF NotifyWriter, NotifyWeakWriter, NotifyReaders
  <2>3. QED  BY <1>10, <2>1, <2>2
<1>12. CASE UNCHANGED vars
  BY <1>12 DEF vars, flags, waiting, IInv, TypeOK, Pending
<1>13. QED
  BY <1>1, <1>2, <1>3, <1>4, <1>5, <1>6, <1>7, <1>8, <1>9, <1>11, <1>12
     DEF Next, Unlocking

-----------------------------------------------------------------------------
(* What a step does to the modes: nothing, or one thread takes the lock, or *)
(* one lets go of it.                                                       *)

SameModes == flags' = flags /\ \A s \in Threads : Mode(s)' = Mode(s)

TakeStep(t) == Pending(t) /\ Acquirable(op[t]) /\ Take(t)

\* The outcome of an unlocking step: some sleepers wake up.
LEMMA NotifyWakes ==
  ASSUME NEW t \in Threads,
         NotifyWriter(t) \/ NotifyWeakWriter(t) \/ NotifyReaders(t)
  PROVE  \E woken : /\ \A s \in woken : pc[s] = "sleeping"
                    /\ Wake(t, woken)
                    /\ pc[t] \in {"notify_writer", "notify_weak", "notify_readers"}
BY DEF NotifyWriter, NotifyWeakWriter, NotifyReaders, NotifyOne, Asleep

\* A step either leaves what the threads hold and the flags alone, or it is the
\* end of a lock operation, or the first statement of an unlock operation.
LEMMA ModeSteps ==
  ASSUME IInv, [Next]_vars
  PROVE  \/ SameModes
         \/ \E t \in Threads : TakeStep(t)
         \/ \E t \in Threads : Clear(t)
<1> DEFINE Goal == \/ SameModes
                   \/ \E t \in Threads : TakeStep(t)
                   \/ \E t \in Threads : Clear(t)
<1> USE DEF IInv, TypeOK
<1>1. ASSUME NEW t \in Threads, NEW o \in Ops, NEW has_timeout \in BOOLEAN,
             Request(t, o, has_timeout)
      PROVE  Goal
  BY <1>1, ThreadsAssumption
     DEF Request, SameModes, Mode, Goto, SetOp, ThreadsAssumption
<1>2. ASSUME NEW t \in Threads, Upgrade(t) PROVE Goal
  BY <1>2 DEF Upgrade, SameModes, Mode, Goto, SetOp
<1>3. ASSUME NEW t \in Threads, Check(t) PROVE Goal
  <2>1. CASE TakeStep(t)
    BY <2>1
  <2>2. CASE ~TakeStep(t)
    BY <1>3, <2>2 DEF Check, TakeStep, SameModes, Mode, Goto, Pending
  <2>3. QED  BY <2>1, <2>2
<1>4. ASSUME NEW t \in Threads, Block(t) \/ SpuriousWakeup(t) \/ TimeOut(t)
      PROVE  Goal
  BY <1>4 DEF Block, SpuriousWakeup, TimeOut, AwakeAt, SameModes, Mode, Goto
<1>5. ASSUME NEW t \in Threads, Expire(t) PROVE Goal
  BY <1>5 DEF Expire, SameModes, Mode
<1>6. ASSUME NEW t \in Threads, LastCheck(t) PROVE Goal
  <2>1. CASE TakeStep(t)
    BY <2>1
  <2>2. CASE ~TakeStep(t)
    BY <1>6, <2>2 DEF LastCheck, TakeStep, SameModes, Mode, Goto, SetOp, Pending
  <2>3. QED  BY <2>1, <2>2
<1>7. ASSUME NEW t \in Threads, Clear(t) PROVE Goal
  BY <1>7
<1>8. ASSUME NEW t \in Threads, ReadWaitingWriters(t) \/ ReadWaitingWeakWriters(t)
      PROVE  Goal
  BY <1>8 DEF ReadWaitingWriters, ReadWaitingWeakWriters, SameModes, Mode, Goto
<1>9. ASSUME NEW t \in Threads,
             NotifyWriter(t) \/ NotifyWeakWriter(t) \/ NotifyReaders(t)
      PROVE  Goal
  <2>1. PICK woken :
          /\ \A s \in woken : pc[s] = "sleeping"
          /\ Wake(t, woken)
          /\ pc[t] \in {"notify_writer", "notify_weak", "notify_readers"}
    BY <1>9, NotifyWakes
  <2>2. QED
    BY <2>1 DEF Wake, AwakeAt, SameModes, Mode, SetOp, Pending
<1>10. CASE UNCHANGED vars
  BY <1>10 DEF vars, SameModes, Mode
<1>11. QED
  BY <1>1, <1>2, <1>3, <1>4, <1>5, <1>6, <1>7, <1>8, <1>9, <1>10
     DEF Next, Unlocking

-----------------------------------------------------------------------------
(* The flags match the holders, and the holders exclude each other          *)

\* Steps that leave the flags and what the threads hold alone keep both the
\* exclusion and the agreement of the flags with the holders.
LEMMA SameModesSafe ==
  ASSUME IInv, SameModes
  PROVE  FlagsMatchHolders' /\ MutualExclusion'
<1>1. {s \in Threads : Mode(s)' = "read"} = {s \in Threads : Mode(s) = "read"}
  BY DEF SameModes
<1>2. FlagsMatchHolders'
  BY <1>1 DEF SameModes, IInv, FlagsMatchHolders, flags
<1>3. MutualExclusion'
  BY DEF SameModes, IInv, MutualExclusion, Lock!Exclusive, modes
<1>4. QED  BY <1>2, <1>3

\* What Take and Clear do to the modes.
LEMMA TakeModes ==
  ASSUME IInv, NEW t \in Threads, TakeStep(t)
  PROVE  /\ op[t] \in {"read", "weak", "write", "upgrade"}
         /\ Mode(t) = IF op[t] = "upgrade" THEN "weak" ELSE "free"
         /\ Mode(t)' = IF op[t] = "upgrade" THEN "write" ELSE op[t]
         /\ \A s \in Threads \ {t} : Mode(s)' = Mode(s)
BY DEF IInv, TypeOK, TakeStep, Take, Mode, Pending, Goto, SetOp

\* A thread holds nothing, or the lock in one of its three modes.
LEMMA ModeType ==
  ASSUME IInv, NEW t \in Threads
  PROVE  Mode(t) \in {"free", "read", "weak", "write"}
BY DEF IInv, TypeOK, Mode, Pending, PCs

\* An unlock operation gives up what its thread held, and nothing else.
LEMMA ClearModes ==
  ASSUME IInv, NEW t \in Threads, Clear(t)
  PROVE  /\ op[t] \in {"read", "weak", "write"}
         /\ Mode(t) = op[t]
         /\ Mode(t)' = "free"
         /\ \A s \in Threads \ {t} : Mode(s)' = Mode(s)
BY DEF IInv, TypeOK, Clear, Mode, Pending, Goto

\* Where the predicate holds, nobody holds the lock in a way that excludes o.
LEMMA AcquirableModes ==
  ASSUME IInv, NEW o, Acquirable(o)
  PROVE  /\ \A s \in Threads : Mode(s) # "write"
         /\ o \in {"weak", "write"} => \A s \in Threads : Mode(s) # "weak"
         /\ o \in {"write", "upgrade"} => \A s \in Threads : Mode(s) # "read"
<1>1. num_active_readers_ = 0 => \A s \in Threads : Mode(s) # "read"
  BY ReaderCounted
<1>2. QED  BY <1>1 DEF Acquirable, IInv, FlagsMatchHolders

\* Lock operations that get the lock keep exclusion and flags.
LEMMA TakeSafe ==
  ASSUME IInv, NEW t \in Threads, TakeStep(t)
  PROVE  FlagsMatchHolders' /\ MutualExclusion'
<1> DEFINE R == {s \in Threads : Mode(s) = "read"}
<1>1. /\ \A s \in Threads : Mode(s) # "write"
      /\ op[t] \in {"weak", "write"} => \A s \in Threads : Mode(s) # "weak"
      /\ op[t] \in {"write", "upgrade"} => \A s \in Threads : Mode(s) # "read"
  BY AcquirableModes DEF TakeStep
<1>2. \A s \in Threads \ {t} : Mode(s) = "weak" => op[t] = "read"
  BY <1>1, TakeModes DEF IInv, MutualExclusion, Lock!Exclusive, modes
<1>3. num_active_readers_' = Cardinality(R')
  <2>1. CASE op[t] = "read"
    <3>1. R' = R \cup {t} /\ t \notin R
      BY <2>1, TakeModes
    <3>2. Cardinality(R \cup {t}) = Cardinality(R) + 1
      BY <3>1, CardAdd
    <3>3. QED
      BY <2>1, <3>1, <3>2 DEF IInv, FlagsMatchHolders, TakeStep, Take
  <2>2. CASE op[t] # "read"
    <3>1. R' = R
      BY <2>2, TakeModes
    <3>2. num_active_readers_' = num_active_readers_
      BY <2>2 DEF TakeStep, Take, IInv, TypeOK
    <3>3. QED  BY <3>1, <3>2 DEF IInv, FlagsMatchHolders
  <2>3. QED  BY <2>1, <2>2
<1>4. active_writer_exists_' <=> \E s \in Threads : Mode(s)' = "write"
  <2>1. ~active_writer_exists_
    BY DEF TakeStep, Acquirable
  <2>2. active_writer_exists_' <=> op[t] \in {"write", "upgrade"}
    BY <2>1 DEF TakeStep, Take
  <2>3. (\E s \in Threads : Mode(s)' = "write") <=> op[t] \in {"write", "upgrade"}
    BY <1>1, TakeModes
  <2>4. QED  BY <2>2, <2>3
<1>5. active_weak_writer_exists_' <=> \E s \in Threads : Mode(s)' = "weak"
  <2>1. CASE op[t] = "weak"
    BY <2>1, TakeModes DEF TakeStep, Take
  <2>2. CASE op[t] = "upgrade"
    BY <1>2, <2>2, TakeModes DEF TakeStep, Take
  <2>3. CASE op[t] \in {"read", "write"}
    <3>1. active_weak_writer_exists_' <=> active_weak_writer_exists_
      BY <2>3 DEF TakeStep, Take
    <3>2. (\E s \in Threads : Mode(s)' = "weak") <=> (\E s \in Threads : Mode(s) = "weak")
      BY <2>3, TakeModes
    <3>3. QED  BY <3>1, <3>2 DEF IInv, FlagsMatchHolders
  <2>4. QED  BY <2>1, <2>2, <2>3, TakeModes
<1>6. MutualExclusion'
  <2>1. SUFFICES ASSUME NEW a \in Threads, NEW b \in Threads, a # b
                 PROVE  /\ Mode(a)' = "write" => Mode(b)' = "free"
                        /\ Mode(a)' = "weak" => Mode(b)' # "weak"
    BY DEF MutualExclusion, Lock!Exclusive, modes
  <2>2. op[t] \in {"write", "upgrade"} =>
          \A s \in Threads \ {t} : Mode(s) = "free"
    BY <1>1, <1>2, ModeType
  <2>3. Mode(t)' = "write" => op[t] \in {"write", "upgrade"}
    BY TakeModes
  <2>4. Mode(t)' = "weak" => op[t] = "weak"
    BY TakeModes
  <2>5. \A s \in Threads \ {t} : Mode(s)' = Mode(s)
    BY TakeModes
  <2>6. CASE a = t
    BY <1>1, <2>1, <2>2, <2>3, <2>4, <2>5, <2>6
  <2>7. CASE b = t
    BY <1>1, <2>1, <2>3, <2>4, <2>5, <2>7
  <2>8. CASE a # t /\ b # t
    BY <2>1, <2>5, <2>8 DEF IInv, MutualExclusion, Lock!Exclusive, modes
  <2>9. QED  BY <2>6, <2>7, <2>8
<1>7. QED  BY <1>3, <1>4, <1>5, <1>6 DEF FlagsMatchHolders

\* Unlock operations keep exclusion and flags, although they do not take mtx_.
LEMMA ClearSafe ==
  ASSUME IInv, NEW t \in Threads, Clear(t)
  PROVE  FlagsMatchHolders' /\ MutualExclusion'
<1> DEFINE R == {s \in Threads : Mode(s) = "read"}
<1>1. num_active_readers_' = Cardinality(R')
  <2>1. CASE op[t] = "read"
    <3>1. R' = R \ {t} /\ t \in R
      BY <2>1, ClearModes
    <3>2. Cardinality(R \ {t}) = Cardinality(R) - 1
      BY <3>1, CardRemove
    <3>3. QED
      BY <2>1, <3>1, <3>2 DEF IInv, FlagsMatchHolders, Clear
  <2>2. CASE op[t] # "read"
    <3>1. R' = R
      BY <2>2, ClearModes
    <3>2. num_active_readers_' = num_active_readers_
      BY <2>2 DEF Clear, IInv, TypeOK
    <3>3. QED  BY <3>1, <3>2 DEF IInv, FlagsMatchHolders
  <2>3. QED  BY <2>1, <2>2
<1>2. active_writer_exists_' <=> \E s \in Threads : Mode(s)' = "write"
  <2>1. active_writer_exists_' <=> active_writer_exists_ /\ op[t] # "write"
    BY DEF Clear
  <2>2. op[t] = "write" => \A s \in Threads \ {t} : Mode(s) # "write"
    BY ClearModes DEF IInv, MutualExclusion, Lock!Exclusive, modes
  <2>3. QED  BY <2>1, <2>2, ClearModes DEF IInv, FlagsMatchHolders
<1>3. active_weak_writer_exists_' <=> \E s \in Threads : Mode(s)' = "weak"
  <2>1. active_weak_writer_exists_' <=> active_weak_writer_exists_ /\ op[t] # "weak"
    BY DEF Clear
  <2>2. op[t] = "weak" => \A s \in Threads \ {t} : Mode(s) # "weak"
    BY ClearModes DEF IInv, MutualExclusion, Lock!Exclusive, modes
  <2>3. QED  BY <2>1, <2>2, ClearModes DEF IInv, FlagsMatchHolders
<1>4. MutualExclusion'
  BY ClearModes DEF IInv, MutualExclusion, Lock!Exclusive, modes
<1>5. QED  BY <1>1, <1>2, <1>3, <1>4 DEF FlagsMatchHolders

-----------------------------------------------------------------------------
(* Every waiting writer is counted                                          *)

\* n counts S, and n and S change together.
LEMMA CountKept ==
  ASSUME NEW S \in SUBSET Threads, NEW T \in SUBSET Threads,
         NEW n \in Nat, NEW m \in Nat, NEW t \in Threads,
         n >= Cardinality(S),
         \/ T \subseteq S /\ m = n
         \/ T \subseteq S \cup {t} /\ m = n + 1
         \/ t \in S /\ T \subseteq S \ {t} /\ m = n - 1
  PROVE  m >= Cardinality(T)
<1>1. \A U \in SUBSET Threads : T \subseteq U =>
        Cardinality(T) <= Cardinality(U)
  BY CardOfPart, FS_Subset
<1>2. /\ Cardinality(S) \in Nat /\ Cardinality(T) \in Nat
      /\ Cardinality(S \cup {t}) \in Nat /\ Cardinality(S \ {t}) \in Nat
  BY CardOfPart
<1>3. CASE T \subseteq S /\ m = n
  BY <1>1, <1>2, <1>3
<1>4. CASE T \subseteq S \cup {t} /\ m = n + 1
  <2>1. Cardinality(S \cup {t}) <= Cardinality(S) + 1
    BY CardOfPart, FS_AddElement
  <2>2. Cardinality(T) <= Cardinality(S \cup {t})
    BY <1>1, <1>4
  <2>3. QED  BY <1>2, <1>4, <2>1, <2>2
<1>5. CASE t \in S /\ T \subseteq S \ {t} /\ m = n - 1
  <2>1. Cardinality(S \ {t}) = Cardinality(S) - 1
    BY <1>5, CardRemove
  <2>2. Cardinality(T) <= Cardinality(S \ {t})
    BY <1>1, <1>5
  <2>3. QED  BY <1>2, <1>5, <2>1, <2>2
<1>6. QED  BY <1>3, <1>4, <1>5

\* For a step of t it is enough to say how one counter and its set change.
Kept(t, os, n) ==
  \/ Waiting(os)' \subseteq Waiting(os) /\ n' = n
  \/ Waiting(os)' \subseteq Waiting(os) \cup {t} /\ n' = n + 1
  \/ /\ t \in Waiting(os)
     /\ Waiting(os)' \subseteq Waiting(os) \ {t}
     /\ n' = n - 1

\* Both num_waiting_... counters keep up with the threads that wait when one
\* thread joins, leaves, or changes nothing.
LEMMA WaitersKept ==
  ASSUME IInv, TypeOK', NEW t \in Threads,
         Kept(t, {"write", "upgrade"}, num_waiting_writers_),
         Kept(t, {"weak"}, num_waiting_weak_writers_)
  PROVE  WaitersAreCounted'
<1>1. \A os : Waiting(os) \in SUBSET Threads /\ Waiting(os)' \in SUBSET Threads
  BY DEF Waiting
<1>2. /\ num_waiting_writers_ \in Nat /\ num_waiting_writers_' \in Nat
      /\ num_waiting_weak_writers_ \in Nat /\ num_waiting_weak_writers_' \in Nat
  BY DEF IInv, TypeOK
<1>3. num_waiting_writers_' >= Cardinality(Waiting({"write", "upgrade"})')
  BY <1>1, <1>2, CountKept DEF Kept, IInv, WaitersAreCounted
<1>4. num_waiting_weak_writers_' >= Cardinality(Waiting({"weak"})')
  BY <1>1, <1>2, CountKept DEF Kept, IInv, WaitersAreCounted
<1>5. QED  BY <1>3, <1>4 DEF WaitersAreCounted

\* Every step keeps every waiting writer counted, timeouts included.
LEMMA StepWaiting == IInv /\ [Next]_vars /\ TypeOK' => WaitersAreCounted'
<1> SUFFICES ASSUME IInv, [Next]_vars, TypeOK' PROVE WaitersAreCounted'
  OBVIOUS
<1> DEFINE KeptBy(t) == /\ Kept(t, {"write", "upgrade"}, num_waiting_writers_)
                        /\ Kept(t, {"weak"}, num_waiting_weak_writers_)
<1> USE DEF IInv, TypeOK, Kept, Waiting
<1>1. ASSUME NEW t \in Threads, NEW o \in Ops, NEW has_timeout \in BOOLEAN,
             Request(t, o, has_timeout)
      PROVE  KeptBy(t)
  BY <1>1 DEF Request, StartWaiting, Pending, Goto, SetOp
<1>2. ASSUME NEW t \in Threads, Upgrade(t) PROVE KeptBy(t)
  BY <1>2 DEF Upgrade, StartWaiting, Pending, Goto, SetOp
<1>3. ASSUME NEW t \in Threads, TakeStep(t) PROVE KeptBy(t)
  BY <1>3 DEF TakeStep, Take, Pending, Goto, SetOp
<1>4. ASSUME NEW t \in Threads, Check(t) PROVE KeptBy(t)
  <2>1. CASE TakeStep(t)
    BY <1>3, <2>1
  <2>2. CASE ~TakeStep(t)
    BY <1>4, <2>2 DEF Check, TakeStep, Pending, Goto, waiting
  <2>3. QED  BY <2>1, <2>2
<1>5. ASSUME NEW t \in Threads, Block(t) \/ SpuriousWakeup(t) \/ TimeOut(t)
      PROVE  KeptBy(t)
  BY <1>5 DEF Block, SpuriousWakeup, TimeOut, AwakeAt, Pending, Goto, waiting
<1>6. ASSUME NEW t \in Threads, Expire(t) PROVE KeptBy(t)
  BY <1>6 DEF Expire, Pending, waiting
<1>7. ASSUME NEW t \in Threads, LastCheck(t) PROVE KeptBy(t)
  <2>1. CASE TakeStep(t)
    BY <1>3, <2>1
  <2>2. CASE ~TakeStep(t)
    BY <1>7, <2>2 DEF LastCheck, TakeStep, Pending, Goto, SetOp, waiting
  <2>3. QED  BY <2>1, <2>2
<1>8. ASSUME NEW t \in Threads,
             Clear(t) \/ ReadWaitingWriters(t) \/ ReadWaitingWeakWriters(t)
      PROVE  KeptBy(t)
  BY <1>8 DEF Clear, ReadWaitingWriters, ReadWaitingWeakWriters, Pending, Goto,
              waiting
<1>9. ASSUME NEW t \in Threads,
             NotifyWriter(t) \/ NotifyWeakWriter(t) \/ NotifyReaders(t)
      PROVE  KeptBy(t)
  <2>1. PICK woken :
          /\ \A s \in woken : pc[s] = "sleeping"
          /\ Wake(t, woken)
          /\ pc[t] \in {"notify_writer", "notify_weak", "notify_readers"}
    BY <1>9, NotifyWakes
  <2>2. QED
    BY <2>1 DEF Wake, AwakeAt, SetOp, Pending, waiting
<1>10. CASE UNCHANGED vars
  BY <1>10 DEF vars, waiting, Pending, WaitersAreCounted
<1>11. QED
  BY <1>1, <1>2, <1>4, <1>5, <1>6, <1>7, <1>8, <1>9, <1>10, WaitersKept
     DEF Next, Unlocking

-----------------------------------------------------------------------------
(* The theorems                                                             *)

\* The inductive invariant is preserved by every step of every thread.
LEMMA StepIInv == IInv /\ [Next]_vars => IInv'
<1> SUFFICES ASSUME IInv, [Next]_vars PROVE IInv'
  OBVIOUS
<1>1. TypeOK'
  BY StepType
<1>2. FlagsMatchHolders' /\ MutualExclusion'
  BY ModeSteps, SameModesSafe, TakeSafe, ClearSafe
<1>3. WaitersAreCounted'
  BY <1>1, StepWaiting
<1>4. QED  BY <1>1, <1>2, <1>3 DEF IInv

\* Everything the flags, counters and program counters of the lock promise
\* holds in every reachable state: read_lock ... write_unlock as coded.
THEOREM Invariance == Spec => []IInv
<1>1. QED  BY InitIInv, StepIInv, PTL DEF Spec

\* The state is of the expected type, and each thread is where the flags of its
\* operation say it can be: only a thread about to block keeps mtx_, and an
\* upgrade is pending or over (ReadWriteLock.hpp:42-165).
THEOREM Typing == Spec => []TypeOK
<1>1. IInv => TypeOK
  BY DEF IInv
<1>2. QED  BY <1>1, Invariance, PTL

\* The lock excludes: a strong writer is alone and there is one weak writer
\* at most, for any finite set of threads (ReadWriteLock.hpp:20-23).
THEOREM Exclusion == Spec => []MutualExclusion
<1>1. IInv => MutualExclusion
  BY DEF IInv
<1>2. QED  BY <1>1, Invariance, PTL

\* The flags and the count of readers tell the truth at every moment.
THEOREM FlagsAreTrue == Spec => []FlagsMatchHolders
<1>1. IInv => FlagsMatchHolders
  BY DEF IInv
<1>2. QED  BY <1>1, Invariance, PTL

\* No unlock overlooks a waiting writer (ReadWriteLock.hpp:65,116,158).
THEOREM NoWriterOverlooked == Spec => []WaitersAreCounted
<1>1. IInv => WaitersAreCounted
  BY DEF IInv
<1>2. QED  BY <1>1, Invariance, PTL

\* Each step of the code is a step of the abstract lock or leaves it alone.
LEMMA StepImplements == IInv /\ [Next]_vars => [Lock!LockNext]_modes
<1> SUFFICES ASSUME IInv, [Next]_vars PROVE [Lock!LockNext]_modes
  OBVIOUS
<1>1. CASE SameModes
  BY <1>1 DEF SameModes, modes
<1>2. ASSUME NEW t \in Threads, TakeStep(t) PROVE Lock!LockNext
  <2>1. modes' = [modes EXCEPT ![t] = IF op[t] = "upgrade" THEN "write" ELSE op[t]]
    BY <1>2, TakeModes DEF modes
  <2>2. CASE op[t] = "upgrade"
    <3>1. Lock!UpgradeWeak(t)
      BY <1>2, <2>1, <2>2, TakeModes, AcquirableModes
         DEF TakeStep, Lock!UpgradeWeak, Lock!NobodyIs, modes
    <3>2. QED  BY <3>1 DEF Lock!LockNext
  <2>3. CASE op[t] # "upgrade"
    <3>1. op[t] \in Lock!Modes \ {"free"}
      BY <1>2, <2>3, TakeModes DEF Lock!Modes
    <3>2. Lock!Acquire(t, op[t])
      BY <1>2, <2>1, <2>3, TakeModes, AcquirableModes
         DEF TakeStep, Lock!Acquire, Lock!NobodyIs, modes
    <3>3. QED  BY <3>1, <3>2 DEF Lock!LockNext
  <2>4. QED  BY <2>2, <2>3
<1>3. ASSUME NEW t \in Threads, Clear(t) PROVE Lock!LockNext
  <2>1. modes' = [modes EXCEPT ![t] = "free"]
    BY <1>3, ClearModes DEF modes
  <2>2. Lock!Release(t)
    BY <1>3, <2>1, ClearModes DEF Lock!Release, modes
  <2>3. QED  BY <2>2 DEF Lock!LockNext
<1>4. QED  BY <1>1, <1>2, <1>3, ModeSteps

\* ReadWriteLock implements the abstract lock its class comment describes
\* (ReadWriteLock.hpp:20-23): a weak writer tolerates readers, can become a
\* strong writer, and nobody else writes in between.
THEOREM Refinement == Spec => ImplementsLock
<1>1. Init => Lock!LockInit
  BY DEF Init, Lock!LockInit, modes, Mode
<1>2. QED
  BY <1>1, StepImplements, Invariance, PTL DEF Spec, ImplementsLock, Lock!LockSpec
=============================================================================
